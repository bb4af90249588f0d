------------------------- MODULE TurnAuthorityProofs -------------------------
(***************************************************************************)
(* The memory of a placement tells the truth about the durable row, for    *)
(* every set of claims and authorities and any number of writes.           *)
(*                                                                         *)
(* The row runs ahead of the memory: writes land whose outcomes have not   *)
(* arrived.  The argument is always the same.  Either the row still agrees *)
(* with what the memory says, or a change that has landed and is still     *)
(* pending explains the difference; and a pending change of that kind      *)
(* fences every check.                                                     *)
(***************************************************************************)
EXTENDS TurnAuthority, FiniteSetTheorems, TLAPS

Landed(p) == p.write = "landed"
Unsettled(p) == p.write = "open"

\* A landed change newer than s, whose outcome has not arrived, ended claim c
Taken(c, s) == \E p \in pending : Landed(p) /\ p.kind = "claim" /\ p.seq > s /\ p.claim # c

\* Types, with the cardinalities of TypeOK said element by element
AuthRec == [phase : {"free", "reading", "read", "live"}, claim : MaybeClaims,
            created : 0 .. MaxChanges, pub : 0 .. MaxChanges, facts : SUBSET MaybeClaims,
            snapshot : SUBSET MaybeClaims, revoked : BOOLEAN, since : 0 .. MaxChanges]
ResultFacts == [claim : MaybeClaims, result : MaybeClaims]
ObserverRec == [phase : {"free", "reading", "read"}, claim : MaybeClaims,
                published : 0 .. MaxChanges, revoked : BOOLEAN, snapshot : SUBSET ResultFacts]
PlacementRec(top) == [seq : 0 .. top, claim : MaybeClaims, exact : BOOLEAN]
ReplicaRec(top) == [phase : {"free", "reading", "read"}, seq : 0 .. top,
                    snapshot : MaybeClaims, calm : BOOLEAN]

TypeInv ==
    /\ row \in Rows /\ post \in Rows
    /\ sequence \in 0 .. MaxChanges /\ published \in 0 .. sequence
    /\ pending \subseteq Changes
    /\ placement \subseteq PlacementRec(sequence)
    /\ replica \in ReplicaRec(sequence)
    /\ tools \in [seq : 0 .. sequence, claim : MaybeClaims]
    /\ results \subseteq ResultFacts
    /\ auth \in [Authorities -> AuthRec]
    /\ observer \in ObserverRec
    /\ setting \in [kind : Kinds, consulted : Consulted] /\ reordered \in BOOLEAN
    /\ \A x, y \in placement : x = y
    /\ \A x, y \in results : x = y
    /\ \A x, y \in observer.snapshot : x = y

\* Sequence numbers: an open change is the newest of all, so nothing that was
\* published, prepared or authorized so far is newer
SeqInv ==
    /\ row.incarnation <= sequence /\ post.incarnation <= sequence
    /\ \A p, q \in pending : p.seq = q.seq => p = q
    /\ \A p \in pending : p.seq <= sequence /\ p.known
    /\ \A p \in pending : Unsettled(p) =>
         p.seq = sequence /\ published < p.seq /\ tools.seq < p.seq
    /\ \A a \in Authorities : /\ auth[a].created <= sequence
                              /\ \A p \in pending : Unsettled(p) => auth[a].created < p.seq

\* What a change says of the row that its transaction leaves behind
Describes(p, r) ==
    /\ p.kind # "tools" => p.claim = r.claim /\ p.result = r.result
    /\ p.kind # "tools" /\ ~p.hasResult => r.result = row.result
    /\ p.kind = "tools" => p.claim = r.tools /\ p.result = row.claim /\ r.result = row.result
    /\ p.kind # "claim" => r.claim = row.claim /\ r.incarnation = row.incarnation
    /\ p.kind = "result" => r.tools = row.tools
    /\ p.kind = "claim" /\ r.claim = row.claim /\ row.claim # NoClaim =>
         r.tools = row.tools /\ r.incarnation = row.incarnation

PostInv ==
    /\ (\A p \in pending : ~Unsettled(p)) => post = row
    /\ \A p \in pending : Unsettled(p) => Describes(p, post)
    /\ \A p \in pending : p.kind = "tools" => p.claim \in {NoClaim, p.result} /\ p.result \in Claims

\* Tools are only ever authorized for the claim that holds the turn
ToolRow(r) == r.tools \in {NoClaim, r.claim} /\ (setting.kind = "local" => r.tools = NoClaim)

BaseInv == TypeInv /\ SeqInv /\ PostInv /\ ToolRow(row) /\ ToolRow(post)

-----------------------------------------------------------------------------
(* Classes of steps.                                                       *)

\* A write enters its transaction and stages what it will leave behind
StageStep(r, ch) ==
    /\ Stage(r, ch)
    /\ r \in Rows /\ r.incarnation <= sequence + 1
    /\ ch \in Changes /\ ch.seq = sequence + 1 /\ ch.known /\ ch.write = "open"
    /\ Describes(ch, r)
    /\ ch.kind = "tools" => ch.claim \in {NoClaim, ch.result} /\ ch.result \in Claims
    /\ ToolRow(r)

\* Every write is such a step
LEMMA WriteStages ==
    ASSUME BaseInv, NEW c \in Claims, Write(c)
    PROVE  \E r, ch : StageStep(r, ch)
<1> USE AuthorityAssumption
<1>1. /\ row \in [claim : MaybeClaims, tools : MaybeClaims, result : MaybeClaims,
                  incarnation : 0 .. MaxChanges]
      /\ row.incarnation <= sequence /\ sequence \in 0 .. MaxChanges
      /\ c \in MaybeClaims /\ NoClaim \in MaybeClaims /\ c # NoClaim
  BY DEF BaseInv, TypeInv, SeqInv, Rows, MaybeClaims
<1>2. sequence < MaxChanges
  <2>1. sequence < Budget
    BY DEF Write, ClaimTurn, ReleaseTurn, ClaimWorkspaceResult, ReleaseWorkspaceResult,
           RecordWorkspaceResult, SetTools, Stage
  <2>2. QED
    BY <1>1, <2>1 DEF Budget
<1>3. ToolRow(row)
  BY DEF BaseInv
<1>4. ASSUME NEW kind \in {"claim", "tools", "result"}, NEW r \in Rows
      PROVE  /\ \A has, placed \in BOOLEAN : Change(kind, r, has, placed) \in Changes
             /\ r.claim \in MaybeClaims /\ r.result \in MaybeClaims
  BY <1>1, <1>2, <1>4 DEF Change, Changes, Rows
<1>5. CASE ClaimTurn(c) \/ ClaimWorkspaceResult(c)
  <2>1. PICK w : w = WithClaim(c)
    OBVIOUS
  <2>2. Admissible(c)
    BY <1>5 DEF ClaimTurn, ClaimWorkspaceResult
  <2>3. /\ w \in Rows /\ w.claim = c /\ w.tools = row.tools /\ w.result = row.result
        /\ w.incarnation <= sequence + 1
        /\ row.claim = c => w.incarnation = row.incarnation
    <3>1. PICK n : n = IF row.claim = c THEN row.incarnation ELSE row.incarnation + 1
      OBVIOUS
    <3>2. n \in 0 .. MaxChanges /\ n <= sequence + 1
      BY <1>1, <1>2, <3>1
    <3>3. w = [row EXCEPT !.claim = c, !.incarnation = n]
      BY <2>1, <3>1 DEF WithClaim
    <3>4. QED
      BY <1>1, <3>1, <3>2, <3>3 DEF Rows
  <2>4. CASE ClaimTurn(c)
    <3>1. PICK placed \in BOOLEAN :
            \E ch : Stage(w, ch) /\ ch = Change("claim", w, FALSE, placed)
      BY <2>1, <2>4 DEF ClaimTurn, Supplied
    <3>2. PICK ch : Stage(w, ch) /\ ch = Change("claim", w, FALSE, placed)
      BY <3>1
    <3>3. /\ ch \in Changes /\ ch.seq = sequence + 1 /\ ch.known /\ ch.write = "open"
          /\ ch.kind = "claim" /\ ch.claim = w.claim /\ ch.result = w.result
          /\ ch.hasResult = FALSE
      <4>1. ch = [seq |-> sequence + 1, kind |-> "claim", claim |-> w.claim, result |-> w.result,
               hasResult |-> FALSE, hasPlacement |-> placed, known |-> TRUE, write |-> "open"]
        BY <3>2 DEF Change
      <4>2. ch \in Changes
        BY <1>4, <2>3, <3>2
      <4>3. QED
        BY <4>1, <4>2
    <3>4. Describes(ch, w) /\ ToolRow(w)
      <4>1. Describes(ch, w)
        BY <1>1, <1>3, <2>2, <2>3, <3>3 DEF Describes
      <4>2. ToolRow(w)
        BY <1>1, <1>3, <2>2, <2>3, <3>3 DEF ToolRow, Admissible
      <4>3. QED
        BY <4>1, <4>2
    <3>5. StageStep(w, ch)
      BY <2>3, <3>2, <3>3, <3>4 DEF StageStep
    <3>6. QED
      BY <3>5
  <2>5. CASE ClaimWorkspaceResult(c)
    <3>1. PICK r : r = [w EXCEPT !.result = c]
      OBVIOUS
    <3>2. PICK ch : ch = Change("claim", r, TRUE, TRUE)
      OBVIOUS
    <3>3. Stage(r, ch)
      BY <2>1, <2>5, <3>1, <3>2 DEF ClaimWorkspaceResult
    <3>4. /\ r \in Rows /\ r.claim = c /\ r.tools = row.tools /\ r.result = c
          /\ r.incarnation = w.incarnation
      BY <1>1, <2>3, <3>1 DEF Rows
    <3>5. /\ ch \in Changes /\ ch.seq = sequence + 1 /\ ch.known /\ ch.write = "open"
          /\ ch.kind = "claim" /\ ch.claim = r.claim /\ ch.result = r.result
          /\ ch.hasResult = TRUE
      <4>1. ch = [seq |-> sequence + 1, kind |-> "claim", claim |-> r.claim, result |-> r.result,
               hasResult |-> TRUE, hasPlacement |-> TRUE, known |-> TRUE, write |-> "open"]
        BY <3>2 DEF Change
      <4>2. ch \in Changes
        BY <1>4, <3>4, <3>2
      <4>3. QED
        BY <4>1, <4>2
    <3>6. Describes(ch, r) /\ ToolRow(r)
      <4>1. Describes(ch, r)
        BY <1>1, <1>3, <2>2, <2>3, <3>4, <3>5 DEF Describes
      <4>2. ToolRow(r)
        BY <1>1, <1>3, <2>2, <2>3, <3>4, <3>5 DEF ToolRow, Admissible
      <4>3. QED
        BY <4>1, <4>2
    <3>7. StageStep(r, ch)
      BY <2>3, <3>3, <3>4, <3>5, <3>6 DEF StageStep
    <3>8. QED
      BY <3>7
  <2>6. QED
    BY <1>5, <2>4, <2>5
<1>6. CASE ReleaseTurn(c) \/ ReleaseWorkspaceResult(c)
  <2>1. PICK w : w = WithoutClaim(c)
    OBVIOUS
  <2>2. row.claim = c \/ (setting.kind = "local" /\ row.claim = NoClaim)
    BY <1>6 DEF ReleaseTurn, ReleaseWorkspaceResult
  <2>3. /\ w \in Rows /\ w.claim = NoClaim /\ w.result = row.result
        /\ w.incarnation = row.incarnation
        /\ w.tools = IF row.tools = c THEN NoClaim ELSE row.tools
    BY <1>1, <2>1 DEF WithoutClaim, Rows
  <2>4. w.tools = NoClaim
    BY <1>3, <2>2, <2>3 DEF ToolRow
  <2>5. CASE ReleaseTurn(c)
    <3>1. PICK placed \in BOOLEAN :
            \E ch : Stage(w, ch) /\ ch = Change("claim", w, FALSE, placed)
      BY <2>1, <2>5 DEF ReleaseTurn, Supplied
    <3>2. PICK ch : Stage(w, ch) /\ ch = Change("claim", w, FALSE, placed)
      BY <3>1
    <3>3. /\ ch \in Changes /\ ch.seq = sequence + 1 /\ ch.known /\ ch.write = "open"
          /\ ch.kind = "claim" /\ ch.claim = w.claim /\ ch.result = w.result
          /\ ch.hasResult = FALSE
      <4>1. ch = [seq |-> sequence + 1, kind |-> "claim", claim |-> w.claim, result |-> w.result,
               hasResult |-> FALSE, hasPlacement |-> placed, known |-> TRUE, write |-> "open"]
        BY <3>2 DEF Change
      <4>2. ch \in Changes
        BY <1>4, <2>3, <3>2
      <4>3. QED
        BY <4>1, <4>2
    <3>4. Describes(ch, w) /\ ToolRow(w)
      <4>1. Describes(ch, w)
        BY <1>1, <2>3, <2>4, <3>3 DEF Describes
      <4>2. ToolRow(w)
        BY <1>1, <2>3, <2>4, <3>3 DEF ToolRow
      <4>3. QED
        BY <4>1, <4>2
    <3>5. StageStep(w, ch)
      <4>1. w.incarnation <= sequence + 1
        BY <1>1, <2>3
      <4>2. QED
        BY <2>3, <3>2, <3>3, <3>4, <4>1 DEF StageStep
    <3>6. QED
      BY <3>5
  <2>6. CASE ReleaseWorkspaceResult(c)
    <3>1. PICK r : r = [w EXCEPT !.result = NoClaim]
      OBVIOUS
    <3>2. PICK ch : ch = Change("claim", r, TRUE, TRUE)
      OBVIOUS
    <3>3. Stage(r, ch)
      BY <2>1, <2>6, <3>1, <3>2 DEF ReleaseWorkspaceResult
    <3>4. /\ r \in Rows /\ r.claim = NoClaim /\ r.tools = NoClaim
          /\ r.incarnation = row.incarnation
      BY <1>1, <2>3, <2>4, <3>1 DEF Rows
    <3>5. /\ ch \in Changes /\ ch.seq = sequence + 1 /\ ch.known /\ ch.write = "open"
          /\ ch.kind = "claim" /\ ch.claim = r.claim /\ ch.result = r.result
          /\ ch.hasResult = TRUE
      <4>1. ch = [seq |-> sequence + 1, kind |-> "claim", claim |-> r.claim, result |-> r.result,
               hasResult |-> TRUE, hasPlacement |-> TRUE, known |-> TRUE, write |-> "open"]
        BY <3>2 DEF Change
      <4>2. ch \in Changes
        BY <1>4, <3>4, <3>2
      <4>3. QED
        BY <4>1, <4>2
    <3>6. Describes(ch, r) /\ ToolRow(r)
      <4>1. Describes(ch, r)
        BY <1>1, <3>4, <3>5 DEF Describes
      <4>2. ToolRow(r)
        BY <1>1, <3>4, <3>5 DEF ToolRow
      <4>3. QED
        BY <4>1, <4>2
    <3>7. StageStep(r, ch)
      <4>1. r.incarnation <= sequence + 1
        BY <1>1, <3>4
      <4>2. QED
        BY <3>3, <3>4, <3>5, <3>6, <4>1 DEF StageStep
    <3>8. QED
      BY <3>7
  <2>7. QED
    BY <1>6, <2>5, <2>6
<1>7. CASE RecordWorkspaceResult(c)
  <2>1. PICK r : r = [row EXCEPT !.result = c]
    OBVIOUS
  <2>2. PICK ch : ch = Change("result", r, TRUE, TRUE)
    OBVIOUS
  <2>3. Stage(r, ch)
    BY <1>7, <2>1, <2>2 DEF RecordWorkspaceResult
  <2>4. /\ r \in Rows /\ r.claim = row.claim /\ r.tools = row.tools
        /\ r.incarnation = row.incarnation
    BY <1>1, <2>1 DEF Rows
  <2>5. /\ ch \in Changes /\ ch.seq = sequence + 1 /\ ch.known /\ ch.write = "open"
        /\ ch.kind = "result" /\ ch.claim = r.claim /\ ch.result = r.result
        /\ ch.hasResult = TRUE
    <3>1. ch = [seq |-> sequence + 1, kind |-> "result", claim |-> r.claim, result |-> r.result,
             hasResult |-> TRUE, hasPlacement |-> TRUE, known |-> TRUE, write |-> "open"]
      BY <2>2 DEF Change
    <3>2. ch \in Changes
      BY <1>4, <2>4, <2>2
    <3>3. QED
      BY <3>1, <3>2
  <2>6. Describes(ch, r) /\ ToolRow(r)
    <3>1. Describes(ch, r)
      BY <1>3, <2>4, <2>5 DEF Describes
    <3>2. ToolRow(r)
      BY <1>3, <2>4, <2>5 DEF ToolRow
    <3>3. QED
      BY <3>1, <3>2
  <2>7. StageStep(r, ch)
    <3>1. r.incarnation <= sequence + 1
      BY <1>1, <2>4
    <3>2. QED
      BY <2>3, <2>4, <2>5, <2>6, <3>1 DEF StageStep
  <2>8. QED
    BY <2>7
<1>8. ASSUME NEW authorized \in BOOLEAN, SetTools(c, authorized)
      PROVE  \E r, ch : StageStep(r, ch)
  <2>1. PICK r : r = [row EXCEPT !.tools = IF authorized THEN c ELSE NoClaim]
    OBVIOUS
  <2>2. PICK b : b = Change("tools", row, FALSE, FALSE)
    OBVIOUS
  <2>3. PICK ch : ch = [b EXCEPT !.claim = r.tools, !.result = c]
    OBVIOUS
  <2>4. Stage(r, ch) /\ row.claim = c /\ setting.kind = "worker"
    BY <1>8, <2>1, <2>2, <2>3 DEF SetTools
  <2>5. /\ r \in Rows /\ r.claim = row.claim /\ r.result = row.result
        /\ r.incarnation = row.incarnation /\ r.tools \in {NoClaim, c}
    BY <1>1, <2>1 DEF Rows
  <2>6. /\ b \in Changes /\ b.seq = sequence + 1 /\ b.known /\ b.write = "open"
        /\ b.kind = "tools"
    BY <1>1, <1>4, <2>2 DEF Rows, Change
  <2>7. /\ ch \in Changes /\ ch.seq = sequence + 1 /\ ch.known /\ ch.write = "open"
        /\ ch.kind = "tools" /\ ch.claim = r.tools /\ ch.result = c
    BY <1>1, <2>3, <2>5, <2>6 DEF Changes
  <2>8. Describes(ch, r) /\ ToolRow(r)
    <3>1. Describes(ch, r)
      BY <2>4, <2>5, <2>7 DEF Describes
    <3>2. ToolRow(r)
      BY <2>4, <2>5, <2>7 DEF ToolRow
    <3>3. QED
      BY <3>1, <3>2
  <2>9. StageStep(r, ch)
    BY <1>1, <2>4, <2>5, <2>7, <2>8 DEF StageStep
  <2>10. QED
    BY <2>9
<1>9. QED
  BY <1>5, <1>6, <1>7, <1>8 DEF Write

\* The open transaction ends: its change is marked as landed or undone
SwapStep(p, q) ==
    /\ p \in pending /\ Unsettled(p)
    /\ q \in Changes /\ ~Unsettled(q)
    /\ q.seq = p.seq /\ q.kind = p.kind /\ q.claim = p.claim /\ q.result = p.result
    /\ q.hasResult = p.hasResult /\ q.known = p.known
    /\ pending' = (pending \ {p}) \cup {q}
    /\ UNCHANGED <<sequence, published, placement, tools, results, auth, observer, replica, setting,
                   reordered>>
LandStep(p, q) == SwapStep(p, q) /\ Landed(q) /\ row' = post /\ post' = post
UndoStep(p, q) == SwapStep(p, q) /\ ~Landed(q) /\ row' = row /\ post' = row

\* The commit is such a step,
LEMMA LandSwaps ==
    ASSUME TypeInv, Land
    PROVE  \E p, q : LandStep(p, q)
<1>1. PICK p \in pending : /\ p.write = "open" /\ row' = post
                           /\ pending' = (pending \ {p}) \cup {[p EXCEPT !.write = "landed"]}
  BY DEF Land
<1>2. PICK q : q = [p EXCEPT !.write = "landed"]
  OBVIOUS
<1>3. LandStep(p, q)
  <2>1. p \in Changes
    BY <1>1 DEF TypeInv
  <2>2. /\ q \in Changes /\ q.write = "landed" /\ q.seq = p.seq /\ q.kind = p.kind
        /\ q.claim = p.claim /\ q.result = p.result /\ q.hasResult = p.hasResult
        /\ q.known = p.known
    BY <1>2, <2>1 DEF Changes
  <2>3. pending' = (pending \ {p}) \cup {q}
    BY <1>1, <1>2
  <2>4. QED
    BY <1>1, <2>2, <2>3 DEF LandStep, SwapStep, Land, Landed, Unsettled
<1>4. QED
  BY <1>3

\* and so is the rollback
LEMMA UndoSwaps ==
    ASSUME TypeInv, Undo
    PROVE  \E p, q : UndoStep(p, q)
<1>1. PICK p \in pending : /\ p.write = "open" /\ post' = row
                           /\ pending' = (pending \ {p}) \cup {[p EXCEPT !.write = "undone"]}
  BY DEF Undo
<1>2. PICK q : q = [p EXCEPT !.write = "undone"]
  OBVIOUS
<1>3. UndoStep(p, q)
  <2>1. p \in Changes
    BY <1>1 DEF TypeInv
  <2>2. /\ q \in Changes /\ q.write = "undone" /\ q.seq = p.seq /\ q.kind = p.kind
        /\ q.claim = p.claim /\ q.result = p.result /\ q.hasResult = p.hasResult
        /\ q.known = p.known
    BY <1>2, <2>1 DEF Changes
  <2>3. pending' = (pending \ {p}) \cup {q}
    BY <1>1, <1>2
  <2>4. QED
    BY <1>1, <2>2, <2>3 DEF UndoStep, SwapStep, Undo, Landed, Unsettled
<1>4. QED
  BY <1>3

\* A change is published: as it is if it has landed, or without its facts if
\* its outcome was lost
Published(ch, p) ==
    /\ ch \in Changes /\ ch.seq = p.seq /\ ch.kind = p.kind /\ ch.result = p.result
    /\ \/ Landed(p) /\ ch = p
       \/ ch.kind = "tools" /\ ch.claim = NoClaim
       \/ ch.kind # "tools" /\ ~ch.known /\ ~ch.hasResult

OutcomeStep(p, ch) ==
    /\ p \in pending /\ ~Unsettled(p) /\ Published(ch, p)
    /\ CommitChange(ch, pending \ {p})
    /\ reordered' = (reordered \/ \E q \in pending : q.seq < p.seq)
    /\ UNCHANGED <<row, post, sequence, setting>>

\* Committed and invalidated changes are published so
LEMMA OutcomesPublish ==
    ASSUME TypeInv, Commit \/ Invalidate
    PROVE  \E p, ch : OutcomeStep(p, ch)
<1>1. CASE Commit
  <2>1. PICK p \in pending : /\ Arrives(p) /\ p.write = "landed"
                             /\ CommitChange(p, pending \ {p})
                             /\ UNCHANGED <<row, post, sequence, setting>>
    BY <1>1 DEF Commit
  <2>2. p \in Changes
    BY DEF TypeInv
  <2>3. OutcomeStep(p, p)
    BY <2>1, <2>2 DEF OutcomeStep, Published, Arrives, Landed, Unsettled
  <2>4. QED
    BY <2>3
<1>2. CASE Invalidate
  <2>1. PICK p \in pending : /\ Arrives(p)
                             /\ CommitChange(Unknown(p), pending \ {p})
                             /\ UNCHANGED <<row, post, sequence, setting>>
    BY <1>2 DEF Invalidate
  <2>2. p \in Changes
    BY DEF TypeInv
  <2>3. PICK ch : ch = Unknown(p)
    OBVIOUS
  <2>4. Published(ch, p)
    BY <2>2, <2>3, AuthorityAssumption DEF Published, Unknown, Changes, MaybeClaims
  <2>5. CommitChange(ch, pending \ {p})
    BY <2>1, <2>3
  <2>6. OutcomeStep(p, ch)
    BY <2>1, <2>4, <2>5 DEF OutcomeStep, Arrives, Unsettled
  <2>7. QED
    BY <2>6
<1>3. QED
  BY <1>1, <1>2

\* clearLocalTurnClaims publishes a newer change than any other, without a claim
ClearStep(ch) ==
    /\ ch \in Changes /\ ch.seq = sequence + 1 /\ ch.kind = "claim" /\ ch.claim = NoClaim
    /\ ch.known /\ ~ch.hasResult /\ ch.hasPlacement /\ ch.result = row.result
    /\ setting.kind = "local"
    /\ \A p \in pending : ~Unsettled(p)
    /\ sequence' = sequence + 1 /\ sequence < MaxChanges
    /\ row' \in Rows /\ row'.claim = NoClaim /\ row'.tools = row.tools
    /\ row'.result = row.result /\ row'.incarnation = row.incarnation
    /\ post' = row'
    /\ CommitChange(ch, pending)
    /\ reordered' = (reordered \/ pending # {})
    /\ setting' = setting

\* The clearing is such a step
LEMMA ClearPublishes ==
    ASSUME TypeInv, ClearLocalTurnClaims
    PROVE  \E ch : ClearStep(ch)
<1>1. PICK r : r = [row EXCEPT !.claim = NoClaim]
  OBVIOUS
<1>2. /\ r \in Rows /\ r.claim = NoClaim /\ r.tools = row.tools /\ r.result = row.result
      /\ r.incarnation = row.incarnation
  BY <1>1 DEF TypeInv, Rows, MaybeClaims
<1>3. row' = r
  BY <1>1 DEF ClearLocalTurnClaims
<1>4. PICK ch : ch = Change("claim", r, FALSE, TRUE)
  OBVIOUS
<1>5. /\ ch \in Changes /\ ch.seq = sequence + 1 /\ ch.kind = "claim" /\ ch.claim = NoClaim
      /\ ch.known /\ ~ch.hasResult /\ ch.hasPlacement /\ ch.result = row.result
  BY <1>2, <1>4, AuthorityAssumption
  DEF Change, Changes, Rows, TypeInv, Budget, ClearLocalTurnClaims
<1>6. CommitChange(ch, pending)
  BY <1>3, <1>4 DEF ClearLocalTurnClaims
<1>7. ClearStep(ch)
  BY <1>2, <1>3, <1>5, <1>6, AuthorityAssumption
  DEF ClearStep, ClearLocalTurnClaims, Budget, TypeInv, Unsettled
<1>8. QED
  BY <1>7

-----------------------------------------------------------------------------
(* The base invariant.                                                     *)

\* What a published change does to a retained claim
LEMMA RetainedFields ==
    ASSUME TypeInv, NEW a \in Authorities, NEW ch \in Changes, NEW n, n = Retained(a, ch)
    PROVE  /\ n \in AuthRec
           /\ n.phase = auth[a].phase /\ n.claim = auth[a].claim
           /\ n.created = auth[a].created /\ n.snapshot = auth[a].snapshot
           /\ n.since = auth[a].since
           /\ auth[a].phase = "free" \/ ch.kind # "claim" \/ ch.seq <= auth[a].created =>
                n = auth[a]
           /\ auth[a].phase # "free" /\ ch.kind = "claim" /\ ch.seq > auth[a].created =>
                /\ n.revoked = (auth[a].revoked \/ ~Allows(ch, auth[a].claim))
                /\ \/ n.facts = auth[a].facts
                   \/ ch.known /\ n.facts = {ch.claim}
                   \/ ~ch.known
<1>1. auth[a] \in AuthRec
  BY DEF TypeInv
<1>2. CASE auth[a].phase = "free" \/ ch.kind # "claim" \/ ch.seq <= auth[a].created
  <2>1. n = auth[a]
    BY <1>2 DEF Retained
  <2>2. ch.seq \in Nat /\ auth[a].created \in Nat
    BY <1>1 DEF AuthRec, Changes
  <2>3. QED
    BY <1>1, <1>2, <2>1, <2>2
<1>3. CASE ~(auth[a].phase = "free" \/ ch.kind # "claim" \/ ch.seq <= auth[a].created)
  <2>1. PICK f : f = IF ~(ch.seq > auth[a].pub) THEN auth[a].facts
                     ELSE IF ch.known THEN {ch.claim} ELSE {}
    OBVIOUS
  <2>2. PICK b : b = IF ch.seq > auth[a].pub THEN ch.seq ELSE auth[a].pub
    OBVIOUS
  <2>3. PICK v \in BOOLEAN : v = (auth[a].revoked \/ ~Allows(ch, auth[a].claim))
    BY DEF Allows
  <2>4. PICK r : r = auth[a]
    OBVIOUS
  <2>5. n = [r EXCEPT !.facts = f, !.pub = b, !.revoked = v]
    BY <1>3, <2>1, <2>2, <2>3, <2>4 DEF Retained
  <2>6. f \in SUBSET MaybeClaims /\ b \in 0 .. MaxChanges
    BY <1>1, <2>1, <2>2 DEF AuthRec, Changes
  <2>7. n \in AuthRec
    BY <1>1, <2>4, <2>5, <2>6 DEF AuthRec
  <2>8. /\ n.phase = r.phase /\ n.claim = r.claim /\ n.created = r.created
        /\ n.snapshot = r.snapshot /\ n.since = r.since /\ n.facts = f /\ n.revoked = v
    BY <1>1, <2>4, <2>5 DEF AuthRec
  <2>9. QED
    BY <1>3, <2>1, <2>3, <2>4, <2>7, <2>8
<1>4. QED
  BY <1>2, <1>3

\* A publication keeps the types
LEMMA PublicationTypes ==
    ASSUME TypeInv, NEW ch \in Changes, NEW rest, rest \subseteq pending, CommitChange(ch, rest),
           sequence' \in sequence .. MaxChanges, ch.seq <= sequence',
           row' \in Rows, post' \in Rows, setting' = setting,
           reordered' \in BOOLEAN
    PROVE  TypeInv'
<1>1. /\ sequence \in Nat /\ sequence' \in 0 .. MaxChanges /\ sequence <= sequence'
      /\ ch.seq \in 1 .. sequence' /\ ch.claim \in MaybeClaims /\ ch.result \in MaybeClaims
  BY AuthorityAssumption DEF TypeInv, Changes
<1>2. placement' \subseteq PlacementRec(sequence') /\ \A x, y \in placement' : x = y
  <2>1. placement \subseteq PlacementRec(sequence')
    BY <1>1 DEF TypeInv, PlacementRec
  <2>2. {[p EXCEPT !.exact = @ /\ p.seq = ch.seq] : p \in placement} \subseteq PlacementRec(sequence')
    BY <2>1 DEF PlacementRec
  <2>3. [seq |-> ch.seq, claim |-> ch.claim, exact |-> TRUE] \in PlacementRec(sequence')
    BY <1>1 DEF PlacementRec
  <2>4. QED
    <3>1. placement' \in {placement, {}, {[seq |-> ch.seq, claim |-> ch.claim, exact |-> TRUE]},
                           {[p EXCEPT !.exact = @ /\ p.seq = ch.seq] : p \in placement}}
      BY DEF CommitChange, NextPlacement
    <3>2. \A x, y \in placement : x = y
      BY DEF TypeInv
    <3>3. \A x, y \in placement' : x = y
      BY <3>1, <3>2
    <3>4. QED
      BY <2>1, <2>2, <2>3, <3>1, <3>3
<1>3. tools' \in [seq : 0 .. sequence', claim : MaybeClaims]
  <2>1. tools \in [seq : 0 .. sequence', claim : MaybeClaims]
    BY <1>1 DEF TypeInv
  <2>2. NoClaim \in MaybeClaims /\ ch.seq \in 0 .. sequence'
    BY <1>1 DEF MaybeClaims
  <2>3. tools' \in {tools, [seq |-> ch.seq, claim |-> ch.claim],
                    [seq |-> ch.seq, claim |-> NoClaim]}
    BY DEF CommitChange, NextToolsFromTools, NextToolsFromClaim
  <2>4. QED
    BY <1>1, <2>1, <2>2, <2>3
<1>4. results' \subseteq ResultFacts /\ \A x, y \in results' : x = y
  <2>1. results' = results \/ results' = NextResults(ch)
    BY DEF CommitChange
  <2>2. NextResults(ch) \subseteq ResultFacts /\ \A x, y \in NextResults(ch) : x = y
    BY <1>1 DEF NextResults, TypeInv, ResultFacts
  <2>3. QED
    BY <2>1, <2>2 DEF TypeInv
<1>5. published' \in 0 .. sequence'
  <2>1. published \in 0 .. sequence' /\ ch.seq \in 0 .. sequence'
    BY <1>1 DEF TypeInv
  <2>2. published' \in {published, ch.seq}
    BY DEF CommitChange
  <2>3. QED
    BY <2>1, <2>2
<1>6. observer' \in ObserverRec /\ observer'.snapshot = observer.snapshot
  BY DEF CommitChange, TypeInv, ObserverRec
<1>7. auth' \in [Authorities -> AuthRec]
  BY RetainedFields DEF CommitChange
<1>8. pending' \subseteq Changes
  BY DEF CommitChange, TypeInv
<1>9. replica' \in ReplicaRec(sequence')
  <2>1. PICK v \in BOOLEAN : replica' = [replica EXCEPT !.calm = v]
    BY DEF CommitChange, NextReplica, TypeInv, ReplicaRec
  <2>2. QED
    BY <1>1, <2>1 DEF TypeInv, ReplicaRec
<1>10. QED
  BY <1>1, <1>2, <1>3, <1>4, <1>5, <1>6, <1>7, <1>8, <1>9 DEF TypeInv

\* Staging keeps the base invariant
LEMMA BaseStage ==
    ASSUME BaseInv, NEW r, NEW ch, StageStep(r, ch)
    PROVE  BaseInv'
<1> USE DEF Unsettled
<1>1. /\ sequence \in 0 .. MaxChanges /\ sequence' = sequence + 1 /\ sequence < MaxChanges
      /\ sequence' \in 0 .. MaxChanges /\ \A p \in pending : ~Unsettled(p)
      /\ pending' = pending \cup {ch} /\ post' = r
      /\ UNCHANGED <<row, published, placement, tools, results, auth, observer, replica, setting, reordered>>
      /\ \A p \in pending : p.seq \in Nat
  BY AuthorityAssumption DEF StageStep, Stage, Budget, BaseInv, TypeInv, Changes
<1>2. TypeInv'
  <2>1. published' \in 0 .. sequence'
    BY <1>1 DEF BaseInv, TypeInv
  <2>2. placement' \subseteq PlacementRec(sequence')
    BY <1>1 DEF BaseInv, TypeInv, PlacementRec
  <2>3. tools' \in [seq : 0 .. sequence', claim : MaybeClaims]
    BY <1>1 DEF BaseInv, TypeInv
  <2>4. replica' \in ReplicaRec(sequence')
    BY <1>1 DEF BaseInv, TypeInv, ReplicaRec
  <2>5. QED
    BY <1>1, <2>1, <2>2, <2>3, <2>4 DEF BaseInv, TypeInv, StageStep
<1>3. SeqInv'
  <2>1. /\ published \in 0 .. sequence /\ tools.seq \in 0 .. sequence
        /\ row.incarnation \in Nat /\ r.incarnation \in Nat
        /\ \A a \in Authorities : auth[a].created \in Nat
    BY AuthorityAssumption DEF BaseInv, TypeInv, Rows, AuthRec, StageStep
  <2>2. row.incarnation <= sequence + 1 /\ r.incarnation <= sequence + 1
    BY <1>1, <2>1 DEF BaseInv, SeqInv, StageStep
  <2>3. \A p, q \in pending \cup {ch} : p.seq = q.seq => p = q
    BY <1>1 DEF BaseInv, SeqInv, StageStep
  <2>4. \A p \in pending \cup {ch} : p.seq <= sequence + 1 /\ p.known
    BY <1>1 DEF BaseInv, SeqInv, StageStep
  <2>5. \A p \in pending \cup {ch} : Unsettled(p) =>
           p.seq = sequence + 1 /\ published < p.seq /\ tools.seq < p.seq
    BY <1>1, <2>1 DEF StageStep
  <2>6. \A a \in Authorities :
           /\ auth[a].created <= sequence + 1
           /\ \A p \in pending \cup {ch} : Unsettled(p) => auth[a].created < p.seq
    BY <1>1, <2>1 DEF BaseInv, SeqInv, StageStep
  <2>7. QED
    BY <1>1, <2>2, <2>3, <2>4, <2>5, <2>6 DEF SeqInv
<1>4. PostInv'
  BY <1>1 DEF PostInv, BaseInv, StageStep, Describes
<1>5. ToolRow(row)' /\ ToolRow(post)'
  BY <1>1 DEF ToolRow, BaseInv, StageStep
<1>6. QED
  BY <1>2, <1>3, <1>4, <1>5 DEF BaseInv

\* so does the end of the open transaction
LEMMA BaseSwap ==
    ASSUME BaseInv, NEW p, NEW q, LandStep(p, q) \/ UndoStep(p, q)
    PROVE  BaseInv' /\ \A s \in pending' : ~Unsettled(s)
<1> USE DEF Unsettled
<1>1. /\ SwapStep(p, q) /\ p \in Changes /\ row' \in {row, post} /\ post' = row'
      /\ UNCHANGED <<sequence, published, placement, tools, results, auth, observer, replica, setting,
                     reordered>>
  BY DEF LandStep, UndoStep, SwapStep, BaseInv, TypeInv
<1>2. TypeInv'
  BY <1>1 DEF SwapStep, BaseInv, TypeInv
<1>3. \A s \in pending' : ~Unsettled(s)
  BY <1>1 DEF SwapStep, BaseInv, SeqInv
<1>4. SeqInv'
  <2>1. \A x, y \in pending' : x.seq = y.seq => x = y
    BY <1>1 DEF SwapStep, BaseInv, SeqInv
  <2>2. \A x \in pending' : x.seq <= sequence /\ x.known
    BY <1>1 DEF SwapStep, BaseInv, SeqInv
  <2>3. QED
    BY <1>1, <1>3, <2>1, <2>2 DEF BaseInv, SeqInv
<1>5. PostInv'
  BY <1>1, <1>3 DEF PostInv, BaseInv, SwapStep
<1>6. ToolRow(row)' /\ ToolRow(post)'
  BY <1>1 DEF ToolRow, BaseInv
<1>7. QED
  BY <1>2, <1>3, <1>4, <1>5, <1>6 DEF BaseInv

\* a publication,
LEMMA BaseOutcome ==
    ASSUME BaseInv, NEW p, NEW ch, OutcomeStep(p, ch)
    PROVE  BaseInv'
<1>1. /\ CommitChange(ch, pending \ {p}) /\ pending' = pending \ {p} /\ p \in pending
      /\ ~Unsettled(p) /\ ch \in Changes /\ ch.seq = p.seq
      /\ UNCHANGED <<row, post, sequence, setting>>
      /\ sequence \in 0 .. MaxChanges /\ p.seq <= sequence
  BY DEF OutcomeStep, CommitChange, Published, BaseInv, SeqInv, TypeInv
<1>2. TypeInv'
  <2>1. reordered' \in BOOLEAN /\ sequence' \in sequence .. MaxChanges
    BY <1>1 DEF OutcomeStep, BaseInv, TypeInv
  <2>2. row' \in Rows /\ post' \in Rows
    BY <1>1 DEF BaseInv, TypeInv
  <2>3. QED
    BY <1>1, <2>1, <2>2, PublicationTypes DEF BaseInv
<1>3. \A a \in Authorities : auth'[a].created = auth[a].created
  BY <1>1, RetainedFields DEF CommitChange, BaseInv
<1>4. \A x \in pending : Unsettled(x) => published' < x.seq /\ tools'.seq < x.seq
  <2> SUFFICES ASSUME NEW x \in pending, Unsettled(x)
               PROVE  published' < x.seq /\ tools'.seq < x.seq
    OBVIOUS
  <2>1. x.seq = sequence /\ x # p /\ x.seq # p.seq /\ p.seq \in Nat /\ p.seq < x.seq
    BY <1>1 DEF BaseInv, SeqInv, TypeInv, Changes
  <2>2. published < x.seq /\ tools.seq < x.seq
    BY DEF BaseInv, SeqInv
  <2>3. published' \in {published, ch.seq}
    BY <1>1 DEF CommitChange
  <2>4. tools'.seq \in {tools.seq, ch.seq}
    BY <1>1 DEF CommitChange, NextToolsFromTools, NextToolsFromClaim
  <2>5. QED
    BY <1>1, <2>1, <2>2, <2>3, <2>4
<1>5. SeqInv'
  BY <1>1, <1>3, <1>4 DEF BaseInv, SeqInv
<1>6. PostInv'
  BY <1>1 DEF PostInv, BaseInv, Describes
<1>7. ToolRow(row)' /\ ToolRow(post)'
  BY <1>1 DEF ToolRow, BaseInv
<1>8. QED
  BY <1>2, <1>5, <1>6, <1>7 DEF BaseInv

\* and the synchronous clearing of local claims
LEMMA BaseClear ==
    ASSUME BaseInv, NEW ch, ClearStep(ch)
    PROVE  BaseInv'
<1>1. /\ CommitChange(ch, pending) /\ pending' = pending /\ ch \in Changes
      /\ ch.seq = sequence + 1 /\ sequence' = sequence + 1 /\ post' = row'
      /\ sequence \in 0 .. MaxChanges /\ sequence < MaxChanges
      /\ setting' = setting /\ \A p \in pending : ~Unsettled(p)
  BY DEF ClearStep, CommitChange, BaseInv, TypeInv
<1>2. TypeInv'
  <2>1. reordered' \in BOOLEAN /\ sequence' \in sequence .. MaxChanges
    BY <1>1, AuthorityAssumption DEF ClearStep, BaseInv, TypeInv
  <2>2. row' \in Rows /\ post' \in Rows
    BY DEF ClearStep
  <2>3. QED
    BY <1>1, <2>1, <2>2, PublicationTypes DEF BaseInv
<1>3. \A a \in Authorities : auth'[a].created = auth[a].created /\ auth[a].created \in Nat
  BY <1>1, RetainedFields DEF CommitChange, BaseInv, TypeInv, AuthRec
<1>4. SeqInv'
  <2>1. row'.incarnation <= sequence + 1 /\ post'.incarnation <= sequence + 1
    BY <1>1 DEF ClearStep, BaseInv, SeqInv, TypeInv, Rows
  <2>2. \A p \in pending : p.seq <= sequence + 1 /\ p.seq \in Nat
    BY <1>1 DEF BaseInv, SeqInv, TypeInv, Changes
  <2>3. \A a \in Authorities : auth'[a].created <= sequence + 1
    BY <1>1, <1>3 DEF BaseInv, SeqInv
  <2>4. QED
    BY <1>1, <2>1, <2>2, <2>3 DEF BaseInv, SeqInv
<1>5. PostInv'
  BY <1>1 DEF PostInv, BaseInv
<1>6. ToolRow(row)' /\ ToolRow(post)'
  BY <1>1 DEF ToolRow, BaseInv, ClearStep
<1>7. QED
  BY <1>2, <1>4, <1>5, <1>6 DEF BaseInv

\* The outcome of an undone write arrives
RollbackStep(p) ==
    /\ p \in pending /\ ~Unsettled(p) /\ ~Landed(p) /\ pending' = pending \ {p}
    /\ reordered' = (reordered \/ \E q \in pending : q.seq < p.seq)
    /\ UNCHANGED <<row, post, sequence, published, placement, tools, results, auth, observer, replica,
                   setting>>

\* It is such a step and keeps the base invariant
LEMMA BaseRollback ==
    ASSUME BaseInv, Rollback
    PROVE  BaseInv' /\ \E p : RollbackStep(p)
<1>1. PICK p : RollbackStep(p)
  BY DEF Rollback, RollbackStep, Arrives, Unsettled, Landed
<1>2. BaseInv'
  BY <1>1 DEF RollbackStep, BaseInv, TypeInv, SeqInv, PostInv, Describes, ToolRow
<1>3. QED
  BY <1>1, <1>2

\* The life of a prepared authority: a becomes n
AuthStep(a, n) ==
    /\ auth' = [auth EXCEPT ![a] = n]
    /\ n \in AuthRec
    /\ UNCHANGED <<row, post, sequence, pending, published, placement, tools, results,
                   observer, replica, setting, reordered>>
    /\ \/ /\ n.phase = "reading" /\ n.created = published /\ n.facts = {} /\ n.snapshot = {}
          /\ n.claim \in Claims
       \/ /\ auth[a].phase = "reading" /\ n.phase = "read" /\ n.snapshot = {row.claim}
          /\ n.claim = auth[a].claim /\ n.created = auth[a].created
          /\ n.facts = auth[a].facts /\ n.revoked = auth[a].revoked
       \/ /\ auth[a].phase = "read" /\ n.phase = "live" /\ n.facts = {auth[a].claim}
          /\ n.claim = auth[a].claim /\ n.created = auth[a].created
          /\ n.facts \in {auth[a].facts, auth[a].snapshot}
          /\ n.snapshot = {} /\ n.revoked = auth[a].revoked /\ ~auth[a].revoked
          /\ n.since = row.incarnation /\ NoFence(a)
       \/ n.phase = "free" /\ n.created = 0

\* The steps of authorities are such steps
LEMMA AuthoritySteps ==
    ASSUME TypeInv, NEW a \in Authorities,
           (\E c \in Claims : Prepare(a, c)) \/ ReadRow(a) \/ Return(a) \/ Release(a)
    PROVE  \E n : AuthStep(a, n)
<1>1. auth[a] \in AuthRec /\ row \in Rows /\ published \in 0 .. MaxChanges
  BY AuthorityAssumption DEF TypeInv
<1>2. FreeAuth \in AuthRec /\ FreeAuth.phase = "free" /\ FreeAuth.created = 0
        /\ FreeAuth.facts = {} /\ FreeAuth.snapshot = {}
  BY AuthorityAssumption DEF FreeAuth, AuthRec, MaybeClaims
<1>3. ASSUME NEW c \in Claims, Prepare(a, c) PROVE \E n : AuthStep(a, n)
  <2>1. PICK f : f = FreeAuth
    OBVIOUS
  <2>2. PICK n : n = [f EXCEPT !.phase = "reading", !.claim = c, !.created = published,
                               !.pub = published]
    OBVIOUS
  <2>3. n \in AuthRec /\ n.phase = "reading" /\ n.claim = c /\ n.created = published
          /\ n.facts = {} /\ n.snapshot = {}
    BY <1>1, <1>2, <2>1, <2>2 DEF AuthRec, MaybeClaims
  <2>4. auth' = [auth EXCEPT ![a] = n]
    BY <1>3, <2>1, <2>2 DEF Prepare
  <2>5. AuthStep(a, n)
    BY <1>3, <2>3, <2>4 DEF AuthStep, Prepare
  <2>6. QED
    BY <2>5
<1>4. CASE ReadRow(a)
  <2>1. PICK o : o = auth[a]
    OBVIOUS
  <2>2. PICK n : n = [o EXCEPT !.phase = "read", !.snapshot = {row.claim}]
    OBVIOUS
  <2>3. /\ n \in AuthRec /\ n.phase = "read" /\ n.claim = o.claim /\ n.created = o.created
        /\ n.facts = o.facts /\ n.snapshot = {row.claim} /\ n.revoked = o.revoked
    BY <1>1, <2>1, <2>2 DEF AuthRec, Rows
  <2>4. auth' = [auth EXCEPT ![a] = n]
    BY <1>1, <1>4, <2>1, <2>2 DEF ReadRow, TypeInv, AuthRec
  <2>5. AuthStep(a, n)
    BY <1>4, <2>1, <2>3, <2>4 DEF AuthStep, ReadRow
  <2>6. QED
    BY <2>5
<1>5. CASE Return(a)
  <2>1. PICK facts : facts = IF auth[a].facts = {} THEN auth[a].snapshot ELSE auth[a].facts
    OBVIOUS
  <2>2. CASE Current(a, facts)
    <3>1. PICK o : o = auth[a]
      OBVIOUS
    <3>2. PICK n : n = [o EXCEPT !.phase = "live", !.facts = facts, !.snapshot = {},
                                 !.since = row.incarnation]
      OBVIOUS
    <3>3. /\ n \in AuthRec /\ n.phase = "live" /\ n.claim = o.claim /\ n.created = o.created
          /\ n.facts = facts /\ n.snapshot = {} /\ n.revoked = o.revoked
          /\ n.since = row.incarnation
      BY <1>1, <2>1, <3>1, <3>2 DEF AuthRec, Rows
    <3>4. auth' = [auth EXCEPT ![a] = n]
      BY <1>5, <2>1, <2>2, <3>1, <3>2 DEF Return
    <3>5. AuthStep(a, n)
      BY <1>5, <2>1, <2>2, <3>1, <3>3, <3>4 DEF AuthStep, Return, Current
    <3>6. QED
      BY <3>5
  <2>3. CASE ~Current(a, facts)
    <3>1. auth' = [auth EXCEPT ![a] = FreeAuth]
      BY <1>5, <2>1, <2>3 DEF Return
    <3>2. AuthStep(a, FreeAuth)
      BY <1>2, <1>5, <3>1 DEF AuthStep, Return
    <3>3. QED
      BY <3>2
  <2>4. QED
    BY <2>2, <2>3
<1>6. CASE Release(a)
  <2>1. AuthStep(a, FreeAuth)
    BY <1>2, <1>6 DEF AuthStep, Release
  <2>2. QED
    BY <2>1
<1>7. QED
  BY <1>3, <1>4, <1>5, <1>6

\* They keep the base invariant
LEMMA BaseAuth ==
    ASSUME BaseInv, NEW a \in Authorities, NEW n, AuthStep(a, n)
    PROVE  BaseInv'
<1>1. /\ auth' = [auth EXCEPT ![a] = n] /\ n \in AuthRec
      /\ UNCHANGED <<row, post, sequence, pending, published, placement, tools, results,
                     observer, replica, setting, reordered>>
  BY DEF AuthStep
<1>2. TypeInv'
  BY <1>1 DEF BaseInv, TypeInv
<1>3. /\ n.created <= sequence
      /\ \A p \in pending : Unsettled(p) => n.created < p.seq
  <2>1. n.created \in {published, auth[a].created, 0}
    BY DEF AuthStep
  <2>2. published <= sequence /\ 0 <= sequence /\ \A p \in pending : 0 < p.seq
    BY DEF BaseInv, TypeInv, Changes
  <2>3. QED
    BY <2>1, <2>2 DEF BaseInv, SeqInv
<1>4. SeqInv'
  <2>1. \A b \in Authorities : auth'[b] = IF b = a THEN n ELSE auth[b]
    BY <1>1 DEF BaseInv, TypeInv
  <2>2. QED
    BY <1>1, <1>3, <2>1 DEF BaseInv, SeqInv
<1>5. QED
  BY <1>1, <1>2, <1>4 DEF BaseInv, PostInv, Describes, ToolRow

\* The observer of the workspace result: it keeps the base invariant
LEMMA BaseObserver ==
    ASSUME BaseInv, (\E c \in Claims : Observe(c)) \/ ObserverReads \/ ObserverReturns
    PROVE  /\ BaseInv'
           /\ UNCHANGED <<row, post, sequence, pending, published, placement, tools, auth,
                          replica, setting, reordered>>
<1>1. UNCHANGED <<row, post, sequence, pending, published, placement, tools, auth, replica,
                  setting, reordered>>
  BY DEF Observe, ObserverReads, ObserverReturns
<1>2. NoObserver \in ObserverRec /\ NoObserver.snapshot = {}
  BY AuthorityAssumption DEF NoObserver, ObserverRec, MaybeClaims
<1>3. observer' \in ObserverRec /\ \A x, y \in observer'.snapshot : x = y
  <2>1. ASSUME NEW c \in Claims, Observe(c)
        PROVE  observer' \in ObserverRec /\ observer'.snapshot = {}
    <3>1. PICK o : o = NoObserver
      OBVIOUS
    <3>2. observer' = [o EXCEPT !.phase = "reading", !.claim = c, !.published = published]
      BY <2>1, <3>1 DEF Observe
    <3>3. published \in 0 .. MaxChanges /\ c \in MaybeClaims
      BY AuthorityAssumption DEF BaseInv, TypeInv, MaybeClaims
    <3>4. QED
      BY <1>2, <3>1, <3>2, <3>3 DEF ObserverRec
  <2>2. CASE ObserverReads
    <3>1. PICK s : s = {[claim |-> row.claim, result |-> row.result]}
      OBVIOUS
    <3>2. s \subseteq ResultFacts /\ \A x, y \in s : x = y
      BY <3>1 DEF BaseInv, TypeInv, Rows, ResultFacts
    <3>3. observer' = [observer EXCEPT !.phase = "read", !.snapshot = s]
      BY <2>2, <3>1 DEF ObserverReads
    <3>4. QED
      BY <3>2, <3>3 DEF BaseInv, TypeInv, ObserverRec
  <2>3. CASE ObserverReturns
    BY <1>2, <2>3 DEF ObserverReturns
  <2>4. QED
    BY <2>1, <2>2, <2>3
<1>4. results' \subseteq ResultFacts /\ \A x, y \in results' : x = y
  <2>1. results' = results \/ results' \subseteq observer.snapshot
    BY DEF Observe, ObserverReads, ObserverReturns
  <2>2. QED
    BY <2>1 DEF BaseInv, TypeInv, ObserverRec
<1>5. TypeInv'
  BY <1>1, <1>3, <1>4 DEF BaseInv, TypeInv
<1>6. QED
  BY <1>1, <1>5 DEF BaseInv, SeqInv, PostInv, Describes, ToolRow

\* A read that fills the replica touches nothing but the placement
ReplicaStep ==
    /\ CaptureReplica \/ ReplicaReads \/ ReplicaReturns
    /\ UNCHANGED <<row, post, sequence, pending, published, tools, results, auth, observer,
                   setting, reordered>>

\* It keeps the base invariant
LEMMA BaseReplica ==
    ASSUME BaseInv, CaptureReplica \/ ReplicaReads \/ ReplicaReturns
    PROVE  BaseInv' /\ ReplicaStep
<1>1. ReplicaStep
  BY DEF ReplicaStep, CaptureReplica, ReplicaReads, ReplicaReturns
<1>2. sequence \in Nat /\ sequence \in 0 .. sequence /\ row.claim \in MaybeClaims
  BY AuthorityAssumption DEF BaseInv, TypeInv, Rows
<1>3. NoReplica \in ReplicaRec(sequence)
  BY <1>2 DEF NoReplica, ReplicaRec, MaybeClaims
<1>4. /\ replica' \in ReplicaRec(sequence) /\ placement' \subseteq PlacementRec(sequence)
      /\ \A x, y \in placement' : x = y
  <2>1. CASE CaptureReplica
    <3>1. PICK o : o = NoReplica
      OBVIOUS
    <3>2. replica' = [o EXCEPT !.phase = "reading", !.seq = sequence]
      BY <2>1, <3>1 DEF CaptureReplica
    <3>3. replica' \in ReplicaRec(sequence)
      BY <1>2, <1>3, <3>1, <3>2 DEF ReplicaRec
    <3>4. QED
      BY <2>1, <3>3 DEF CaptureReplica, BaseInv, TypeInv
  <2>2. CASE ReplicaReads
    <3>1. PICK u \in BOOLEAN : u = \A p \in pending : p.write = "open" => p.seq > replica.seq
      OBVIOUS
    <3>2. replica' = [replica EXCEPT !.phase = "read", !.snapshot = row.claim, !.calm = u]
      BY <2>2, <3>1 DEF ReplicaReads
    <3>3. replica' \in ReplicaRec(sequence)
      BY <1>2, <3>2 DEF ReplicaRec, BaseInv, TypeInv
    <3>4. QED
      BY <2>2, <3>3 DEF ReplicaReads, BaseInv, TypeInv
  <2>3. CASE ReplicaReturns
    <3>1. PICK n : n = [seq |-> replica.seq, claim |-> replica.snapshot, exact |-> replica.calm]
      OBVIOUS
    <3>2. n \in PlacementRec(sequence)
      BY <3>1 DEF BaseInv, TypeInv, ReplicaRec, PlacementRec
    <3>3. placement' \in {placement, {n}}
      BY <2>3, <3>1 DEF ReplicaReturns
    <3>4. QED
      BY <1>3, <2>3, <3>2, <3>3 DEF ReplicaReturns, BaseInv, TypeInv
  <2>4. QED
    BY <2>1, <2>2, <2>3
<1>5. BaseInv'
  BY <1>1, <1>4 DEF ReplicaStep, BaseInv, TypeInv, SeqInv, PostInv, Describes, ToolRow
<1>6. QED
  BY <1>1, <1>5

-----------------------------------------------------------------------------
(* Every step is of one of these classes.                                  *)

\* What the observer's steps leave alone
ObserverStep ==
    /\ (\E c \in Claims : Observe(c)) \/ ObserverReads \/ ObserverReturns
    /\ UNCHANGED <<row, post, sequence, pending, published, placement, tools, auth, replica,
                   setting, reordered>>

Classified ==
    \/ \E r, ch : StageStep(r, ch)
    \/ \E p, q : LandStep(p, q)
    \/ \E p, q : UndoStep(p, q)
    \/ \E p, ch : OutcomeStep(p, ch)
    \/ \E p : RollbackStep(p)
    \/ \E ch : ClearStep(ch)
    \/ \E a \in Authorities : \E n : AuthStep(a, n)
    \/ ObserverStep
    \/ ReplicaStep

\* Every step keeps the base invariant and belongs to a class
LEMMA BaseNext ==
    ASSUME BaseInv, Next
    PROVE  BaseInv' /\ Classified
<1>1. ASSUME NEW c \in Claims, Write(c) PROVE BaseInv' /\ Classified
  BY <1>1, WriteStages, BaseStage DEF Classified
<1>2. CASE Land
  <2>1. \E p, q : LandStep(p, q)
    BY <1>2, LandSwaps DEF BaseInv
  <2>2. QED
    BY <2>1, BaseSwap DEF Classified
<1>3. CASE Undo
  <2>1. \E p, q : UndoStep(p, q)
    BY <1>3, UndoSwaps DEF BaseInv
  <2>2. QED
    BY <2>1, BaseSwap DEF Classified
<1>4. CASE Commit \/ Invalidate
  <2>1. \E p, ch : OutcomeStep(p, ch)
    BY <1>4, OutcomesPublish DEF BaseInv
  <2>2. QED
    BY <2>1, BaseOutcome DEF Classified
<1>5. CASE Rollback
  BY <1>5, BaseRollback DEF Classified
<1>6. CASE ClearLocalTurnClaims
  <2>1. \E ch : ClearStep(ch)
    BY <1>6, ClearPublishes DEF BaseInv
  <2>2. QED
    BY <2>1, BaseClear DEF Classified
<1>7. ASSUME NEW a \in Authorities,
             (\E c \in Claims : Prepare(a, c)) \/ ReadRow(a) \/ Return(a) \/ Release(a)
      PROVE  BaseInv' /\ Classified
  <2>1. \E n : AuthStep(a, n)
    BY <1>7, AuthoritySteps DEF BaseInv
  <2>2. QED
    BY <2>1, BaseAuth DEF Classified
<1>8. CASE (\E c \in Claims : Observe(c)) \/ ObserverReads \/ ObserverReturns
  BY <1>8, BaseObserver DEF Classified, ObserverStep
<1>9. CASE CaptureReplica \/ ReplicaReads \/ ReplicaReturns
  BY <1>9, BaseReplica DEF Classified
<1>10. QED
  BY <1>1, <1>2, <1>3, <1>4, <1>5, <1>6, <1>7, <1>8, <1>9 DEF Next

\* It holds initially
LEMMA BaseInit ==
    ASSUME Init
    PROVE  BaseInv
<1> USE AuthorityAssumption
<1>1. NoClaim \in MaybeClaims /\ 0 \in 0 .. MaxChanges
  BY DEF MaybeClaims
<1>2. row \in Rows /\ post \in Rows /\ row.incarnation = 0 /\ row.tools = NoClaim
  BY <1>1 DEF Init, Rows
<1>3. FreeAuth \in AuthRec /\ FreeAuth.created = 0
  BY <1>1 DEF FreeAuth, AuthRec
<1>4. NoObserver \in ObserverRec /\ NoObserver.snapshot = {}
  BY <1>1 DEF NoObserver, ObserverRec
<1>5. TypeInv
  <2>1. sequence \in 0 .. MaxChanges /\ published \in 0 .. sequence
    BY <1>1 DEF Init
  <2>2. tools \in [seq : 0 .. sequence, claim : MaybeClaims]
    BY <1>1 DEF Init
  <2>3. auth \in [Authorities -> AuthRec]
    BY <1>3 DEF Init
  <2>4. replica \in ReplicaRec(sequence)
    BY <1>1 DEF Init, NoReplica, ReplicaRec
  <2>5. QED
    BY <1>2, <1>4, <2>1, <2>2, <2>3, <2>4 DEF Init, TypeInv
<1>6. SeqInv
  BY <1>2, <1>3 DEF Init, SeqInv
<1>7. QED
  BY <1>2, <1>5, <1>6 DEF BaseInv, PostInv, ToolRow, Init

\* A stuttering step keeps it
LEMMA BaseStutter ==
    ASSUME BaseInv, UNCHANGED vars
    PROVE  BaseInv'
BY DEF vars, BaseInv, TypeInv, SeqInv, PostInv, Describes, ToolRow

\* It implies the type invariant of the specification
LEMMA BaseTypes ==
    ASSUME BaseInv
    PROVE  TypeOK
<1>1. ASSUME NEW S, \A x, y \in S : x = y PROVE Cardinality(S) <= 1
  <2>1. CASE S = {}
    BY <2>1, FS_EmptySet
  <2>2. CASE S # {}
    <3>1. PICK x : x \in S
      BY <2>2
    <3>2. S = {x}
      BY <1>1, <3>1
    <3>3. Cardinality({x}) = 1
      BY FS_Singleton
    <3>4. QED
      BY <3>2, <3>3
  <2>3. QED
    BY <2>1, <2>2
<1>2. Cardinality(results) <= 1
  BY <1>1 DEF BaseInv, TypeInv
<1>3. Cardinality({p \in pending : p.write = "open"}) <= 1
  <2>1. \A x, y \in {p \in pending : p.write = "open"} : x = y
    BY DEF BaseInv, SeqInv, Unsettled
  <2>2. QED
    BY <1>1, <2>1
<1>4. /\ \A p \in placement : p.seq \in 0 .. sequence /\ p.claim \in MaybeClaims
                               /\ p.exact \in BOOLEAN
      /\ tools.seq \in 0 .. sequence /\ tools.claim \in MaybeClaims
      /\ replica.seq \in 0 .. sequence /\ replica.calm \in BOOLEAN
      /\ replica.phase \in {"free", "reading", "read"} /\ replica.snapshot \in MaybeClaims
  BY DEF BaseInv, TypeInv, ReplicaRec, PlacementRec
<1>5. QED
  BY <1>2, <1>3, <1>4 DEF BaseInv, TypeInv, SeqInv, TypeOK

-----------------------------------------------------------------------------
(* Prepared authorities.                                                   *)

\* The newest landed claim among the unpublished changes is the row's
LatestInv ==
    \A p \in pending : Landed(p) /\ p.kind = "claim" /\ p.seq > published =>
        row.claim = p.claim \/ Taken(p.claim, p.seq)

\* The authority has seen its claim, or will see it
Claimed(a) ==
    \/ auth[a].facts = {auth[a].claim}
    \/ auth[a].snapshot = {auth[a].claim}
    \/ \E p \in pending : /\ Landed(p) /\ p.kind = "claim" /\ p.seq > auth[a].created
                          /\ p.claim = auth[a].claim

\* The claim is the row's, unless a pending change has taken it
Held(a) == row.claim = auth[a].claim \/ Taken(auth[a].claim, auth[a].created)
SameHeld(a) == \/ row.claim = auth[a].claim /\ row.incarnation = auth[a].since
               \/ Taken(auth[a].claim, auth[a].created)

AuthInv ==
    \A a \in Authorities : auth[a].phase # "free" =>
        /\ auth[a].claim \in Claims
        /\ ~auth[a].revoked /\ Claimed(a) => Held(a)
        /\ ~auth[a].revoked /\ auth[a].phase = "live" =>
             auth[a].facts = {auth[a].claim} /\ SameHeld(a)

ClaimInv == LatestInv /\ AuthInv

\* A landing keeps it: what it takes away it takes as a pending change
LEMMA ClaimLand ==
    ASSUME BaseInv, ClaimInv, NEW p, NEW q, LandStep(p, q)
    PROVE  ClaimInv'
<1> USE DEF Landed, Unsettled
<1>1. /\ p \in pending /\ Unsettled(p) /\ Landed(q) /\ q.seq = p.seq /\ q.kind = p.kind
      /\ q.claim = p.claim /\ pending' = (pending \ {p}) \cup {q} /\ row' = post
      /\ auth' = auth /\ published' = published
  BY DEF LandStep, SwapStep
<1>2. Describes(p, post)
  BY <1>1 DEF BaseInv, PostInv
<1>3. /\ q.seq = sequence /\ q.seq \in Nat /\ published < q.seq
      /\ \A a \in Authorities : auth[a].created < q.seq /\ auth[a].created \in Nat
      /\ \A x \in pending : x # p => x.seq < q.seq /\ x.seq \in Nat
  BY <1>1 DEF BaseInv, SeqInv, TypeInv, AuthRec, Changes
<1>4. ASSUME NEW c, NEW s, Taken(c, s) PROVE Taken(c, s)'
  BY <1>1, <1>4 DEF Taken
<1>5. ASSUME NEW c, NEW s, row.claim = c, s < q.seq PROVE row'.claim = c \/ Taken(c, s)'
  <2>1. p.kind # "claim" => row'.claim = row.claim
    BY <1>1, <1>2 DEF Describes
  <2>2. p.kind = "claim" => q.claim = row'.claim
    BY <1>1, <1>2 DEF Describes
  <2>3. QED
    BY <1>1, <1>5, <2>1, <2>2 DEF Taken
<1>6. LatestInv'
  <2> SUFFICES ASSUME NEW x \in pending', Landed(x), x.kind = "claim", x.seq > published
               PROVE  row'.claim = x.claim \/ Taken(x.claim, x.seq)'
    BY <1>1 DEF LatestInv
  <2>1. CASE x = q
    BY <1>1, <1>2, <2>1 DEF Describes
  <2>2. CASE x # q
    <3>1. x \in pending /\ x # p
      BY <1>1, <2>2
    <3>2. row.claim = x.claim \/ Taken(x.claim, x.seq)
      BY <3>1 DEF ClaimInv, LatestInv
    <3>3. QED
      BY <1>3, <1>4, <1>5, <3>1, <3>2
  <2>3. QED
    BY <2>1, <2>2
<1>7. ASSUME NEW a \in Authorities, auth[a].phase # "free"
      PROVE  /\ auth[a].claim \in Claims
             /\ ~auth[a].revoked /\ Claimed(a)' => Held(a)'
             /\ ~auth[a].revoked /\ auth[a].phase = "live" =>
                  auth[a].facts = {auth[a].claim} /\ SameHeld(a)'
  <2>1. auth[a].claim \in Claims /\ auth[a].claim # NoClaim
    BY <1>7, AuthorityAssumption DEF ClaimInv, AuthInv
  <2>2. ASSUME ~auth[a].revoked, Claimed(a)' PROVE Held(a)'
    <3>1. CASE Claimed(a)
      BY <1>1, <1>3, <1>4, <1>5, <1>7, <2>2, <3>1 DEF ClaimInv, AuthInv, Held
    <3>2. CASE ~Claimed(a)
      <4>1. q.kind = "claim" /\ q.claim = auth[a].claim
        BY <1>1, <2>2, <3>2 DEF Claimed
      <4>2. QED
        BY <1>1, <1>2, <4>1 DEF Held, Describes
    <3>3. QED
      BY <3>1, <3>2
  <2>3. ASSUME ~auth[a].revoked, auth[a].phase = "live"
        PROVE  auth[a].facts = {auth[a].claim} /\ SameHeld(a)'
    <3>1. auth[a].facts = {auth[a].claim} /\ SameHeld(a)
      BY <1>7, <2>3 DEF ClaimInv, AuthInv
    <3>2. CASE Taken(auth[a].claim, auth[a].created)
      BY <1>1, <1>4, <3>1, <3>2 DEF SameHeld
    <3>3. CASE row.claim = auth[a].claim /\ row.incarnation = auth[a].since
      <4>1. row'.claim = auth[a].claim => row'.incarnation = auth[a].since
        BY <1>1, <1>2, <2>1, <3>3 DEF Describes
      <4>2. row'.claim = auth[a].claim \/ Taken(auth[a].claim, auth[a].created)'
        BY <1>1, <1>3, <1>5, <3>3
      <4>3. QED
        BY <1>1, <3>1, <4>1, <4>2 DEF SameHeld
    <3>4. QED
      BY <3>1, <3>2, <3>3 DEF SameHeld
  <2>4. QED
    BY <2>1, <2>2, <2>3
<1>8. AuthInv'
  BY <1>1, <1>7 DEF AuthInv
<1>9. QED
  BY <1>6, <1>8 DEF ClaimInv

\* An outcome keeps it: a change that took the claim revokes the authority
LEMMA ClaimOutcome ==
    ASSUME BaseInv, ClaimInv, NEW p, NEW ch, OutcomeStep(p, ch)
    PROVE  ClaimInv'
<1> USE DEF Landed
<1>1. /\ p \in pending /\ ch \in Changes /\ ch.seq = p.seq /\ ch.kind = p.kind
      /\ pending' = pending \ {p} /\ row' = row
      /\ \A a \in Authorities : auth'[a] = Retained(a, ch)
      /\ published' = IF ch.kind # "tools" /\ ch.seq > published THEN ch.seq ELSE published
  BY DEF OutcomeStep, Published, CommitChange
<1>2. ch.kind = "claim" /\ ch.known => Landed(p) /\ ch = p
  BY DEF OutcomeStep, Published
<1>3. published \in Nat /\ \A x \in pending : x.seq \in Nat
  BY DEF BaseInv, TypeInv, Changes
<1>4. LatestInv'
  <2> SUFFICES ASSUME NEW x \in pending', Landed(x), x.kind = "claim", x.seq > published'
               PROVE  row'.claim = x.claim \/ Taken(x.claim, x.seq)'
    BY DEF LatestInv
  <2>1. x \in pending /\ x.seq > published
    BY <1>1, <1>3
  <2>2. row.claim = x.claim \/ Taken(x.claim, x.seq)
    BY <2>1 DEF ClaimInv, LatestInv
  <2>3. ASSUME p.kind = "claim" PROVE ~(p.seq > x.seq)
    BY <1>1, <1>3, <2>1, <2>3
  <2>4. QED
    BY <1>1, <2>2, <2>3 DEF Taken
<1>5. ASSUME NEW a \in Authorities, auth[a].phase # "free", ~auth'[a].revoked
      PROVE  /\ ~auth[a].revoked
             /\ Taken(auth[a].claim, auth[a].created) => Taken(auth[a].claim, auth[a].created)'
             /\ Claimed(a)' => Claimed(a)
             /\ auth[a].facts = {auth[a].claim} => auth'[a].facts = {auth[a].claim}
  <2>1. PICK n : n = Retained(a, ch)
    OBVIOUS
  <2>2. /\ n.phase = auth[a].phase /\ n.claim = auth[a].claim
        /\ n.created = auth[a].created /\ n.snapshot = auth[a].snapshot
        /\ ch.kind # "claim" \/ ch.seq <= auth[a].created => n = auth[a]
        /\ ch.kind = "claim" /\ ch.seq > auth[a].created =>
             /\ n.revoked = (auth[a].revoked \/ ~Allows(ch, auth[a].claim))
             /\ n.facts = auth[a].facts \/ (ch.known /\ n.facts = {ch.claim}) \/ ~ch.known
    BY <1>1, <1>5, <2>1, RetainedFields DEF BaseInv
  <2>3. n = auth'[a] /\ ~n.revoked /\ ch.seq \in Nat /\ auth[a].created \in Nat
    BY <1>1, <1>3, <1>5, <2>1 DEF BaseInv, TypeInv, AuthRec
  <2>4. CASE ch.kind # "claim" \/ ch.seq <= auth[a].created
    <3>1. n = auth[a] /\ ~(p.kind = "claim" /\ p.seq > auth[a].created)
      BY <1>1, <2>2, <2>3, <2>4
    <3>2. QED
      BY <1>1, <2>3, <3>1 DEF Taken, Claimed
  <2>5. CASE ch.kind = "claim" /\ ch.seq > auth[a].created
    <3>1. /\ ~auth[a].revoked /\ ch.known /\ ch.claim = auth[a].claim
          /\ n.facts = auth[a].facts \/ n.facts = {auth[a].claim}
      BY <2>2, <2>3, <2>5 DEF Allows
    <3>2. Landed(p) /\ p.claim = auth[a].claim
      BY <1>2, <2>5, <3>1
    <3>3. Claimed(a)
      BY <1>1, <2>5, <3>2 DEF Claimed
    <3>4. QED
      BY <1>1, <2>2, <2>3, <3>1, <3>2, <3>3 DEF Taken
  <2>6. QED
    BY <2>3, <2>4, <2>5
<1>6. AuthInv'
  <2> SUFFICES ASSUME NEW a \in Authorities, auth'[a].phase # "free"
               PROVE  /\ auth'[a].claim \in Claims
                      /\ ~auth'[a].revoked /\ Claimed(a)' => Held(a)'
                      /\ ~auth'[a].revoked /\ auth'[a].phase = "live" =>
                           auth'[a].facts = {auth'[a].claim} /\ SameHeld(a)'
    BY DEF AuthInv
  <2>1. /\ auth'[a].phase = auth[a].phase /\ auth'[a].claim = auth[a].claim
        /\ auth'[a].created = auth[a].created /\ auth'[a].since = auth[a].since
    BY <1>1, RetainedFields DEF BaseInv
  <2>2. auth[a].phase # "free" /\ auth[a].claim \in Claims
    BY <2>1 DEF ClaimInv, AuthInv
  <2>3. ASSUME ~auth'[a].revoked, Claimed(a)' PROVE Held(a)'
    <3>1. Held(a)
      BY <1>5, <2>2, <2>3 DEF ClaimInv, AuthInv
    <3>2. QED
      BY <1>1, <1>5, <2>1, <2>2, <2>3, <3>1 DEF Held
  <2>4. ASSUME ~auth'[a].revoked, auth'[a].phase = "live"
        PROVE  auth'[a].facts = {auth'[a].claim} /\ SameHeld(a)'
    <3>1. auth[a].facts = {auth[a].claim} /\ SameHeld(a)
      BY <1>5, <2>1, <2>2, <2>4 DEF ClaimInv, AuthInv
    <3>2. QED
      BY <1>1, <1>5, <2>1, <2>2, <2>4, <3>1 DEF SameHeld
  <2>5. QED
    BY <2>1, <2>2, <2>3, <2>4
<1>7. QED
  BY <1>4, <1>6 DEF ClaimInv

\* Clearing the local claims revokes every authority
LEMMA ClaimClear ==
    ASSUME BaseInv, ClaimInv, NEW ch, ClearStep(ch)
    PROVE  ClaimInv'
<1>1. /\ ch \in Changes /\ ch.seq = sequence + 1 /\ ch.kind = "claim" /\ ch.claim = NoClaim
      /\ pending' = pending /\ published' = IF ch.seq > published THEN ch.seq ELSE published
      /\ \A a \in Authorities : auth'[a] = Retained(a, ch)
  BY DEF ClearStep, CommitChange
<1>2. /\ sequence \in Nat /\ published \in 0 .. sequence
      /\ \A x \in pending : x.seq \in Nat /\ x.seq <= sequence
      /\ \A a \in Authorities : auth[a].created \in Nat /\ auth[a].created <= sequence
  BY DEF BaseInv, TypeInv, SeqInv, Changes, AuthRec
<1>3. \A x \in pending' : ~(x.seq > published')
  BY <1>1, <1>2
<1>4. LatestInv'
  BY <1>3 DEF LatestInv
<1>5. ASSUME NEW a \in Authorities, auth'[a].phase # "free"
      PROVE  auth'[a].claim \in Claims /\ auth'[a].revoked
  <2>1. PICK n : n = Retained(a, ch)
    OBVIOUS
  <2>2. n = auth'[a] /\ ch.seq > auth[a].created
    BY <1>1, <1>2, <2>1
  <2>3. n.phase = auth[a].phase /\ n.claim = auth[a].claim
    BY <1>1, <2>1, RetainedFields DEF BaseInv
  <2>4. auth[a].claim \in Claims
    BY <1>5, <2>2, <2>3 DEF ClaimInv, AuthInv
  <2>5. n.revoked = (auth[a].revoked \/ ~Allows(ch, auth[a].claim))
    BY <1>1, <1>5, <2>1, <2>2, <2>3, RetainedFields DEF BaseInv
  <2>6. ~Allows(ch, auth[a].claim)
    BY <1>1, <2>4, AuthorityAssumption DEF Allows
  <2>7. QED
    BY <2>2, <2>3, <2>4, <2>5, <2>6
<1>6. AuthInv'
  BY <1>5 DEF AuthInv
<1>7. QED
  BY <1>4, <1>6 DEF ClaimInv

\* An authority becomes live only if no pending change fences it
LEMMA ClaimAuth ==
    ASSUME BaseInv, ClaimInv, NEW a \in Authorities, NEW n, AuthStep(a, n)
    PROVE  ClaimInv'
<1>1. /\ \A b \in Authorities : auth'[b] = IF b = a THEN n ELSE auth[b]
      /\ row' = row /\ pending' = pending /\ published' = published
  BY DEF AuthStep, BaseInv, TypeInv
<1>2. LatestInv'
  BY <1>1 DEF ClaimInv, LatestInv, Taken
<1>3. ASSUME NEW b \in Authorities, b # a, auth'[b].phase # "free"
      PROVE  /\ auth'[b].claim \in Claims
             /\ ~auth'[b].revoked /\ Claimed(b)' => Held(b)'
             /\ ~auth'[b].revoked /\ auth'[b].phase = "live" =>
                  auth'[b].facts = {auth'[b].claim} /\ SameHeld(b)'
  BY <1>1, <1>3 DEF ClaimInv, AuthInv, Claimed, Held, SameHeld, Taken
<1>4. ASSUME n.phase # "free"
      PROVE  /\ n.claim \in Claims
             /\ ~n.revoked /\ Claimed(a)' => Held(a)'
             /\ ~n.revoked /\ n.phase = "live" => n.facts = {n.claim} /\ SameHeld(a)'
  <2>1. CASE n.phase = "reading"
    <3>1. n.created = published /\ n.facts = {} /\ n.snapshot = {} /\ n.claim \in Claims
      BY <2>1 DEF AuthStep
    <3>2. ASSUME Claimed(a)' PROVE Held(a)'
      <4>1. PICK p \in pending : /\ Landed(p) /\ p.kind = "claim" /\ p.seq > published
                                 /\ p.claim = n.claim
        BY <1>1, <3>1, <3>2 DEF Claimed
      <4>2. row.claim = p.claim \/ Taken(p.claim, p.seq)
        BY <4>1 DEF ClaimInv, LatestInv
      <4>3. published \in Nat /\ \A x \in pending : x.seq \in Nat
        BY DEF BaseInv, TypeInv, Changes
      <4>4. Taken(p.claim, p.seq) => Taken(p.claim, published)
        BY <4>1, <4>3 DEF Taken
      <4>5. QED
        BY <1>1, <3>1, <4>1, <4>2, <4>4 DEF Held, Taken
    <3>3. QED
      BY <2>1, <3>1, <3>2
  <2>2. CASE n.phase = "read"
    <3>1. /\ auth[a].phase # "free" /\ n.snapshot = {row.claim}
          /\ n.claim = auth[a].claim /\ n.created = auth[a].created
          /\ n.facts = auth[a].facts /\ n.revoked = auth[a].revoked
      BY <2>2 DEF AuthStep
    <3>2. ASSUME ~n.revoked, Claimed(a)' PROVE Held(a)'
      <4>1. CASE row.claim = n.claim
        BY <1>1, <4>1 DEF Held
      <4>2. CASE row.claim # n.claim
        <5>1. Claimed(a)
          BY <1>1, <3>1, <3>2, <4>2 DEF Claimed
        <5>2. Held(a)
          BY <3>1, <3>2, <5>1 DEF ClaimInv, AuthInv
        <5>3. QED
          BY <1>1, <3>1, <5>2 DEF Held, Taken
      <4>3. QED
        BY <4>1, <4>2
    <3>3. QED
      BY <2>2, <3>1, <3>2 DEF ClaimInv, AuthInv
  <2>3. CASE n.phase = "live"
    <3>1. /\ auth[a].phase # "free" /\ n.facts = {auth[a].claim}
          /\ n.claim = auth[a].claim /\ n.created = auth[a].created
          /\ n.facts \in {auth[a].facts, auth[a].snapshot} /\ ~auth[a].revoked
          /\ n.since = row.incarnation /\ NoFence(a)
      BY <2>3 DEF AuthStep
    <3>2. Held(a)
      BY <3>1 DEF ClaimInv, AuthInv, Claimed
    <3>3. ~Taken(auth[a].claim, auth[a].created)
      BY <3>1 DEF NoFence, Taken, Allows
    <3>4. row.claim = n.claim
      BY <3>1, <3>2, <3>3 DEF Held
    <3>5. n.claim \in Claims
      BY <3>1 DEF ClaimInv, AuthInv
    <3>6. QED
      BY <1>1, <3>1, <3>4, <3>5 DEF Held, SameHeld
  <2>4. n.phase \in {"free", "reading", "read", "live"}
    BY DEF AuthStep, AuthRec
  <2>5. QED
    BY <1>4, <2>1, <2>2, <2>3, <2>4
<1>5. AuthInv'
  <2> SUFFICES ASSUME NEW b \in Authorities, auth'[b].phase # "free"
               PROVE  /\ auth'[b].claim \in Claims
                      /\ ~auth'[b].revoked /\ Claimed(b)' => Held(b)'
                      /\ ~auth'[b].revoked /\ auth'[b].phase = "live" =>
                           auth'[b].facts = {auth'[b].claim} /\ SameHeld(b)'
    BY DEF AuthInv
  <2>1. CASE b = a
    BY <1>1, <1>4, <2>1
  <2>2. CASE b # a
    BY <1>3, <2>2
  <2>3. QED
    BY <2>1, <2>2
<1>6. QED
  BY <1>2, <1>5 DEF ClaimInv

\* Every step keeps it
LEMMA ClaimNext ==
    ASSUME BaseInv, ClaimInv, Classified
    PROVE  ClaimInv'
<1> USE DEF ClaimInv, LatestInv, AuthInv, Claimed, Held, SameHeld, Taken, Landed
<1>1. ASSUME NEW r, NEW ch, StageStep(r, ch) PROVE ClaimInv'
  <2>1. /\ pending' = pending \cup {ch} /\ ch.write = "open"
        /\ UNCHANGED <<row, auth, published>>
    BY <1>1 DEF StageStep, Stage
  <2>2. QED
    BY <2>1
<1>2. ASSUME NEW p, NEW q, UndoStep(p, q) PROVE ClaimInv'
  <2>1. /\ pending' = (pending \ {p}) \cup {q} /\ q.write # "landed" /\ p.write = "open"
        /\ UNCHANGED <<row, auth, published>>
    BY <1>2 DEF UndoStep, SwapStep, Unsettled
  <2>2. QED
    BY <2>1
<1>3. ASSUME NEW p, RollbackStep(p) PROVE ClaimInv'
  <2>1. /\ pending' = pending \ {p} /\ p.write # "landed"
        /\ UNCHANGED <<row, auth, published>>
    BY <1>3 DEF RollbackStep
  <2>2. QED
    BY <2>1
<1>4. CASE ObserverStep \/ ReplicaStep
  BY <1>4 DEF ObserverStep, ReplicaStep
<1>5. QED
  BY <1>1, <1>2, <1>3, <1>4, ClaimLand, ClaimOutcome, ClaimClear, ClaimAuth DEF Classified

\* A prepared authority that answers "current" stands for the claim that is in
\* the database, and for the incarnation it was prepared for (isCurrent,
\* commitChange), in whatever order the outcomes of the writes arrive
THEOREM AuthoritySafety == Spec => []AuthorityIsSound
<1>1. Init => BaseInv /\ ClaimInv
  <2> SUFFICES ASSUME Init PROVE ClaimInv
    BY BaseInit
  <2>1. FreeAuth.phase = "free"
    BY DEF FreeAuth
  <2>2. QED
    BY <2>1 DEF Init, ClaimInv, LatestInv, AuthInv
<1>2. BaseInv /\ ClaimInv /\ [Next]_vars => (BaseInv /\ ClaimInv)'
  <2>1. CASE UNCHANGED vars
    BY <2>1, BaseStutter
    DEF vars, ClaimInv, LatestInv, AuthInv, Claimed, Held, SameHeld, Taken
  <2>2. QED
    BY <2>1, BaseNext, ClaimNext
<1>3. BaseInv /\ ClaimInv => AuthorityIsSound
  <2> SUFFICES ASSUME BaseInv, ClaimInv, NEW a \in Authorities, IsCurrent(a)
               PROVE  row.claim = auth[a].claim /\ row.incarnation = auth[a].since
    BY BaseTypes DEF AuthorityIsSound
  <2>1. ~Taken(auth[a].claim, auth[a].created)
    BY DEF IsCurrent, Current, NoFence, Taken, Allows
  <2>2. SameHeld(a)
    BY DEF IsCurrent, Current, ClaimInv, AuthInv
  <2>3. QED
    BY <2>1, <2>2 DEF SameHeld
<1>4. QED
  BY <1>1, <1>2, <1>3, PTL DEF Spec

-----------------------------------------------------------------------------
(* Tool authorization.                                                     *)

\* What a landing does, for every claim c seen at a sequence number s
LEMMA LandFacts ==
    ASSUME BaseInv, NEW p, NEW q, LandStep(p, q)
    PROVE  /\ p \in pending /\ Unsettled(p) /\ Landed(q) /\ q.seq = p.seq /\ q.kind = p.kind
           /\ q.claim = p.claim /\ q.result = p.result /\ q.hasResult = p.hasResult
           /\ pending' = (pending \ {p}) \cup {q} /\ row' = post
           /\ UNCHANGED <<sequence, published, placement, tools, results, observer, replica, setting,
                          reordered>>
           /\ Describes(p, post)
           /\ q.seq \in Nat /\ tools.seq \in Nat /\ tools.seq < q.seq
           /\ \A x \in pending : x # p => x.seq < q.seq /\ x.seq \in Nat
           /\ \A c, s : Taken(c, s) => Taken(c, s)'
           /\ \A c, s : row.claim = c /\ s < q.seq => row'.claim = c \/ Taken(c, s)'
<1> USE DEF Landed, Unsettled
<1>1. /\ p \in pending /\ Unsettled(p) /\ Landed(q) /\ q.seq = p.seq /\ q.kind = p.kind
      /\ q.claim = p.claim /\ q.result = p.result /\ q.hasResult = p.hasResult
      /\ pending' = (pending \ {p}) \cup {q} /\ row' = post
      /\ UNCHANGED <<sequence, published, placement, tools, results, observer, replica, setting,
                     reordered>>
  BY DEF LandStep, SwapStep
<1>2. Describes(p, post)
  BY <1>1 DEF BaseInv, PostInv
<1>3. q.seq \in Nat /\ tools.seq \in Nat /\ tools.seq < q.seq
  BY <1>1 DEF BaseInv, SeqInv, TypeInv, Changes
<1>4. \A x \in pending : x # p => x.seq < q.seq /\ x.seq \in Nat
  BY <1>1 DEF BaseInv, SeqInv, TypeInv, Changes
<1>5. \A c, s : Taken(c, s) => Taken(c, s)'
  BY <1>1 DEF Taken
<1>6. ASSUME NEW c, NEW s, row.claim = c, s < q.seq PROVE row'.claim = c \/ Taken(c, s)'
  <2>1. p.kind # "claim" => row'.claim = row.claim
    BY <1>1, <1>2 DEF Describes
  <2>2. p.kind = "claim" => q.claim = row'.claim
    BY <1>1, <1>2 DEF Describes
  <2>3. QED
    BY <1>1, <1>6, <2>1, <2>2 DEF Taken
<1>7. QED
  BY <1>1, <1>2, <1>3, <1>4, <1>5, <1>6

\* What a publication does to the tools
LEMMA OutcomeFacts ==
    ASSUME BaseInv, NEW p, NEW ch, OutcomeStep(p, ch)
    PROVE  /\ p \in pending /\ ch.seq = p.seq /\ ch.kind = p.kind /\ ch.result = p.result
           /\ pending' = pending \ {p} /\ row' = row /\ setting' = setting
           /\ p.seq \in Nat /\ tools.seq \in Nat /\ published \in Nat
           /\ \A x \in pending : x.seq \in Nat /\ (x.seq = p.seq => x = p)
           /\ ch.kind = "claim" /\ ~(ch.known /\ Landed(p) /\ ch = p) => ~ch.known
           /\ ch.kind = "tools" => ch.claim = NoClaim \/ (Landed(p) /\ ch = p)
           /\ \/ tools' = tools
              \/ /\ ch.seq > tools.seq /\ tools'.seq = ch.seq
                 /\ tools'.claim # NoClaim => ch.kind = "tools" /\ Landed(p) /\ ch = p
                 /\ tools'.claim \in {NoClaim, ch.claim}
           /\ tools' = tools /\ ch.seq > tools.seq /\ ch.kind = "claim" =>
                /\ ch.known /\ Landed(p) /\ ch = p
                /\ tools.claim # NoClaim => p.claim = tools.claim
                /\ \A x \in pending \ {p} : x.kind = "tools" /\ x.claim # NoClaim =>
                     x.claim = p.claim
           /\ tools' = tools /\ ch.seq > tools.seq /\ ch.kind = "tools" =>
                tools.claim # NoClaim /\ ch.claim = NoClaim /\ ch.result # tools.claim
<1>1. /\ p \in pending /\ ch \in Changes /\ ch.seq = p.seq /\ ch.kind = p.kind
      /\ ch.result = p.result /\ CommitChange(ch, pending \ {p})
      /\ pending' = pending \ {p} /\ row' = row /\ setting' = setting
      /\ \/ Landed(p) /\ ch = p
         \/ ch.kind = "tools" /\ ch.claim = NoClaim
         \/ ch.kind # "tools" /\ ~ch.known
  BY DEF OutcomeStep, Published, CommitChange
<1>2. /\ p.seq \in Nat /\ tools.seq \in Nat /\ published \in Nat
      /\ \A x \in pending : x.seq \in Nat /\ (x.seq = p.seq => x = p)
  BY <1>1 DEF BaseInv, TypeInv, SeqInv, Changes
<1>3. p.known
  BY <1>1 DEF BaseInv, SeqInv
<1>4. CASE ch.kind = "tools"
  <2>1. tools' = NextToolsFromTools(ch)
    BY <1>1, <1>4 DEF CommitChange
  <2>2. ch.seq > tools.seq => tools # [seq |-> ch.seq, claim |-> ch.claim]
    BY <1>1, <1>2
  <2>3. QED
    BY <1>1, <1>2, <1>4, <2>1, <2>2 DEF NextToolsFromTools
<1>5. CASE ch.kind = "claim"
  <2>1. tools' = NextToolsFromClaim(ch, pending \ {p})
    BY <1>1, <1>5 DEF CommitChange
  <2>2. CASE tools' # tools
    BY <1>1, <1>2, <1>3, <1>5, <2>1, <2>2 DEF NextToolsFromClaim
  <2>3. CASE tools' = tools /\ ~(ch.seq > tools.seq)
    BY <1>1, <1>2, <1>3, <1>5, <2>3
  <2>4. CASE tools' = tools /\ ch.seq > tools.seq
    <3>1. tools # [seq |-> ch.seq, claim |-> NoClaim]
      BY <1>1, <1>2, <2>4
    <3>2. /\ ch.known /\ ch.claim # NoClaim
          /\ tools.claim # NoClaim => Allows(ch, tools.claim)
          /\ \A x \in pending \ {p} :
                 x.kind = "tools" /\ x.claim # NoClaim => Allows(ch, x.claim)
      BY <2>1, <2>4, <3>1 DEF NextToolsFromClaim
    <3>3. Landed(p) /\ ch = p
      BY <1>1, <1>5, <3>2
    <3>4. QED
      BY <1>1, <1>2, <1>5, <2>4, <3>2, <3>3 DEF Allows
  <2>5. QED
    BY <2>2, <2>3, <2>4
<1>6. CASE ch.kind = "result"
  <2>1. tools' = tools
    BY <1>1, <1>6 DEF CommitChange
  <2>2. QED
    BY <1>1, <1>2, <1>6, <2>1
<1>7. ch.kind \in {"claim", "tools", "result"}
  BY <1>1 DEF Changes
<1>8. QED
  BY <1>4, <1>5, <1>6, <1>7

\* The published authorization is for the claim of the row, unless a pending
\* change has taken it, and so is one that is still to be published
ToolsClaim ==
    tools.claim # NoClaim => row.claim = tools.claim \/ Taken(tools.claim, tools.seq)
PendingToolsClaim ==
    \A p \in pending :
        Landed(p) /\ p.kind = "tools" /\ p.claim # NoClaim /\ p.seq > tools.seq =>
            row.claim = p.claim \/ Taken(p.claim, p.seq)
ToolClaimInv == ToolsClaim /\ PendingToolsClaim

\* Every step keeps both, in whatever order outcomes arrive
LEMMA ToolClaimNext ==
    ASSUME BaseInv, ToolClaimInv, Classified
    PROVE  ToolClaimInv'
<1> USE DEF ToolClaimInv, ToolsClaim, PendingToolsClaim
<1>1. ASSUME NEW p, NEW q, LandStep(p, q) PROVE ToolClaimInv'
  <2>1. ToolsClaim'
    BY <1>1, LandFacts
  <2>2. ASSUME NEW x \in pending', Landed(x), x.kind = "tools", x.claim # NoClaim,
               x.seq > tools.seq
        PROVE  row'.claim = x.claim \/ Taken(x.claim, x.seq)'
    <3>1. CASE x = q
      <4>1. q.claim \in {NoClaim, q.result} /\ q.result = row.claim /\ row'.claim = row.claim
        BY <1>1, <2>2, <3>1, LandFacts DEF BaseInv, PostInv, Describes
      <4>2. QED
        BY <2>2, <3>1, <4>1
    <3>2. CASE x # q
      <4>1. x \in pending /\ x # p
        BY <1>1, <3>2, LandFacts
      <4>2. row.claim = x.claim \/ Taken(x.claim, x.seq)
        BY <2>2, <4>1
      <4>3. QED
        BY <1>1, <4>1, <4>2, LandFacts
    <3>3. QED
      BY <3>1, <3>2
  <2>3. tools' = tools
    BY <1>1, LandFacts
  <2>4. QED
    BY <2>1, <2>2, <2>3
<1>2. ASSUME NEW p, NEW ch, OutcomeStep(p, ch) PROVE ToolClaimInv'
  <2>1. /\ p \in pending /\ ch.seq = p.seq /\ ch.kind = p.kind
        /\ pending' = pending \ {p} /\ row' = row
        /\ p.seq \in Nat /\ tools.seq \in Nat /\ \A x \in pending : x.seq \in Nat
    BY <1>2, OutcomeFacts
  <2>2. ToolsClaim'
    <3>1. CASE tools' = tools
      <4>1. p.kind = "claim" /\ p.seq > tools.seq /\ tools.claim # NoClaim =>
               p.claim = tools.claim
        BY <1>2, <3>1, OutcomeFacts
      <4>2. QED
        BY <2>1, <3>1, <4>1 DEF Taken
    <3>2. CASE tools' # tools /\ tools'.claim # NoClaim
      <4>1. /\ Landed(p) /\ ch = p /\ p.kind = "tools" /\ tools'.claim = p.claim
            /\ tools'.seq = p.seq /\ p.seq > tools.seq
        BY <1>2, <3>2, OutcomeFacts
      <4>2. row.claim = p.claim \/ Taken(p.claim, p.seq)
        BY <2>1, <3>2, <4>1
      <4>3. QED
        BY <2>1, <4>1, <4>2 DEF Taken
    <3>3. QED
      BY <3>1, <3>2
  <2>3. ASSUME NEW x \in pending', Landed(x), x.kind = "tools", x.claim # NoClaim,
               x.seq > tools'.seq
        PROVE  row'.claim = x.claim \/ Taken(x.claim, x.seq)'
    <3>1. x \in pending \ {p} /\ x.seq > tools.seq
      <4>1. tools' = tools \/ (tools'.seq = ch.seq /\ ch.seq > tools.seq)
        BY <1>2, OutcomeFacts
      <4>2. QED
        BY <2>1, <2>3, <4>1
    <3>2. row.claim = x.claim \/ Taken(x.claim, x.seq)
      BY <2>3, <3>1
    <3>3. ~(p.kind = "claim" /\ p.seq > x.seq /\ Landed(p) /\ p.claim # x.claim)
      <4>1. SUFFICES ASSUME p.kind = "claim", p.seq > x.seq, p.claim # x.claim
                     PROVE  FALSE
        OBVIOUS
      <4>2. ch.seq > tools.seq
        BY <2>1, <3>1, <4>1
      <4>3. tools' = tools
        <5>1. tools' = tools \/ tools'.seq = ch.seq
          BY <1>2, OutcomeFacts
        <5>2. QED
          BY <2>1, <2>3, <4>1, <5>1
      <4>4. QED
        BY <1>2, <2>1, <2>3, <3>1, <4>1, <4>2, <4>3, OutcomeFacts
    <3>4. QED
      BY <2>1, <3>2, <3>3 DEF Taken
  <2>4. QED
    BY <2>2, <2>3
<1>3. ASSUME NEW ch, ClearStep(ch) PROVE ToolClaimInv'
  <2>1. /\ ch.seq = sequence + 1 /\ pending' = pending /\ ch.claim = NoClaim
        /\ tools' = NextToolsFromClaim(ch, pending)
    BY <1>3 DEF ClearStep, CommitChange
  <2>2. sequence \in Nat /\ tools.seq \in 0 .. sequence /\
          \A x \in pending : x.seq \in Nat /\ x.seq <= sequence
    BY DEF BaseInv, TypeInv, SeqInv, Changes
  <2>3. tools' = [seq |-> sequence + 1, claim |-> NoClaim]
    BY <2>1, <2>2 DEF NextToolsFromClaim
  <2>4. \A x \in pending : ~(x.seq > tools'.seq)
    BY <2>2, <2>3
  <2>5. QED
    BY <2>1, <2>3, <2>4
<1>4. ASSUME NEW r, NEW ch, StageStep(r, ch) PROVE ToolClaimInv'
  <2>1. /\ pending' = pending \cup {ch} /\ ch.write = "open"
        /\ UNCHANGED <<row, tools>>
    BY <1>4 DEF StageStep, Stage
  <2>2. QED
    BY <2>1 DEF Taken, Landed
<1>5. ASSUME NEW p, NEW q, UndoStep(p, q) PROVE ToolClaimInv'
  <2>1. /\ pending' = (pending \ {p}) \cup {q} /\ q.write # "landed" /\ p.write = "open"
        /\ UNCHANGED <<row, tools>>
    BY <1>5 DEF UndoStep, SwapStep, Unsettled, Landed
  <2>2. QED
    BY <2>1 DEF Taken, Landed
<1>6. ASSUME NEW p, RollbackStep(p) PROVE ToolClaimInv'
  <2>1. pending' = pending \ {p} /\ p.write # "landed" /\ UNCHANGED <<row, tools>>
    BY <1>6 DEF RollbackStep, Landed
  <2>2. QED
    BY <2>1 DEF Taken, Landed
<1>7. CASE ObserverStep \/ ReplicaStep \/ \E a \in Authorities : \E n : AuthStep(a, n)
  BY <1>7 DEF ObserverStep, ReplicaStep, AuthStep, Taken
<1>8. QED
  BY <1>1, <1>2, <1>3, <1>4, <1>5, <1>6, <1>7 DEF Classified

\* As long as outcomes arrive in order, everything published is older than
\* everything pending
OrderInv ==
    ~reordered => \A p \in pending : published < p.seq /\ tools.seq < p.seq

\* Every step keeps it
LEMMA OrderNext ==
    ASSUME BaseInv, OrderInv, Classified
    PROVE  OrderInv'
<1>1. ASSUME NEW r, NEW ch, StageStep(r, ch) PROVE OrderInv'
  <2>1. /\ pending' = pending \cup {ch} /\ ch.seq = sequence + 1
        /\ UNCHANGED <<published, tools, reordered>>
    BY <1>1 DEF StageStep, Stage
  <2>2. sequence \in Nat /\ published \in 0 .. sequence /\ tools.seq \in 0 .. sequence
    BY DEF BaseInv, TypeInv
  <2>3. QED
    BY <2>1, <2>2 DEF OrderInv
<1>2. ASSUME NEW p, NEW q, LandStep(p, q) \/ UndoStep(p, q) PROVE OrderInv'
  <2>1. /\ pending' = (pending \ {p}) \cup {q} /\ p \in pending /\ q.seq = p.seq
        /\ UNCHANGED <<published, tools, reordered>>
    BY <1>2 DEF LandStep, UndoStep, SwapStep
  <2>2. QED
    BY <2>1 DEF OrderInv
<1>3. ASSUME NEW p, NEW ch, OutcomeStep(p, ch), ~reordered' PROVE OrderInv'
  <2>1. /\ ch.seq = p.seq /\ p \in pending /\ pending' = pending \ {p} /\ ~reordered
        /\ \A x \in pending \ {p} : p.seq < x.seq
    <3>1. ~reordered /\ \A x \in pending : ~(x.seq < p.seq)
      BY <1>3 DEF OutcomeStep
    <3>2. QED
      BY <1>3, <3>1, OutcomeFacts
  <2>2. published' \in {published, p.seq} /\ tools'.seq \in {tools.seq, p.seq}
    BY <1>3, <2>1, OutcomeFacts DEF OutcomeStep, CommitChange
  <2>3. QED
    BY <2>1, <2>2 DEF OrderInv
<1>4. ASSUME NEW p, RollbackStep(p) PROVE OrderInv'
  BY <1>4 DEF RollbackStep, OrderInv
<1>5. ASSUME NEW ch, ClearStep(ch) PROVE OrderInv'
  BY <1>5 DEF ClearStep, CommitChange, OrderInv
<1>6. CASE ObserverStep \/ ReplicaStep \/ \E a \in Authorities : \E n : AuthStep(a, n)
  BY <1>6 DEF ObserverStep, ReplicaStep, AuthStep, OrderInv
<1>7. QED
  BY <1>1, <1>2, <1>3, <1>4, <1>5, <1>6 DEF Classified, OrderInv

\* So the outcome that arrives is that of the oldest change
LEMMA OldestArrives ==
    ASSUME BaseInv, OrderInv, NEW p, NEW ch, OutcomeStep(p, ch), ~reordered'
    PROVE  /\ ~reordered /\ published < p.seq /\ tools.seq < p.seq
           /\ \A x \in pending \ {p} : p.seq < x.seq
<1>1. ~reordered /\ \A x \in pending : ~(x.seq < p.seq)
  BY DEF OutcomeStep
<1>2. QED
  BY <1>1, OutcomeFacts DEF OrderInv

\* A landed change newer than s, whose outcome has not arrived, ended claim c
\* or changed its tools
Cut(c, s) ==
    \E p \in pending : Landed(p) /\ p.kind \in {"claim", "tools"} /\ p.seq > s /\ p.claim # c

\* A landed change between s and t ended claim c
Ended(c, s, t) ==
    \E p \in pending : /\ Landed(p) /\ p.kind = "claim" /\ p.seq > s /\ p.seq < t
                       /\ p.claim # c

\* In order: the published authorization is in the row, unless a pending
\* change explains why not, and so is one that is still to be published
ToolsRow ==
    ~reordered /\ tools.claim # NoClaim => row.tools = tools.claim \/ Cut(tools.claim, tools.seq)
PendingToolsRow ==
    ~reordered => \A p \in pending : Landed(p) /\ p.kind = "tools" /\ p.claim # NoClaim =>
        row.tools = p.claim \/ Cut(p.claim, p.seq)

\* A change of the tools concerns the claim the tools are authorized for,
\* unless that claim ended in between: no withdrawal is mistaken for another's
ToolsOwner ==
    ~reordered /\ tools.claim # NoClaim =>
        \A p \in pending : Landed(p) /\ p.kind = "tools" =>
            p.result = tools.claim \/ Ended(tools.claim, tools.seq, p.seq)
PendingToolsOwner ==
    ~reordered => \A r, p \in {x \in pending : Landed(x) /\ x.kind = "tools"} :
        r.claim # NoClaim /\ r.seq < p.seq =>
            p.result = r.claim \/ Ended(r.claim, r.seq, p.seq)

ToolRowInv == ToolsRow /\ PendingToolsRow /\ ToolsOwner /\ PendingToolsOwner

\* A landing keeps them
LEMMA ToolRowLand ==
    ASSUME BaseInv, ToolClaimInv, OrderInv, ToolRowInv, NEW p, NEW q, LandStep(p, q)
    PROVE  ToolRowInv'
<1> USE DEF Landed
<1>1. /\ p \in pending /\ p.write = "open" /\ Landed(q) /\ q.seq = p.seq /\ q.kind = p.kind
      /\ q.claim = p.claim /\ q.result = p.result
      /\ pending' = (pending \ {p}) \cup {q} /\ row' = post /\ tools' = tools
      /\ reordered' = reordered /\ Describes(p, post)
      /\ q.seq \in Nat /\ tools.seq \in Nat /\ tools.seq < q.seq
      /\ \A x \in pending : x # p => x.seq < q.seq /\ x.seq \in Nat
  BY LandFacts DEF Unsettled
<1>2. /\ \A c, s : Cut(c, s) => Cut(c, s)'
      /\ \A c, s, t : Ended(c, s, t) => Ended(c, s, t)'
  BY <1>1 DEF Cut, Ended
<1>3. ASSUME NEW c, NEW s, row.tools = c, c # NoClaim, s < q.seq
      PROVE  row'.tools = c \/ Cut(c, s)'
  <2>1. row.claim = c
    BY <1>3 DEF BaseInv, ToolRow
  <2>2. CASE p.kind = "result"
    BY <1>1, <1>3, <2>2 DEF Describes
  <2>3. CASE p.kind = "tools"
    <3>1. q.claim = row'.tools
      BY <1>1, <2>3 DEF Describes
    <3>2. QED
      BY <1>1, <1>3, <2>3, <3>1 DEF Cut
  <2>4. CASE p.kind = "claim"
    <3>1. q.claim = row'.claim /\ (row'.claim = c => row'.tools = c)
      BY <1>1, <1>3, <2>1, <2>4 DEF Describes
    <3>2. QED
      BY <1>1, <1>3, <2>4, <3>1 DEF Cut
  <2>5. p.kind \in {"claim", "tools", "result"}
    BY <1>1 DEF BaseInv, TypeInv, Changes
  <2>6. QED
    BY <2>2, <2>3, <2>4, <2>5
<1>4. ToolsRow'
  BY <1>1, <1>2, <1>3 DEF ToolRowInv, ToolsRow
<1>5. PendingToolsRow'
  <2> SUFFICES ASSUME ~reordered, NEW x \in pending', Landed(x), x.kind = "tools",
                      x.claim # NoClaim
               PROVE  row'.tools = x.claim \/ Cut(x.claim, x.seq)'
    BY <1>1 DEF PendingToolsRow
  <2>1. CASE x = q
    BY <1>1, <2>1 DEF Describes
  <2>2. CASE x # q
    <3>1. x \in pending /\ x # p
      BY <1>1, <2>2
    <3>2. row.tools = x.claim \/ Cut(x.claim, x.seq)
      BY <3>1 DEF ToolRowInv, PendingToolsRow
    <3>3. QED
      BY <1>1, <1>2, <1>3, <3>1, <3>2
  <2>3. QED
    BY <2>1, <2>2
<1>6. ASSUME NEW c, NEW s, row.claim = c \/ Taken(c, s), q.kind = "tools"
      PROVE  q.result = c \/ Ended(c, s, q.seq)'
  <2>1. q.result = row.claim
    BY <1>1, <1>6 DEF Describes
  <2>2. Taken(c, s) => Ended(c, s, q.seq)'
    BY <1>1 DEF Taken, Ended
  <2>3. QED
    BY <1>6, <2>1, <2>2
<1>7. ToolsOwner'
  <2> SUFFICES ASSUME ~reordered, tools.claim # NoClaim, NEW x \in pending', Landed(x),
                      x.kind = "tools"
               PROVE  x.result = tools.claim \/ Ended(tools.claim, tools.seq, x.seq)'
    BY <1>1 DEF ToolsOwner
  <2>1. CASE x = q
    <3>1. row.claim = tools.claim \/ Taken(tools.claim, tools.seq)
      BY DEF ToolClaimInv, ToolsClaim
    <3>2. q.result = tools.claim \/ Ended(tools.claim, tools.seq, q.seq)'
      BY <1>1, <1>6, <2>1, <3>1
    <3>3. QED
      BY <2>1, <3>2
  <2>2. CASE x # q
    <3>1. x \in pending /\ x # p
      BY <1>1, <2>2
    <3>2. x.result = tools.claim \/ Ended(tools.claim, tools.seq, x.seq)
      BY <3>1 DEF ToolRowInv, ToolsOwner
    <3>3. QED
      BY <1>1, <1>2, <3>2
  <2>3. QED
    BY <2>1, <2>2
<1>8. PendingToolsOwner'
  <2> SUFFICES ASSUME ~reordered, NEW r \in pending', NEW x \in pending', Landed(x),
                      x.kind = "tools", Landed(r), r.kind = "tools", r.claim # NoClaim,
                      r.seq < x.seq
               PROVE  x.result = r.claim \/ Ended(r.claim, r.seq, x.seq)'
    BY <1>1 DEF PendingToolsOwner
  <2>1. r # q
    <3>1. \A y \in pending' : ~(q.seq < y.seq)
      BY <1>1
    <3>2. QED
      BY <3>1
  <2>2. r \in pending /\ r # p
    BY <1>1, <2>1
  <2>3. CASE x = q
    <3>1. row.claim = r.claim \/ Taken(r.claim, r.seq)
      BY <1>1, <2>2 DEF ToolClaimInv, PendingToolsClaim, OrderInv
    <3>2. q.result = r.claim \/ Ended(r.claim, r.seq, q.seq)'
      BY <1>6, <2>3, <3>1
    <3>3. QED
      BY <2>3, <3>2
  <2>4. CASE x # q
    <3>1. x \in pending /\ x # p
      BY <1>1, <2>4
    <3>2. x.result = r.claim \/ Ended(r.claim, r.seq, x.seq)
      BY <2>2, <3>1 DEF ToolRowInv, PendingToolsOwner
    <3>3. QED
      BY <1>2, <3>2
  <2>5. QED
    BY <2>3, <2>4
<1>9. QED
  BY <1>4, <1>5, <1>7, <1>8 DEF ToolRowInv

\* An outcome in order keeps them
LEMMA ToolRowOutcome ==
    ASSUME BaseInv, ToolClaimInv, OrderInv, ToolRowInv, NEW p, NEW ch, OutcomeStep(p, ch)
    PROVE  ToolRowInv'
<1> USE DEF Landed
<1> SUFFICES ASSUME ~reordered' PROVE ToolRowInv'
  BY DEF ToolRowInv, ToolsRow, PendingToolsRow, ToolsOwner, PendingToolsOwner
<1>1. /\ ~reordered /\ tools.seq < p.seq /\ \A x \in pending \ {p} : p.seq < x.seq
  BY OldestArrives
<1>2. /\ p \in pending /\ ch.seq = p.seq /\ ch.kind = p.kind /\ ch.result = p.result
      /\ pending' = pending \ {p} /\ row' = row
      /\ p.seq \in Nat /\ tools.seq \in Nat /\ \A x \in pending : x.seq \in Nat
  BY OutcomeFacts
<1>3. ch.seq > tools.seq
  BY <1>1, <1>2
<1>4. /\ \A c, s : p.seq <= s /\ s \in Nat /\ Cut(c, s) => Cut(c, s)'
      /\ \A c, s, t : p.seq <= s /\ s \in Nat /\ Ended(c, s, t) => Ended(c, s, t)'
  BY <1>1, <1>2 DEF Cut, Ended
<1>5. ASSUME tools' # tools, tools'.claim # NoClaim PROVE ToolsRow' /\ ToolsOwner'
  <2>1. Landed(p) /\ p.kind = "tools" /\ tools'.claim = p.claim /\ tools'.seq = p.seq
    BY <1>5, OutcomeFacts
  <2>2. row.tools = p.claim \/ Cut(p.claim, p.seq)
    BY <1>1, <1>2, <1>5, <2>1 DEF ToolRowInv, PendingToolsRow
  <2>3. ToolsRow'
    BY <1>2, <1>4, <2>1, <2>2 DEF ToolsRow
  <2>4. ASSUME NEW x \in pending', Landed(x), x.kind = "tools"
        PROVE  x.result = p.claim \/ Ended(p.claim, p.seq, x.seq)'
    <3>1. x \in pending /\ p.seq < x.seq
      BY <1>1, <1>2
    <3>2. x.result = p.claim \/ Ended(p.claim, p.seq, x.seq)
      BY <1>1, <1>2, <1>5, <2>1, <2>4, <3>1 DEF ToolRowInv, PendingToolsOwner
    <3>3. QED
      BY <1>2, <1>4, <3>2
  <2>5. ToolsOwner'
    BY <2>1, <2>4 DEF ToolsOwner
  <2>6. QED
    BY <2>3, <2>5
<1>6. ASSUME tools' = tools, tools.claim # NoClaim PROVE ToolsRow' /\ ToolsOwner'
  <2>1. p.kind = "claim" => p.claim = tools.claim
    BY <1>2, <1>3, <1>6, OutcomeFacts
  <2>2. p.kind = "tools" => ~Landed(p) \/ p.claim = tools.claim
    <3>1. SUFFICES ASSUME p.kind = "tools", Landed(p) PROVE FALSE
      OBVIOUS
    <3>2. p.result # tools.claim
      BY <1>2, <1>3, <1>6, <3>1, OutcomeFacts
    <3>3. Ended(tools.claim, tools.seq, p.seq)
      BY <1>1, <1>2, <1>6, <3>1, <3>2 DEF ToolRowInv, ToolsOwner
    <3>4. QED
      BY <1>1, <1>2, <3>3 DEF Ended
  <2>3. Cut(tools.claim, tools.seq) => Cut(tools.claim, tools.seq)'
    BY <1>2, <1>6, <2>1, <2>2 DEF Cut
  <2>4. ToolsRow'
    BY <1>1, <1>2, <1>6, <2>3 DEF ToolRowInv, ToolsRow
  <2>5. ASSUME NEW x \in pending', Landed(x), x.kind = "tools"
        PROVE  x.result = tools.claim \/ Ended(tools.claim, tools.seq, x.seq)'
    <3>1. x.result = tools.claim \/ Ended(tools.claim, tools.seq, x.seq)
      BY <1>1, <1>2, <1>6, <2>5 DEF ToolRowInv, ToolsOwner
    <3>2. QED
      BY <1>2, <1>6, <2>1, <3>1 DEF Ended
  <2>6. ToolsOwner'
    BY <1>6, <2>5 DEF ToolsOwner
  <2>7. QED
    BY <2>4, <2>6
<1>7. ASSUME tools'.claim = NoClaim PROVE ToolsRow' /\ ToolsOwner'
  BY <1>7 DEF ToolsRow, ToolsOwner
<1>8. ToolsRow' /\ ToolsOwner'
  BY <1>5, <1>6, <1>7
<1>9. PendingToolsRow'
  <2> SUFFICES ASSUME NEW x \in pending', Landed(x), x.kind = "tools", x.claim # NoClaim
               PROVE  row'.tools = x.claim \/ Cut(x.claim, x.seq)'
    BY DEF PendingToolsRow
  <2>1. x \in pending /\ p.seq <= x.seq /\ x.seq \in Nat
    BY <1>1, <1>2
  <2>2. row.tools = x.claim \/ Cut(x.claim, x.seq)
    BY <1>1, <2>1 DEF ToolRowInv, PendingToolsRow
  <2>3. QED
    BY <1>2, <1>4, <2>1, <2>2
<1>10. PendingToolsOwner'
  <2> SUFFICES ASSUME NEW r \in pending', NEW x \in pending', Landed(x),
                      x.kind = "tools", Landed(r), r.kind = "tools", r.claim # NoClaim,
                      r.seq < x.seq
               PROVE  x.result = r.claim \/ Ended(r.claim, r.seq, x.seq)'
    BY DEF PendingToolsOwner
  <2>1. x \in pending /\ r \in pending /\ p.seq <= r.seq /\ r.seq \in Nat
    BY <1>1, <1>2
  <2>2. x.result = r.claim \/ Ended(r.claim, r.seq, x.seq)
    BY <1>1, <2>1 DEF ToolRowInv, PendingToolsOwner
  <2>3. QED
    BY <1>4, <2>1, <2>2
<1>11. QED
  BY <1>8, <1>9, <1>10 DEF ToolRowInv

\* Every step keeps them
LEMMA ToolRowNext ==
    ASSUME BaseInv, ToolClaimInv, OrderInv, ToolRowInv, Classified
    PROVE  ToolRowInv'
<1> USE DEF ToolRowInv, ToolsRow, PendingToolsRow, ToolsOwner, PendingToolsOwner
<1>1. ASSUME NEW ch, ClearStep(ch) PROVE ToolRowInv'
  <2>1. /\ ch.seq = sequence + 1 /\ pending' = pending /\ ch.claim = NoClaim
        /\ tools' = NextToolsFromClaim(ch, pending) /\ (~reordered' => pending = {})
    BY <1>1 DEF ClearStep, CommitChange
  <2>2. sequence \in Nat /\ tools.seq \in 0 .. sequence
    BY DEF BaseInv, TypeInv
  <2>3. tools' = [seq |-> sequence + 1, claim |-> NoClaim]
    BY <2>1, <2>2 DEF NextToolsFromClaim
  <2>4. QED
    BY <2>1, <2>3
<1>2. ASSUME NEW r, NEW ch, StageStep(r, ch) PROVE ToolRowInv'
  <2>1. /\ pending' = pending \cup {ch} /\ ch.write = "open"
        /\ UNCHANGED <<row, tools, reordered>>
    BY <1>2 DEF StageStep, Stage
  <2>2. QED
    BY <2>1 DEF Cut, Ended, Landed
<1>3. ASSUME NEW p, NEW q, UndoStep(p, q) PROVE ToolRowInv'
  <2>1. /\ pending' = (pending \ {p}) \cup {q} /\ q.write # "landed" /\ p.write = "open"
        /\ UNCHANGED <<row, tools, reordered>>
    BY <1>3 DEF UndoStep, SwapStep, Unsettled, Landed
  <2>2. QED
    BY <2>1 DEF Cut, Ended, Landed
<1>4. ASSUME NEW p, RollbackStep(p) PROVE ToolRowInv'
  <2>1. /\ pending' = pending \ {p} /\ p.write # "landed" /\ UNCHANGED <<row, tools>>
        /\ (~reordered' => ~reordered)
    BY <1>4 DEF RollbackStep, Landed
  <2>2. QED
    BY <2>1 DEF Cut, Ended, Landed
<1>5. CASE ObserverStep \/ ReplicaStep \/ \E a \in Authorities : \E n : AuthStep(a, n)
  BY <1>5 DEF ObserverStep, ReplicaStep, AuthStep, Cut, Ended
<1>6. QED
  BY <1>1, <1>2, <1>3, <1>4, <1>5, ToolRowLand, ToolRowOutcome DEF Classified

ToolInv == BaseInv /\ ToolClaimInv /\ OrderInv /\ ToolRowInv

\* A tool call is let through only for the claim that holds the turn in the
\* database and, while outcomes arrive in order, only if the database has the
\* tools of that claim authorized (isPlacementTurnToolAuthorized)
THEOREM ToolSafety == Spec => []ToolsAreSound
<1>1. Init => ToolInv
  <2> SUFFICES ASSUME Init PROVE ToolInv
    OBVIOUS
  <2>1. tools.claim = NoClaim /\ pending = {}
    BY DEF Init
  <2>2. QED
    BY <2>1, BaseInit
    DEF ToolInv, ToolClaimInv, ToolsClaim, PendingToolsClaim, OrderInv, ToolRowInv,
        ToolsRow, PendingToolsRow, ToolsOwner, PendingToolsOwner
<1>2. ToolInv /\ [Next]_vars => ToolInv'
  <2>1. CASE UNCHANGED vars
    BY <2>1, BaseStutter
    DEF vars, ToolInv, ToolClaimInv, ToolsClaim, PendingToolsClaim, OrderInv, ToolRowInv,
        ToolsRow, PendingToolsRow, ToolsOwner, PendingToolsOwner, Taken, Cut, Ended
  <2>2. QED
    BY <2>1, BaseNext, ToolClaimNext, OrderNext, ToolRowNext DEF ToolInv
<1>3. ToolInv => ToolsAreSound
  <2> SUFFICES ASSUME ToolInv, NEW c \in Claims, ToolAuthorized(c)
               PROVE  row.claim = c /\ (~reordered => row.tools = c)
    BY DEF ToolsAreSound
  <2>1. tools.claim = c /\ c # NoClaim
    BY AuthorityAssumption DEF ToolAuthorized
  <2>2. ~Taken(c, tools.seq) /\ ~Cut(c, tools.seq)
    BY DEF ToolAuthorized, Taken, Cut, Allows
  <2>3. QED
    BY <2>1, <2>2 DEF ToolInv, ToolClaimInv, ToolsClaim, ToolRowInv, ToolsRow
<1>4. QED
  BY <1>1, <1>2, <1>3, PTL DEF Spec

-----------------------------------------------------------------------------
(* What the host has published.                                            *)

\* A landed change of the claim or of the result
Row(p) == Landed(p) /\ p.kind # "tools"

\* An exact entry is the row's claim, unless a pending change has taken it; an open
\* change is newer than the entry
PlacementInv ==
    /\ ~reordered => \A x \in placement : x.exact => row.claim = x.claim \/ Taken(x.claim, x.seq)
    /\ \A x \in placement : x.exact => \A p \in pending : Unsettled(p) => x.seq < p.seq

\* In order: so is what a pending change will publish
PendingInv ==
    ~reordered => \A p \in pending : Row(p) => row.claim = p.claim \/ Taken(p.claim, p.seq)

\* The snapshot of a calm read is the row's claim, unless a pending change has taken
\* it, or an entry newer than the read will keep the snapshot out
ReadInv ==
    replica.phase = "read" /\ replica.calm =>
        /\ \/ row.claim = replica.snapshot
           \/ Taken(replica.snapshot, replica.seq)
           \/ \E x \in placement : x.seq > replica.seq
        /\ \A p \in pending : Unsettled(p) => replica.seq < p.seq

PlacedInv == PlacementInv /\ PendingInv /\ ReadInv

\* A landing keeps them: what it takes away it takes as a newer pending change
LEMMA PlacedLand ==
    ASSUME BaseInv, PlacedInv, NEW p, NEW q, LandStep(p, q)
    PROVE  PlacedInv'
<1>1. /\ p \in pending /\ Unsettled(p) /\ Landed(q) /\ q.seq = p.seq /\ q.kind = p.kind
      /\ q.claim = p.claim /\ pending' = (pending \ {p}) \cup {q} /\ row' = post
      /\ placement' = placement /\ replica' = replica /\ reordered' = reordered
      /\ Describes(p, post)
      /\ \A x \in pending : x # p => x.seq < q.seq
      /\ \A c, s : Taken(c, s) => Taken(c, s)'
      /\ \A c, s : row.claim = c /\ s < q.seq => row'.claim = c \/ Taken(c, s)'
  BY LandFacts
<1>2. \A x \in pending' : ~Unsettled(x)
  BY BaseSwap
<1>3. PlacementInv'
  BY <1>1, <1>2 DEF PlacedInv, PlacementInv
<1>4. PendingInv'
  <2>1. Row(q) => q.claim = row'.claim
    BY <1>1 DEF Row, Describes
  <2>2. QED
    BY <1>1, <2>1 DEF PlacedInv, PendingInv, Row
<1>5. ReadInv'
  BY <1>1, <1>2 DEF PlacedInv, ReadInv
<1>6. QED
  BY <1>3, <1>4, <1>5 DEF PlacedInv

\* What a publication does to an entry: it stays, as exact as before or less, or the
\* change's own entry takes its place
LEMMA PlacementFacts ==
    ASSUME BaseInv, NEW ch \in Changes, placement' = NextPlacement(ch)
    PROVE  /\ \A y \in placement' :
                \/ /\ ch.known /\ ch.kind # "tools" /\ ch.hasPlacement
                   /\ y.seq = ch.seq /\ y.claim = ch.claim
                \/ \E x \in placement : /\ y.seq = x.seq /\ y.claim = x.claim
                                        /\ y.exact => x.exact
           /\ \A y \in placement' : ch.kind # "tools" /\ y.exact => y.seq >= ch.seq
           /\ ch.kind # "tools" /\ ch.known /\ ch.hasPlacement =>
                \E y \in placement' : y.seq >= ch.seq
           /\ \A x \in placement :
                \/ \E y \in placement' : y.seq >= x.seq
                \/ ch.kind # "tools" /\ ~ch.known /\ x.seq <= ch.seq
<1>1. /\ ch.seq \in Nat
      /\ \A x \in placement :
           x.seq \in Nat /\ x \in [seq : Nat, claim : MaybeClaims, exact : BOOLEAN]
      /\ \A x, y \in placement : x = y
  BY AuthorityAssumption DEF BaseInv, TypeInv, PlacementRec, Changes
<1>2. CASE ch.kind = "tools" \/ \E x \in placement : x.seq > ch.seq
  <2>1. placement' = placement
    BY <1>2 DEF NextPlacement
  <2>2. QED
    BY <1>1, <1>2, <2>1
<1>3. CASE ch.kind # "tools" /\ ~\E x \in placement : x.seq > ch.seq
  <2>1. CASE ~ch.known
    BY <1>1, <1>3, <2>1 DEF NextPlacement
  <2>2. CASE ch.known /\ ch.hasPlacement
    <3>1. placement' = {[seq |-> ch.seq, claim |-> ch.claim, exact |-> TRUE]}
      BY <1>3, <2>2 DEF NextPlacement
    <3>2. QED
      BY <1>1, <1>3, <2>2, <3>1
  <2>3. CASE ch.known /\ ~ch.hasPlacement
    <3>1. placement' = {[x EXCEPT !.exact = @ /\ x.seq = ch.seq] : x \in placement}
      BY <1>3, <2>3 DEF NextPlacement
    <3>2. ASSUME NEW x \in placement
          PROVE  \E y \in placement' : /\ y.seq = x.seq /\ y.claim = x.claim
                                       /\ y.exact = (x.exact /\ x.seq = ch.seq)
                                       /\ placement' = {y}
      <4>1. PICK v \in BOOLEAN : v = (x.exact /\ x.seq = ch.seq)
        BY <1>1
      <4>2. PICK y : y = [x EXCEPT !.exact = v]
        OBVIOUS
      <4>3. y.seq = x.seq /\ y.claim = x.claim /\ y.exact = v
        BY <1>1, <4>2
      <4>4. placement = {x}
        BY <1>1
      <4>5. placement' = {y}
        BY <3>1, <4>1, <4>2, <4>4
      <4>6. QED
        BY <4>1, <4>3, <4>5
    <3>3. placement = {} => placement' = {}
      BY <3>1
    <3>4. CASE placement = {}
      BY <1>3, <2>3, <3>3, <3>4
    <3>5. CASE placement # {}
      <4>1. PICK x \in placement : TRUE
        BY <3>5
      <4>2. PICK y : /\ y.seq = x.seq /\ y.claim = x.claim
                     /\ y.exact = (x.exact /\ x.seq = ch.seq) /\ placement' = {y}
        BY <3>2
      <4>3. placement = {x} /\ x.seq \in Nat /\ x.exact \in BOOLEAN
        BY <1>1, <4>1
      <4>4. y.exact => x.exact /\ y.seq = ch.seq
        BY <4>2
      <4>5. y.seq >= x.seq
        BY <4>2, <4>3
      <4>6. QED
        BY <1>1, <2>3, <4>2, <4>3, <4>4, <4>5
    <3>6. QED
      BY <3>4, <3>5
  <2>4. QED
    BY <2>1, <2>2, <2>3
<1>4. QED
  BY <1>2, <1>3

\* A publication keeps them
LEMMA PlacedOutcome ==
    ASSUME BaseInv, OrderInv, PlacedInv, NEW p, NEW ch, OutcomeStep(p, ch)
    PROVE  PlacedInv'
<1>1. /\ p \in pending /\ ch.seq = p.seq /\ ch.kind = p.kind /\ pending' = pending \ {p}
      /\ row' = row /\ p.seq \in Nat /\ \A x \in pending : x.seq \in Nat
  BY OutcomeFacts
<1>2. /\ ch \in Changes /\ placement' = NextPlacement(ch) /\ replica' = NextReplica(ch)
      /\ ch.kind # "tools" /\ ch.known => Row(p) /\ ch = p
      /\ ~Unsettled(p)
      /\ ~reordered' => ~reordered
  BY DEF OutcomeStep, Published, CommitChange, Row
<1>3. \A x \in placement : x.seq \in Nat
  BY AuthorityAssumption DEF BaseInv, TypeInv, PlacementRec
<1>4. ASSUME NEW c, NEW s \in Nat, Taken(c, s)
      PROVE  Taken(c, s)' \/ (Row(p) /\ p.kind = "claim" /\ p.seq > s)
  BY <1>1, <1>4 DEF Taken, Row
<1>5. ~reordered' => \A x \in pending \ {p} : p.seq < x.seq
  BY OldestArrives
<1>6. PendingInv'
  BY <1>1, <1>2, <1>4, <1>5 DEF PlacedInv, PendingInv, Row, Landed
<1>7. PlacementInv'
  <2> SUFFICES ASSUME NEW y \in placement', y.exact
               PROVE  /\ ~reordered' => row'.claim = y.claim \/ Taken(y.claim, y.seq)'
                      /\ \A x \in pending' : Unsettled(x) => y.seq < x.seq
    BY DEF PlacementInv, Unsettled
  <2>1. CASE ch.known /\ ch.kind # "tools" /\ y.seq = ch.seq /\ y.claim = ch.claim
    <3>1. Row(p) /\ y.seq = p.seq /\ y.claim = p.claim
      BY <1>2, <2>1
    <3>2. ~reordered' => row.claim = p.claim \/ Taken(p.claim, p.seq)
      BY <1>1, <1>2, <3>1 DEF PlacedInv, PendingInv
    <3>3. ~Taken(p.claim, p.seq) \/ Taken(p.claim, p.seq)'
      BY <1>1, <1>4
    <3>4. \A x \in pending' : Unsettled(x) => p.seq < x.seq
      BY <1>1, <1>2 DEF BaseInv, SeqInv
    <3>5. QED
      BY <1>1, <3>1, <3>2, <3>3, <3>4
  <2>2. CASE \E x \in placement : y.seq = x.seq /\ y.claim = x.claim /\ (y.exact => x.exact)
    <3>1. PICK x \in placement : y.seq = x.seq /\ y.claim = x.claim /\ x.exact
      BY <2>2
    <3>2. ch.kind = "claim" => y.seq >= p.seq
      BY <1>1, <1>2, PlacementFacts
    <3>3. Taken(y.claim, y.seq) => Taken(y.claim, y.seq)'
      BY <1>1, <1>3, <1>4, <3>1, <3>2
    <3>4. QED
      BY <1>1, <1>2, <3>1, <3>3 DEF PlacedInv, PlacementInv
  <2>3. QED
    BY <1>2, <2>1, <2>2, PlacementFacts
<1>8. ReadInv'
  <2> SUFFICES ASSUME replica'.phase = "read", replica'.calm
               PROVE  /\ \/ row'.claim = replica'.snapshot
                         \/ Taken(replica.snapshot, replica.seq)'
                         \/ \E x \in placement' : x.seq > replica'.seq
                      /\ \A x \in pending' : Unsettled(x) => replica'.seq < x.seq
    BY DEF ReadInv, Unsettled
  <2>1. /\ replica'.phase = replica.phase /\ replica'.seq = replica.seq /\ replica.seq \in Nat
        /\ replica'.snapshot = replica.snapshot
        /\ replica'.calm = (replica.calm /\ (replica.phase = "read" /\ ch.kind # "tools"
                              /\ ch.seq > replica.seq => ch.known /\ ch.hasPlacement))
    <3>1. replica \in ReplicaRec(sequence) /\ sequence \in Nat
      BY AuthorityAssumption DEF BaseInv, TypeInv
    <3>2. PICK v \in BOOLEAN :
            v = (replica.calm /\ (replica.phase = "read" /\ ch.kind # "tools"
                                   /\ ch.seq > replica.seq => ch.known /\ ch.hasPlacement))
      BY <3>1 DEF ReplicaRec
    <3>3. replica' = [replica EXCEPT !.calm = v]
      BY <1>2, <3>2 DEF NextReplica
    <3>4. /\ replica'.phase = replica.phase /\ replica'.seq = replica.seq
          /\ replica'.snapshot = replica.snapshot /\ replica'.calm = v /\ replica.seq \in Nat
      BY <3>1, <3>3 DEF ReplicaRec
    <3>5. QED
      BY <3>2, <3>4
  <2>2. replica.calm /\ replica.phase = "read"
    BY <2>1
  <2>3. ch.kind # "tools" /\ ch.seq > replica.seq => ch.known /\ ch.hasPlacement
    BY <2>1
  <2>4. \A x \in pending' : Unsettled(x) => replica'.seq < x.seq
    BY <1>1, <2>1, <2>2 DEF PlacedInv, ReadInv
  <2>5. CASE ch.kind # "tools" /\ ch.seq > replica.seq
    <3>1. PICK y \in placement' : y.seq >= ch.seq
      BY <1>2, <2>3, <2>5, PlacementFacts
    <3>2. y.seq \in Nat
      BY <1>1, <1>2, <1>3, PlacementFacts
    <3>3. QED
      BY <1>1, <2>1, <2>4, <2>5, <3>1, <3>2
  <2>6. CASE ~(ch.kind # "tools" /\ ch.seq > replica.seq)
    <3>1. Taken(replica.snapshot, replica.seq) => Taken(replica.snapshot, replica.seq)'
      <4>1. PICK c, s : c = replica.snapshot /\ s = replica.seq
        OBVIOUS
      <4>2. Taken(c, s) => Taken(c, s)'
        BY <1>1, <1>4, <2>1, <2>6, <4>1
      <4>3. QED
        BY <2>1, <4>1, <4>2 DEF Taken
    <3>2. ASSUME NEW x \in placement, x.seq > replica.seq
          PROVE  \E y \in placement' : y.seq > replica.seq
      <4>1. PICK y \in placement' : y.seq >= x.seq
        BY <1>1, <1>2, <1>3, <2>1, <2>6, <3>2, PlacementFacts
      <4>2. y.seq \in Nat
        BY <1>1, <1>2, <1>3, PlacementFacts
      <4>3. QED
        BY <1>3, <2>1, <3>2, <4>1, <4>2
    <3>3. QED
      BY <1>1, <2>1, <2>2, <2>4, <3>1, <3>2 DEF PlacedInv, ReadInv
  <2>7. QED
    BY <2>5, <2>6
<1>9. QED
  BY <1>6, <1>7, <1>8 DEF PlacedInv

\* Every step keeps them
LEMMA PlacedNext ==
    ASSUME BaseInv, OrderInv, PlacedInv, Classified
    PROVE  PlacedInv'
<1> USE DEF PlacedInv, PlacementInv, PendingInv, ReadInv
<1>1. ASSUME NEW ch, ClearStep(ch) PROVE PlacedInv'
  <2>1. /\ ch \in Changes /\ ch.seq = sequence + 1 /\ ch.kind = "claim" /\ ch.claim = NoClaim
        /\ ch.known /\ ch.hasPlacement /\ row'.claim = NoClaim /\ pending' = pending
        /\ (~reordered' => pending = {}) /\ \A p \in pending : ~Unsettled(p)
        /\ placement' = NextPlacement(ch) /\ replica' = NextReplica(ch)
    BY <1>1 DEF ClearStep, CommitChange
  <2>2. /\ sequence \in Nat /\ \A x \in placement : x.seq \in 0 .. sequence
        /\ replica \in ReplicaRec(sequence)
    BY AuthorityAssumption DEF BaseInv, TypeInv, PlacementRec
  <2>3. placement' = {[seq |-> ch.seq, claim |-> NoClaim, exact |-> TRUE]}
    BY <2>1, <2>2 DEF NextPlacement
  <2>4. replica'.seq = replica.seq /\ replica.seq \in 0 .. sequence
    BY <2>1, <2>2 DEF NextReplica, ReplicaRec
  <2>5. \E x \in placement' : x.seq > replica'.seq
    BY <2>1, <2>2, <2>3, <2>4
  <2>6. \A p \in pending' : ~Unsettled(p)
    BY <2>1
  <2>7. PlacementInv' /\ PendingInv'
    BY <2>1, <2>3, <2>6 DEF Unsettled
  <2>8. ReadInv'
    BY <2>5, <2>6 DEF Unsettled
  <2>9. QED
    BY <2>7, <2>8
<1>2. ASSUME NEW r, NEW ch, StageStep(r, ch) PROVE PlacedInv'
  <2>1. /\ pending' = pending \cup {ch} /\ ch.write = "open" /\ ch.seq = sequence + 1
        /\ UNCHANGED <<row, placement, replica, reordered>>
    BY <1>2 DEF StageStep, Stage
  <2>2. /\ sequence \in Nat /\ replica.seq \in 0 .. sequence
        /\ \A x \in placement : x.seq \in 0 .. sequence
    BY AuthorityAssumption DEF BaseInv, TypeInv, PlacementRec, ReplicaRec
  <2>3. QED
    BY <2>1, <2>2 DEF Taken, Landed, Unsettled, Row
<1>3. ASSUME NEW p, NEW q, UndoStep(p, q) PROVE PlacedInv'
  <2>1. /\ pending' = (pending \ {p}) \cup {q} /\ q.write \notin {"landed", "open"}
        /\ p.write = "open" /\ UNCHANGED <<row, placement, replica, reordered>>
    BY <1>3 DEF UndoStep, SwapStep, Unsettled, Landed
  <2>2. QED
    BY <2>1 DEF Taken, Landed, Unsettled, Row
<1>4. ASSUME NEW p, RollbackStep(p) PROVE PlacedInv'
  <2>1. /\ pending' = pending \ {p} /\ p.write # "landed"
        /\ UNCHANGED <<row, placement, replica>> /\ (~reordered' => ~reordered)
    BY <1>4 DEF RollbackStep, Landed
  <2>2. QED
    BY <2>1 DEF Taken, Landed, Unsettled, Row
<1>5. CASE \E a \in Authorities : \E n : AuthStep(a, n)
  BY <1>5 DEF AuthStep, Taken, Row
<1>6. CASE ObserverStep
  <2>1. UNCHANGED <<row, placement, replica, pending, reordered>>
    BY <1>6 DEF ObserverStep
  <2>2. QED
    BY <2>1 DEF Taken, Row, Unsettled, Landed
<1>7. CASE ReplicaStep
  <2>1. UNCHANGED <<row, pending, reordered>>
    BY <1>7 DEF ReplicaStep
  <2>2. PendingInv'
    BY <2>1 DEF Taken, Row, Landed
  <2>3. NoReplica.phase = "free"
    BY DEF NoReplica
  <2>4. CASE CaptureReplica
    <3>1. placement' = placement
      BY <2>4 DEF CaptureReplica
    <3>2. PICK o : o = NoReplica
      OBVIOUS
    <3>3. replica' = [o EXCEPT !.phase = "reading", !.seq = sequence]
      BY <2>4, <3>2 DEF CaptureReplica
    <3>4. NoReplica \in [phase : {"free"}, seq : {0}, snapshot : {NoClaim}, calm : {FALSE}]
      BY DEF NoReplica
    <3>5. replica'.phase # "read"
      BY <3>2, <3>3, <3>4
    <3>6. QED
      BY <2>1, <2>2, <3>1, <3>5 DEF Taken, Landed, Unsettled
  <2>5. CASE ReplicaReads
    <3>1. placement' = placement
      BY <2>5 DEF ReplicaReads
    <3>2. PICK u \in BOOLEAN : u = \A p \in pending : p.write = "open" => p.seq > replica.seq
      OBVIOUS
    <3>3. replica' = [replica EXCEPT !.phase = "read", !.snapshot = row.claim, !.calm = u]
      BY <2>5, <3>2 DEF ReplicaReads
    <3>4. replica'.snapshot = row.claim /\ replica'.calm = u /\ replica'.seq = replica.seq
      BY <3>3 DEF BaseInv, TypeInv, ReplicaRec
    <3>5. \A p \in pending : p.seq \in Nat /\ replica.seq \in Nat
      BY AuthorityAssumption DEF BaseInv, TypeInv, ReplicaRec, Changes
    <3>6. ReadInv'
      BY <2>1, <3>2, <3>4, <3>5 DEF Unsettled
    <3>7. QED
      BY <2>1, <2>2, <3>1, <3>6 DEF Taken, Landed, Unsettled
  <2>6. CASE ReplicaReturns
    <3>1. replica.phase = "read" /\ replica' = NoReplica
      BY <2>6 DEF ReplicaReturns
    <3>2. ReadInv'
      BY <2>3, <3>1
    <3>3. CASE Fills
      <4>1. placement' = {[seq |-> replica.seq, claim |-> replica.snapshot,
                           exact |-> replica.calm]}
        BY <2>6, <3>3 DEF ReplicaReturns
      <4>2. ~\E x \in placement : x.seq > replica.seq
        <5>1. \A x \in placement : x.seq \in Nat /\ replica.seq \in Nat
          BY AuthorityAssumption DEF BaseInv, TypeInv, PlacementRec, ReplicaRec
        <5>2. QED
          BY <3>3, <5>1 DEF Fills
      <4>3. PlacementInv'
        BY <2>1, <3>1, <4>1, <4>2 DEF Taken, Landed, Unsettled
      <4>4. QED
        BY <2>2, <3>2, <4>3
    <3>4. CASE ~Fills
      <4>1. placement' = placement
        BY <2>6, <3>4 DEF ReplicaReturns
      <4>2. QED
        BY <2>1, <2>2, <3>2, <4>1 DEF Taken, Landed, Unsettled
    <3>5. QED
      BY <3>3, <3>4
  <2>7. QED
    BY <1>7, <2>4, <2>5, <2>6 DEF ReplicaStep
<1>8. QED
  BY <1>1, <1>2, <1>3, <1>4, <1>5, <1>6, <1>7, PlacedLand, PlacedOutcome DEF Classified

\* In order: the newest landed change describes the row; a change without a
\* result leaves that of the change before it; and the published result is
\* that of the row, or of the change that comes next
NewestInv ==
    ~reordered => \A p \in pending :
        Row(p) /\ (\A x \in pending : Row(x) => x.seq <= p.seq) =>
            row.claim = p.claim /\ row.result = p.result
Adjacent(p, q) ==
    /\ Row(p) /\ Row(q) /\ p.seq < q.seq
    /\ \A x \in pending : Row(x) => x.seq <= p.seq \/ x.seq >= q.seq
ChainInv ==
    ~reordered => \A p, q \in pending : Adjacent(p, q) /\ ~q.hasResult => q.result = p.result
First(p) == Row(p) /\ \A x \in pending : Row(x) => x.seq >= p.seq
ResultInv ==
    ~reordered => \A r \in results :
        /\ (\A p \in pending : ~Row(p)) => row.result = r.result /\ row.claim = r.claim
        /\ \A p \in pending : First(p) /\ ~p.hasResult => p.result = r.result

\* A snapshot that is not revoked is of the row, or a pending change tells
\* that it is not
SnapshotInv ==
    observer.phase = "read" /\ ~observer.revoked =>
        \/ observer.snapshot = {[claim |-> row.claim, result |-> row.result]}
        \/ \E p \in pending : Row(p)

ResultsInv == NewestInv /\ ChainInv /\ ResultInv /\ SnapshotInv

\* A landing keeps them
LEMMA ResultsLand ==
    ASSUME BaseInv, ResultsInv, NEW p, NEW q, LandStep(p, q)
    PROVE  ResultsInv'
<1>1. /\ p \in pending /\ Unsettled(p) /\ Landed(q) /\ q.seq = p.seq /\ q.kind = p.kind
      /\ q.claim = p.claim /\ q.result = p.result /\ q.hasResult = p.hasResult
      /\ pending' = (pending \ {p}) \cup {q} /\ row' = post
      /\ UNCHANGED <<results, observer, reordered>>
      /\ Describes(p, post) /\ q.seq \in Nat
      /\ \A x \in pending : x # p => x.seq < q.seq /\ x.seq \in Nat
  BY LandFacts
<1>2. ~Row(p)
  BY <1>1 DEF Row, Landed, Unsettled
<1>3. ~Row(q) => row'.claim = row.claim /\ row'.result = row.result
  BY <1>1 DEF Row, Describes
<1>4. Row(q) => /\ row'.claim = q.claim /\ row'.result = q.result
                /\ ~q.hasResult => row'.result = row.result
  BY <1>1 DEF Row, Describes
<1>5. NewestInv'
  <2> SUFFICES ASSUME ~reordered, NEW x \in pending', Row(x),
                      \A y \in pending' : Row(y) => y.seq <= x.seq
               PROVE  row'.claim = x.claim /\ row'.result = x.result
    BY <1>1 DEF NewestInv, Row, Landed
  <2>1. CASE x = q
    BY <1>4, <2>1
  <2>2. CASE x # q
    <3>1. x \in pending /\ x # p /\ x.seq < q.seq /\ x.seq \in Nat /\ q \in pending'
      BY <1>1, <2>2
    <3>2. ~Row(q)
      BY <1>1, <3>1
    <3>3. \A y \in pending : Row(y) => y.seq <= x.seq
      BY <1>1, <1>2
    <3>4. QED
      BY <1>3, <3>1, <3>2, <3>3 DEF ResultsInv, NewestInv
  <2>3. QED
    BY <2>1, <2>2
<1>6. ChainInv'
  <2> SUFFICES ASSUME ~reordered, NEW x \in pending', NEW y \in pending', Row(x), Row(y),
                      x.seq < y.seq, ~y.hasResult,
                      \A z \in pending' : Row(z) => z.seq <= x.seq \/ z.seq >= y.seq
               PROVE  y.result = x.result
    BY <1>1 DEF ChainInv, Adjacent, Row, Landed
  <2>1. x \in pending /\ x # p
    BY <1>1
  <2>2. CASE y = q
    <3>1. \A z \in pending : Row(z) => z.seq <= x.seq
      <4>1. SUFFICES ASSUME NEW z \in pending, Row(z) PROVE z.seq <= x.seq
        OBVIOUS
      <4>2. z \in pending' /\ z # p
        BY <1>1, <1>2, <4>1
      <4>3. z.seq < q.seq /\ z.seq \in Nat
        BY <1>1, <4>2
      <4>4. QED
        BY <1>1, <2>2, <4>1, <4>2, <4>3
    <3>2. row.result = x.result
      BY <2>1, <3>1 DEF ResultsInv, NewestInv
    <3>3. QED
      BY <1>4, <2>2, <3>2
  <2>3. CASE y # q
    <3>1. y \in pending /\ \A z \in pending : Row(z) => z.seq <= x.seq \/ z.seq >= y.seq
      BY <1>1, <1>2, <2>3
    <3>2. QED
      BY <2>1, <3>1 DEF ResultsInv, ChainInv, Adjacent
  <2>4. QED
    BY <2>2, <2>3
<1>7. ResultInv'
  <2> SUFFICES ASSUME ~reordered, NEW r \in results
               PROVE  /\ (\A x \in pending' : ~Row(x)) =>
                           row'.result = r.result /\ row'.claim = r.claim
                      /\ \A x \in pending' :
                           /\ Row(x) /\ ~x.hasResult
                           /\ \A y \in pending' : Row(y) => y.seq >= x.seq
                           => x.result = r.result
    BY <1>1 DEF ResultInv, First, Row, Landed
  <2>1. ASSUME \A x \in pending' : ~Row(x)
        PROVE  row'.result = r.result /\ row'.claim = r.claim
    BY <1>1, <1>2, <1>3, <2>1 DEF ResultsInv, ResultInv
  <2>2. ASSUME NEW x \in pending', Row(x), ~x.hasResult,
               \A y \in pending' : Row(y) => y.seq >= x.seq
        PROVE  x.result = r.result
    <3>1. CASE x = q
      <4>1. \A y \in pending : ~Row(y)
        <5>1. SUFFICES ASSUME NEW y \in pending, Row(y) PROVE FALSE
          OBVIOUS
        <5>2. y \in pending' /\ y # p
          BY <1>1, <1>2, <5>1
        <5>3. QED
          BY <1>1, <2>2, <3>1, <5>1, <5>2
      <4>2. row.result = r.result
        BY <4>1 DEF ResultsInv, ResultInv
      <4>3. QED
        BY <1>4, <2>2, <3>1, <4>2
    <3>2. CASE x # q
      <4>1. x \in pending /\ First(x)
        BY <1>1, <1>2, <2>2, <3>2 DEF First
      <4>2. QED
        BY <2>2, <4>1 DEF ResultsInv, ResultInv
    <3>3. QED
      BY <3>1, <3>2
  <2>3. QED
    BY <2>1, <2>2
<1>8. SnapshotInv'
  BY <1>1, <1>2, <1>3 DEF ResultsInv, SnapshotInv, Row, Landed
<1>9. QED
  BY <1>5, <1>6, <1>7, <1>8 DEF ResultsInv

\* An outcome keeps them
LEMMA ResultsOutcome ==
    ASSUME BaseInv, OrderInv, ResultsInv, NEW p, NEW ch, OutcomeStep(p, ch)
    PROVE  ResultsInv'
<1>1. /\ p \in pending /\ ch.seq = p.seq /\ ch.kind = p.kind /\ pending' = pending \ {p}
      /\ row' = row /\ p.seq \in Nat /\ \A x \in pending : x.seq \in Nat
  BY OutcomeFacts
<1>2. ~reordered' => /\ ~reordered /\ published < p.seq
                     /\ \A x \in pending \ {p} : p.seq < x.seq
  BY OldestArrives
<1>3. SnapshotInv'
  <2>1. CASE p.kind = "tools"
    <3>1. observer' = observer /\ ~Row(p)
      BY <1>1, <2>1 DEF OutcomeStep, CommitChange, Row
    <3>2. QED
      BY <1>1, <3>1 DEF ResultsInv, SnapshotInv
  <2>2. CASE p.kind # "tools"
    <3>1. observer' = [observer EXCEPT !.revoked = observer.phase # "free"]
      BY <1>1, <2>2 DEF OutcomeStep, CommitChange
    <3>2. observer'.phase = "read" => observer'.revoked
      BY <3>1 DEF BaseInv, TypeInv, ObserverRec
    <3>3. QED
      BY <3>2 DEF SnapshotInv
  <2>3. QED
    BY <2>1, <2>2
<1>4. ASSUME ~reordered' PROVE NewestInv' /\ ChainInv' /\ ResultInv'
  <2>1. /\ ~reordered /\ published < p.seq /\ \A x \in pending \ {p} : p.seq < x.seq
    BY <1>2, <1>4
  <2>2. NewestInv'
    <3> SUFFICES ASSUME NEW x \in pending', Row(x), \A y \in pending' : Row(y) => y.seq <= x.seq
                 PROVE  row'.claim = x.claim /\ row'.result = x.result
      BY DEF NewestInv, Row, Landed
    <3>1. x \in pending /\ \A y \in pending : Row(y) => y.seq <= x.seq
      BY <1>1, <2>1
    <3>2. QED
      BY <1>1, <2>1, <3>1 DEF ResultsInv, NewestInv
  <2>3. ChainInv'
    <3> SUFFICES ASSUME NEW x \in pending', NEW y \in pending', Row(x), Row(y),
                        x.seq < y.seq, ~y.hasResult,
                        \A z \in pending' : Row(z) => z.seq <= x.seq \/ z.seq >= y.seq
                 PROVE  y.result = x.result
      BY DEF ChainInv, Adjacent, Row, Landed
    <3>1. x \in pending /\ y \in pending /\ Adjacent(x, y)
      BY <1>1, <2>1 DEF Adjacent
    <3>2. QED
      BY <2>1, <3>1 DEF ResultsInv, ChainInv
  <2>4. CASE p.kind = "tools"
    <3>1. results' = results /\ ~Row(p)
      BY <1>1, <2>4 DEF OutcomeStep, CommitChange, Row
    <3>2. ResultInv'
      BY <1>1, <2>1, <3>1 DEF ResultsInv, ResultInv, First, Row, Landed
    <3>3. QED
      BY <2>2, <2>3, <3>2
  <2>5. CASE p.kind # "tools"
    <3>1. results' = NextResults(ch) /\ ch.seq > published
      BY <1>1, <2>1, <2>5 DEF OutcomeStep, CommitChange, BaseInv, TypeInv
    <3>2. ch.known => Row(p) /\ ch = p
      BY <1>1, <2>5 DEF OutcomeStep, Published, Row
    <3>3. Row(p) => First(p)
      BY <1>1, <2>1 DEF First
    <3>4. ASSUME NEW r \in results'
          PROVE  Row(p) /\ r.claim = p.claim /\ r.result = p.result
      <4>1. ~(ch.seq <= published)
        BY <1>1, <2>1, <3>1 DEF BaseInv, TypeInv
      <4>2. ch.known
        BY <3>1, <3>4, <4>1 DEF NextResults
      <4>3. ch = p /\ Row(p) /\ First(p)
        BY <3>2, <3>3, <4>2
      <4>4. CASE ch.hasResult
        BY <3>1, <3>4, <4>1, <4>2, <4>3, <4>4 DEF NextResults
      <4>5. CASE ~ch.hasResult
        <5>1. PICK o \in results : r = [claim |-> ch.claim, result |-> o.result]
          BY <3>1, <3>4, <4>1, <4>2, <4>5 DEF NextResults
        <5>2. p.result = o.result
          BY <1>1, <2>1, <4>3, <4>5 DEF ResultsInv, ResultInv
        <5>3. QED
          BY <4>3, <5>1, <5>2
      <4>6. QED
        BY <4>4, <4>5
    <3>5. ResultInv'
      <4> SUFFICES ASSUME NEW r \in results'
                   PROVE  /\ (\A x \in pending' : ~Row(x)) =>
                               row'.result = r.result /\ row'.claim = r.claim
                          /\ \A x \in pending' :
                               /\ Row(x) /\ ~x.hasResult
                               /\ \A y \in pending' : Row(y) => y.seq >= x.seq
                               => x.result = r.result
        BY DEF ResultInv, First, Row, Landed
      <4>1. ASSUME \A x \in pending' : ~Row(x)
            PROVE  row'.result = r.result /\ row'.claim = r.claim
        <5>1. \A x \in pending : Row(x) => x.seq <= p.seq
          BY <1>1, <4>1
        <5>2. QED
          BY <1>1, <2>1, <3>4, <5>1 DEF ResultsInv, NewestInv
      <4>2. ASSUME NEW x \in pending', Row(x), ~x.hasResult,
                   \A y \in pending' : Row(y) => y.seq >= x.seq
            PROVE  x.result = r.result
        <5>1. x \in pending /\ Adjacent(p, x)
          BY <1>1, <2>1, <3>4, <4>2 DEF Adjacent
        <5>2. QED
          BY <1>1, <2>1, <3>4, <4>2, <5>1 DEF ResultsInv, ChainInv
      <4>3. QED
        BY <4>1, <4>2
    <3>6. QED
      BY <2>2, <2>3, <3>5
  <2>6. QED
    BY <2>4, <2>5
<1>5. QED
  BY <1>3, <1>4 DEF ResultsInv, NewestInv, ChainInv, ResultInv

\* The observer keeps them: it publishes its snapshot only if nothing changed
LEMMA ResultsObserver ==
    ASSUME BaseInv, ResultsInv, ObserverStep
    PROVE  ResultsInv'
<1>1. UNCHANGED <<row, pending, reordered>>
  BY DEF ObserverStep
<1>2. NewestInv' /\ ChainInv'
  BY <1>1 DEF ResultsInv, NewestInv, ChainInv, Adjacent, Row, Landed
<1>3. CASE ObserverReturns
  <2>1. SnapshotInv'
    BY <1>3 DEF ObserverReturns, NoObserver, SnapshotInv
  <2>2. CASE results' = results
    BY <1>1, <1>2, <2>1, <2>2 DEF ResultsInv, ResultInv, First, Row, Landed
  <2>3. CASE results' # results
    <3>1. /\ observer.phase = "read" /\ ObservationHolds
          /\ results' \subseteq observer.snapshot
      BY <1>3, <2>3 DEF ObserverReturns
    <3>2. \A p \in pending : ~Row(p)
      BY <3>1 DEF ObservationHolds, Row
    <3>3. observer.snapshot = {[claim |-> row.claim, result |-> row.result]}
      BY <3>1, <3>2 DEF ObservationHolds, ResultsInv, SnapshotInv
    <3>4. \A r \in results' : row.result = r.result /\ row.claim = r.claim
      BY <3>1, <3>3
    <3>5. ResultInv'
      BY <1>1, <3>2, <3>4 DEF ResultInv, First, Row, Landed
    <3>6. QED
      BY <1>2, <2>1, <3>5 DEF ResultsInv
  <2>4. QED
    BY <2>2, <2>3
<1>4. CASE ObserverReads
  <2>1. observer' = [observer EXCEPT !.phase = "read",
                        !.snapshot = {[claim |-> row.claim, result |-> row.result]}]
    BY <1>4 DEF ObserverReads
  <2>2. observer'.snapshot = {[claim |-> row.claim, result |-> row.result]}
    BY <2>1 DEF BaseInv, TypeInv, ObserverRec
  <2>3. SnapshotInv'
    BY <1>1, <2>2 DEF SnapshotInv
  <2>4. results' = results
    BY <1>4 DEF ObserverReads
  <2>5. QED
    BY <1>1, <1>2, <2>3, <2>4 DEF ResultsInv, ResultInv, First, Row, Landed
<1>5. ASSUME NEW c \in Claims, Observe(c) PROVE ResultsInv'
  <2>1. PICK o : o = NoObserver
    OBVIOUS
  <2>2. observer' = [o EXCEPT !.phase = "reading", !.claim = c, !.published = published]
    BY <1>5, <2>1 DEF Observe
  <2>3. NoObserver \in [phase : {"free"}, claim : {NoClaim}, published : {0},
                        revoked : {FALSE}, snapshot : {{}}]
    BY DEF NoObserver
  <2>4. observer'.phase # "read"
    BY <2>1, <2>2, <2>3
  <2>5. SnapshotInv'
    BY <2>4 DEF SnapshotInv
  <2>6. results' = results
    BY <1>5 DEF Observe
  <2>7. QED
    BY <1>1, <1>2, <2>5, <2>6 DEF ResultsInv, ResultInv, First, Row, Landed
<1>6. QED
  BY <1>3, <1>4, <1>5 DEF ObserverStep

\* Every step keeps them
LEMMA ResultsNext ==
    ASSUME BaseInv, OrderInv, ResultsInv, Classified
    PROVE  ResultsInv'
<1> USE DEF ResultsInv, NewestInv, ChainInv, ResultInv, SnapshotInv, First, Adjacent, Row, Landed
<1>1. ASSUME NEW ch, ClearStep(ch) PROVE ResultsInv'
  <2>1. /\ ch.seq = sequence + 1 /\ ch.known /\ ~ch.hasResult /\ ch.hasPlacement
        /\ ch.claim = NoClaim /\ row'.claim = NoClaim /\ row'.result = row.result
        /\ pending' = pending /\ (~reordered' => ~reordered /\ pending = {})
        /\ results' = NextResults(ch)
        /\ observer' = [observer EXCEPT !.revoked = observer.phase # "free"]
    BY <1>1 DEF ClearStep, CommitChange
  <2>2. sequence \in Nat /\ published \in 0 .. sequence
    BY DEF BaseInv, TypeInv
  <2>3. results' = {[claim |-> ch.claim, result |-> r.result] :
                        r \in {x \in results : OwnsResult(ch.claim, x.result)}}
    BY <2>1, <2>2 DEF NextResults
  <2>4. ResultInv'
    BY <2>1, <2>3
  <2>5. observer'.phase = "read" => observer'.revoked
    BY <2>1 DEF BaseInv, TypeInv, ObserverRec
  <2>6. QED
    BY <2>1, <2>4, <2>5
<1>2. ASSUME NEW r, NEW ch, StageStep(r, ch) PROVE ResultsInv'
  <2>1. /\ pending' = pending \cup {ch} /\ ch.write = "open"
        /\ UNCHANGED <<row, results, observer, reordered>>
    BY <1>2 DEF StageStep, Stage
  <2>2. QED
    BY <2>1
<1>3. ASSUME NEW p, NEW q, UndoStep(p, q) PROVE ResultsInv'
  <2>1. /\ pending' = (pending \ {p}) \cup {q} /\ q.write # "landed" /\ p.write = "open"
        /\ UNCHANGED <<row, results, observer, reordered>>
    BY <1>3 DEF UndoStep, SwapStep, Unsettled
  <2>2. QED
    BY <2>1
<1>4. ASSUME NEW p, RollbackStep(p) PROVE ResultsInv'
  <2>1. /\ pending' = pending \ {p} /\ p.write # "landed"
        /\ UNCHANGED <<row, results, observer>> /\ (~reordered' => ~reordered)
    BY <1>4 DEF RollbackStep
  <2>2. QED
    BY <2>1
<1>5. CASE ReplicaStep \/ \E a \in Authorities : \E n : AuthStep(a, n)
  BY <1>5 DEF ReplicaStep, AuthStep
<1>6. QED
  BY <1>1, <1>2, <1>3, <1>4, <1>5, ResultsLand, ResultsOutcome, ResultsObserver DEF Classified

PublishedInv == BaseInv /\ OrderInv /\ PlacedInv /\ ResultsInv

\* While outcomes arrive in order, custody of the workspace result is given
\* only for the result that is pending in the database under no other turn
\* (readPlacementWorkspaceResultAuthority), and an exact published claim is the
\* one in the database (isPublishedPlacementTurnClaimCurrent), whether a change or
\* a read of the replica put it there (capturePlacementReplicaRead)
THEOREM PublicationSafety == Spec => []PublishedIsSound
<1>1. Init => PublishedInv
  <2> SUFFICES ASSUME Init PROVE PublishedInv
    OBVIOUS
  <2>1. /\ pending = {} /\ placement = {} /\ results = {} /\ observer.phase = "free"
        /\ replica.phase = "free"
    BY DEF Init, NoObserver, NoReplica
  <2>2. QED
    BY <2>1, BaseInit
    DEF PublishedInv, OrderInv, PlacedInv, PlacementInv, PendingInv, ReadInv, ResultsInv,
        NewestInv, ChainInv, ResultInv, SnapshotInv
<1>2. PublishedInv /\ [Next]_vars => PublishedInv'
  <2>1. CASE UNCHANGED vars
    BY <2>1, BaseStutter
    DEF vars, PublishedInv, OrderInv, PlacedInv, PlacementInv, PendingInv, ReadInv, ResultsInv,
        NewestInv, ChainInv, ResultInv, SnapshotInv, First, Adjacent, Row, Landed, Unsettled,
        Taken
  <2>2. QED
    BY <2>1, BaseNext, OrderNext, PlacedNext, ResultsNext DEF PublishedInv
<1>3. PublishedInv => PublishedIsSound
  <2> SUFFICES ASSUME PublishedInv, ~reordered, NEW c \in Claims
               PROVE  /\ ResultAuthority(c) => row.result = c /\ row.claim \in {c, NoClaim}
                      /\ PublishedClaim(c) /\ Exact => row.claim = c
    BY DEF PublishedIsSound
  <2>1. ASSUME ResultAuthority(c) PROVE row.result = c /\ row.claim \in {c, NoClaim}
    <3>1. \A p \in pending : ~Row(p)
      BY <2>1 DEF ResultAuthority, Row
    <3>2. QED
      BY <2>1, <3>1 DEF ResultAuthority, MatchesResult, PublishedInv, ResultsInv, ResultInv
  <2>2. ASSUME PublishedClaim(c), Exact PROVE row.claim = c
    BY <2>2 DEF PublishedClaim, Exact, Allows, PublishedInv, PlacedInv, PlacementInv, Taken
  <2>3. QED
    BY <2>1, <2>2
<1>4. QED
  BY <1>1, <1>2, <1>3, PTL DEF Spec
=============================================================================
