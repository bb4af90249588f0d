------------------------ MODULE WorkerAdmissionProofs ------------------------
(***************************************************************************)
(* For any number of transactions: the decision of a request is final, a   *)
(* COMMIT runs behind its fence, what readers are told is true, and the    *)
(* admission protocol implements CommitPublication.                        *)
(***************************************************************************)
EXTENDS WorkerAdmission, TLAPS

\* Where the worker is tells how many of its transactions have committed and
\* how many of those have a receipt
PhaseInv ==
    /\ txn <= commits + 1
    /\ worker = "ready" => commits = txn /\ receipts = txn
    /\ worker \in {"asking", "entered", "committing", "failed"}
         => commits = txn - 1 /\ receipts = txn - 1
    /\ worker = "landed" => commits = txn /\ receipts = txn - 1
    /\ worker = "uncertain" => receipts = txn - 1

\* The last request was granted
Passed == cell = "granted" /\ stage = "commit"

\* A transaction commits only behind a grant of its commit request
CellInv ==
    /\ txn = 0 => cell = "none"
    /\ worker = "entered" => cell = "granted" /\ stage = "transaction"
    /\ worker \in {"committing", "uncertain"} => Passed
    /\ commits = txn /\ txn > 0 => Passed

\* At most one request is on its way or being decided, and the worker waits
\* for it or has given it up: no older request is decided in its place
RequestInv ==
    /\ host # "idle" => cell \in {"requested", "timedout"}
    /\ \A i \in 1 .. Len(port) : port[i].kind = "request" =>
         /\ host = "idle" /\ cell \in {"requested", "timedout"}
         /\ \A j \in 1 .. Len(port) : port[j].kind = "request" => j = i

\* No message carries a receipt of the future, and a completed settlement
\* carries the last one
PortInv ==
    \A i \in 1 .. Len(port) :
        /\ port[i].kind # "request" => port[i].n <= receipts
        /\ port[i].kind = "completed" => worker = "settled" /\ port[i].n = commits

\* The host ends after the worker
EndInv ==
    /\ closed => host = "idle" /\ Over
    /\ done => closed
    /\ settlement = "completed" => worker = "settled" /\ receipt = commits

\* Publications before the settlement: granted or published exactly for the
\* transactions whose COMMIT was granted, and published only on a receipt
EntryInv ==
    /\ \A t \in Txns : entry[t] = "published" => t <= receipt
    /\ ~done => \A t \in Txns :
         IF t < txn \/ (t = txn /\ Passed) THEN entry[t] \in {"granted", "published"}
                                          ELSE entry[t] \in {"none", "staged"}
    /\ done => CommitIsFenced /\ PublicationIsTrue

IInv == TypeOK /\ PhaseInv /\ CellInv /\ RequestInv /\ PortInv /\ EndInv /\ EntryInv

\* Messages arrive in the order in which they were posted
LEMMA PortFacts ==
    ASSUME TypeOK, port # <<>>
    PROVE  /\ Head(port) \in Messages /\ Head(port) = port[1] /\ 1 \in 1 .. Len(port)
           /\ Tail(port) \in Seq(Messages)
  BY DEF TypeOK

\* A posted message is one more message
LEMMA PostFacts ==
    ASSUME TypeOK, NEW m \in Messages
    PROVE  /\ Append(port, m) \in Seq(Messages)
           /\ Len(Append(port, m)) = Len(port) + 1
           /\ Append(port, m)[Len(port) + 1] = m
           /\ \A i \in 1 .. Len(port) : Append(port, m)[i] = port[i]
  BY DEF TypeOK

\* What is published stays so, and only transactions with a receipt are
LEMMA PublishedFacts ==
    ASSUME TypeOK
    PROVE  /\ DOMAIN Published(entry) = Txns
           /\ \A t \in Txns : Published(entry)[t] = IF t <= receipt THEN "published" ELSE entry[t]
  BY DEF Published

\* The invariant is inductive: one step per action, and under it one per part.
LEMMA InvariantStep == IInv /\ [Next]_vars => IInv'
<1> SUFFICES ASSUME IInv, [Next]_vars PROVE IInv'
  OBVIOUS
<1> USE AdmissionAssumption DEF IInv, Txns
<1>1. CASE BeginTransaction
  <2>1. TypeOK'
    <3>1. [kind |-> "request", n |-> txn'] \in Messages
      BY <1>1 DEF BeginTransaction, Request, TypeOK, PhaseInv, Messages
    <3>2. port' \in Seq(Messages)
      BY <1>1, <3>1, PostFacts DEF BeginTransaction, Request
    <3>3. txn' \in 0 .. MaxTxn /\ commits <= txn'
      BY <1>1 DEF BeginTransaction, TypeOK
    <3> QED BY <1>1, <3>2, <3>3 DEF BeginTransaction, Request, TypeOK, hvars, wvars
  <2>2. PhaseInv'
    BY <1>1 DEF BeginTransaction, Request, TypeOK, PhaseInv
  <2>3. CellInv'
    BY <1>1 DEF BeginTransaction, Request, TypeOK, CellInv
  <2>4. RequestInv'
    BY <1>1 DEF BeginTransaction, Request, TypeOK, RequestInv, CellInv, PhaseInv, Passed,
       EndInv, hvars
  <2>5. PortInv'
    BY <1>1 DEF BeginTransaction, Request, PortInv
  <2>6. EndInv'
    BY <1>1 DEF BeginTransaction, Request, EndInv, Over, hvars
  <2>7. EntryInv'
    BY <1>1 DEF BeginTransaction, Request, TypeOK, EntryInv, CellInv, Passed, PhaseInv,
       EndInv, Over, hvars
  <2> QED
    BY <2>1, <2>2, <2>3, <2>4, <2>5, <2>6, <2>7
<1>2. CASE AskCommit
  <2>1. TypeOK'
    <3>1. [kind |-> "request", n |-> txn'] \in Messages
      BY <1>2 DEF AskCommit, Request, TypeOK, PhaseInv, Messages
    <3>2. port' \in Seq(Messages)
      BY <1>2, <3>1, PostFacts DEF AskCommit, Request
    <3> QED BY <1>2, <3>2 DEF AskCommit, Request, TypeOK, PhaseInv, hvars, wvars
  <2>2. PhaseInv'
    BY <1>2 DEF AskCommit, Request, PhaseInv
  <2>3. CellInv'
    BY <1>2 DEF AskCommit, Request, TypeOK, PhaseInv, CellInv
  <2>4. RequestInv'
    BY <1>2 DEF AskCommit, Request, RequestInv, CellInv, hvars
  <2>5. PortInv'
    BY <1>2 DEF AskCommit, Request, PortInv
  <2>6. EndInv'
    BY <1>2 DEF AskCommit, Request, EndInv, Over, hvars
  <2>7. EntryInv'
    BY <1>2 DEF AskCommit, Request, EntryInv, CellInv, Passed, EndInv, Over, hvars
  <2> QED
    BY <2>1, <2>2, <2>3, <2>4, <2>5, <2>6, <2>7
<1>3. CASE TimeOut
  <2>1. TypeOK'
    BY <1>3 DEF TimeOut, TypeOK, hvars
  <2>2. CellInv'
    BY <1>3 DEF TimeOut, TypeOK, PhaseInv, CellInv
  <2>3. RequestInv'
    BY <1>3 DEF TimeOut, RequestInv, hvars
  <2>4. EntryInv'
    BY <1>3 DEF TimeOut, EntryInv, Passed, EndInv, Over, hvars
  <2>5. PhaseInv' /\ PortInv' /\ EndInv'
    BY <1>3 DEF TimeOut, PhaseInv, PortInv, EndInv, Over, hvars
  <2> QED
    BY <2>1, <2>2, <2>3, <2>4, <2>5
<1>4. CASE Wake
  <2>1. TypeOK'
    BY <1>4 DEF Wake, TypeOK, hvars
  <2>2. PhaseInv'
    BY <1>4 DEF Wake, PhaseInv
  <2>3. CellInv'
    BY <1>4 DEF Wake, Admitted, TypeOK, CellInv, Passed
  <2>4. PortInv'
    BY <1>4 DEF Wake, PortInv
  <2>5. EndInv'
    BY <1>4 DEF Wake, EndInv, Over, hvars
  <2>6. RequestInv' /\ EntryInv'
    BY <1>4 DEF Wake, RequestInv, EntryInv, Passed, CommitIsFenced, PublicationIsTrue, hvars
  <2> QED
    BY <2>1, <2>2, <2>3, <2>4, <2>5, <2>6
<1>5. CASE Abort
  <2>1. TypeOK'
    BY <1>5 DEF Abort, TypeOK, hvars
  <2>2. PhaseInv'
    BY <1>5 DEF Abort, PhaseInv
  <2>3. CellInv'
    BY <1>5 DEF Abort, TypeOK, PhaseInv, CellInv
  <2>4. PortInv'
    BY <1>5 DEF Abort, PortInv
  <2>5. EndInv'
    BY <1>5 DEF Abort, EndInv, Over, hvars
  <2>6. RequestInv' /\ EntryInv'
    BY <1>5 DEF Abort, RequestInv, EntryInv, Passed, CommitIsFenced, PublicationIsTrue,
       hvars
  <2> QED
    BY <2>1, <2>2, <2>3, <2>4, <2>5, <2>6
<1>6. CASE NativeCommit
  <2>1. TypeOK'
    BY <1>6 DEF NativeCommit, TypeOK, PhaseInv, hvars
  <2>2. PhaseInv'
    BY <1>6 DEF NativeCommit, TypeOK, PhaseInv
  <2>3. CellInv'
    BY <1>6 DEF NativeCommit, CellInv, Passed
  <2>4. PortInv'
    BY <1>6 DEF NativeCommit, PortInv
  <2>5. EndInv'
    BY <1>6 DEF NativeCommit, EndInv, Over, hvars
  <2>6. EntryInv'
    BY <1>6 DEF NativeCommit, EntryInv, Passed, EndInv, Over, hvars
  <2>7. RequestInv'
    BY <1>6 DEF NativeCommit, RequestInv, hvars
  <2> QED
    BY <2>1, <2>2, <2>3, <2>4, <2>5, <2>6, <2>7
<1>7. CASE PostReceipt
  <2>1. TypeOK'
    <3>1. [kind |-> "commit", n |-> receipts'] \in Messages
      BY <1>7 DEF PostReceipt, TypeOK, PhaseInv, Messages
    <3>2. port' \in Seq(Messages)
      BY <1>7, <3>1, PostFacts DEF PostReceipt
    <3> QED BY <1>7, <3>2 DEF PostReceipt, TypeOK, PhaseInv, hvars, wvars
  <2>2. PhaseInv'
    BY <1>7 DEF PostReceipt, TypeOK, PhaseInv
  <2>3. CellInv'
    BY <1>7 DEF PostReceipt, CellInv, Passed
  <2>4. RequestInv'
    BY <1>7 DEF PostReceipt, RequestInv, EndInv, hvars
  <2>5. PortInv'
    <3> DEFINE m == [kind |-> "commit", n |-> receipts']
    <3>1. m \in Messages /\ port' = Append(port, m)
      BY <1>7 DEF PostReceipt, TypeOK, Messages
    <3> HIDE DEF m
    <3>2. \A i \in 1 .. Len(port') : port'[i] = m \/ (i \in 1 .. Len(port) /\ port'[i] = port[i])
      BY <3>1, PostFacts DEF TypeOK
    <3>3. m.kind = "commit" /\ m.n = receipts' /\ receipts' = receipts + 1
      BY <1>7 DEF PostReceipt, m
    <3>4. \A i \in 1 .. Len(port) : port[i] \in Messages
      BY DEF TypeOK
    <3> QED BY <1>7, <3>2, <3>3, <3>4 DEF PostReceipt, TypeOK, PortInv, Messages
  <2>6. EndInv'
    BY <1>7 DEF PostReceipt, EndInv, Over, hvars
  <2>7. EntryInv'
    BY <1>7 DEF PostReceipt, EntryInv, Passed, CommitIsFenced, PublicationIsTrue, hvars
  <2> QED
    BY <2>1, <2>2, <2>3, <2>4, <2>5, <2>6, <2>7
<1>8. CASE Settle
  <2>1. TypeOK'
    <3>1. PICK kind \in SettlementKinds : port' = Append(port, [kind |-> kind, n |-> receipts])
      BY <1>8 DEF Settle
    <3>2. [kind |-> kind, n |-> receipts] \in Messages
      BY DEF SettlementKinds, TypeOK, Messages
    <3>3. port' \in Seq(Messages)
      BY <3>1, <3>2, PostFacts
    <3> QED BY <1>8, <3>3 DEF Settle, TypeOK, hvars
  <2>2. PhaseInv'
    BY <1>8 DEF Settle, PhaseInv
  <2>3. CellInv'
    BY <1>8 DEF Settle, CellInv, Passed
  <2>4. RequestInv'
    BY <1>8 DEF Settle, SettlementKinds, RequestInv, hvars
  <2>5. PortInv'
    BY <1>8 DEF Settle, SettlementKinds, TypeOK, PortInv, PhaseInv
  <2>6. EndInv'
    BY <1>8 DEF Settle, EndInv, Over, hvars
  <2>7. EntryInv'
    BY <1>8 DEF Settle, EntryInv, Passed, CommitIsFenced, PublicationIsTrue, hvars
  <2> QED
    BY <2>1, <2>2, <2>3, <2>4, <2>5, <2>6, <2>7
<1>9. CASE ReceiveRequest
  <2>1. TypeOK'
    BY <1>9 DEF ReceiveRequest, Receive, Expire, Refuse, RecordFailure, TypeOK
  <2>2. CellInv'
    BY <1>9 DEF ReceiveRequest, Expire, Refuse, CellInv, Passed
  <2>3. RequestInv'
    BY <1>9 DEF ReceiveRequest, Receive, RequestInv
  <2>4. PortInv'
    BY <1>9 DEF ReceiveRequest, Receive, PortInv
  <2>5. EndInv'
    BY <1>9 DEF ReceiveRequest, EndInv, Over
  <2>6. EntryInv'
    BY <1>9 DEF ReceiveRequest, Expire, Refuse, EntryInv, Passed, CommitIsFenced,
       PublicationIsTrue
  <2>7. PhaseInv'
    BY <1>9 DEF ReceiveRequest, PhaseInv
  <2> QED
    BY <2>1, <2>2, <2>3, <2>4, <2>5, <2>6, <2>7
<1>10. CASE ReceiveReceipt
  <2>1. TypeOK'
    <3>1. receipt' \in {receipt, Head(port).n} /\ receipt' >= receipt
      BY <1>10, PortFacts DEF ReceiveReceipt, Receive, RecordFailure, Installed, TypeOK,
         Messages
    <3>2. Head(port).n <= receipts /\ Head(port).n \in Nat
      BY <1>10, PortFacts DEF ReceiveReceipt, Receive, RecordFailure, PortInv, Messages
    <3> QED BY <1>10, <3>1, <3>2, PortFacts DEF ReceiveReceipt, Receive, RecordFailure,
       TypeOK, wvars
  <2>2. RequestInv'
    BY <1>10 DEF ReceiveReceipt, Receive, RequestInv, wvars
  <2>3. PortInv'
    BY <1>10 DEF ReceiveReceipt, Receive, PortInv, wvars
  <2>4. EndInv'
    BY <1>10 DEF ReceiveReceipt, Installed, EndInv, Over, wvars
  <2>5. EntryInv'
    <3>1. receipt' >= receipt /\ receipt' \in Nat
      BY <1>10, PortFacts DEF ReceiveReceipt, Receive, RecordFailure, Installed, TypeOK,
         Messages
    <3> QED BY <1>10, <3>1 DEF ReceiveReceipt, Receive, RecordFailure, TypeOK, EntryInv,
       Passed, CommitIsFenced, PublicationIsTrue, wvars
  <2>6. PhaseInv' /\ CellInv'
    BY <1>10 DEF ReceiveReceipt, PhaseInv, CellInv, Passed, wvars
  <2> QED
    BY <2>1, <2>2, <2>3, <2>4, <2>5, <2>6
<1>11. CASE ReceiveSettlement
  <2>1. TypeOK'
    <3>1. receipt' \in {receipt, Head(port).n} /\ receipt' >= receipt
      BY <1>11, PortFacts DEF ReceiveSettlement, Receive, Installed, TypeOK, Messages
    <3>2. Head(port).n <= receipts /\ Head(port).n \in Nat
      BY <1>11, PortFacts DEF ReceiveSettlement, Receive, PortInv, Messages
    <3> QED BY <1>11, <3>1, <3>2, PortFacts DEF ReceiveSettlement, Receive, TypeOK, wvars
  <2>2. RequestInv'
    BY <1>11 DEF ReceiveSettlement, Receive, RequestInv, wvars
  <2>3. PortInv'
    BY <1>11 DEF ReceiveSettlement, Receive, PortInv, wvars
  <2>4. EndInv'
    <3>1. Head(port).kind = "completed" => worker = "settled" /\ Head(port).n = commits
      BY <1>11, PortFacts DEF ReceiveSettlement, Receive, PortInv
    <3>2. Head(port).kind = "completed" => receipt' = commits
      BY <3>1, <1>11, PortFacts DEF ReceiveSettlement, Receive, Installed, TypeOK, Messages
    <3> QED BY <1>11, <3>1, <3>2 DEF ReceiveSettlement, Receive, EndInv, Over, wvars
  <2>5. EntryInv'
    <3>1. receipt' >= receipt /\ receipt' \in Nat
      BY <1>11, PortFacts DEF ReceiveSettlement, Receive, Installed, TypeOK, Messages
    <3> QED BY <1>11, <3>1 DEF ReceiveSettlement, Receive, TypeOK, EntryInv, Passed,
       CommitIsFenced, PublicationIsTrue, wvars
  <2>6. PhaseInv' /\ CellInv'
    BY <1>11 DEF ReceiveSettlement, PhaseInv, CellInv, Passed, wvars
  <2> QED
    BY <2>1, <2>2, <2>3, <2>4, <2>5, <2>6
<1>12. CASE Deny
  <2>1. TypeOK'
    BY <1>12 DEF Deny, Refuse, RecordFailure, Published, TypeOK
  <2>2. CellInv'
    BY <1>12 DEF Deny, Refuse, CellInv, Passed
  <2>3. RequestInv'
    BY <1>12 DEF Deny, RequestInv
  <2>4. EndInv'
    BY <1>12 DEF Deny, EndInv
  <2>5. EntryInv'
    <3>1. ~done /\ ~Passed /\ ~Passed'
      BY <1>12 DEF Deny, EndInv, RequestInv, Passed, Refuse
    <3>2. receipt <= txn /\ (receipt = txn => txn = 0)
      BY <3>1 DEF TypeOK, CellInv
    <3> QED BY <1>12, <3>1, <3>2, PublishedFacts DEF Deny, TypeOK, EntryInv
  <2>6. PhaseInv' /\ PortInv'
    BY <1>12 DEF Deny, PhaseInv, PortInv
  <2> QED
    BY <2>1, <2>2, <2>3, <2>4, <2>5, <2>6
<1>13. CASE StagePublication
  <2>1. TypeOK'
    <3>1. Published(entry) \in [Txns -> {"none", "staged", "granted", "published", "reconciled",
                                      "invalidated", "dropped"}]
      BY DEF TypeOK, Published
    <3>2. entry' \in [Txns -> {"none", "staged", "granted", "published", "reconciled",
                              "invalidated", "dropped"}]
      BY <1>13, <3>1 DEF StagePublication, Staged
    <3> QED BY <1>13, <3>2 DEF StagePublication, TypeOK, wvars
  <2>2. RequestInv'
    BY <1>13 DEF StagePublication, RequestInv, wvars
  <2>3. EndInv'
    BY <1>13 DEF StagePublication, EndInv, wvars
  <2>4. EntryInv'
    <3>1. ~done /\ ~Passed /\ ~Passed'
      BY <1>13 DEF StagePublication, EndInv, RequestInv, Passed, wvars
    <3>2. receipt <= txn /\ (receipt = txn => txn = 0) /\ receipt \in Nat /\ txn \in Nat
      BY <3>1 DEF TypeOK, CellInv
    <3>3. \A t \in Txns : \/ entry'[t] = Published(entry)[t]
                          \/ t = txn /\ entry'[t] = "staged"
      BY <1>13, PublishedFacts DEF StagePublication, Staged
    <3> QED BY <1>13, <3>1, <3>2, <3>3, PublishedFacts DEF StagePublication, EntryInv, wvars
  <2>5. PhaseInv' /\ CellInv' /\ PortInv'
    BY <1>13 DEF StagePublication, PhaseInv, CellInv, PortInv, Passed, wvars
  <2> QED
    BY <2>1, <2>2, <2>3, <2>4, <2>5
<1>14. CASE Grant
  <2>1. TypeOK'
    BY <1>14 DEF Grant, Expire, Refuse, RecordFailure, TypeOK
  <2>2. CellInv'
    BY <1>14 DEF Grant, MayGrant, Expire, Refuse, CellInv, Passed
  <2>3. RequestInv'
    BY <1>14 DEF Grant, RequestInv
  <2>4. EndInv'
    BY <1>14 DEF Grant, EndInv
  <2>5. EntryInv'
    BY <1>14 DEF Grant, Expire, Refuse, TypeOK, EntryInv, Passed, EndInv
  <2>6. PhaseInv' /\ PortInv'
    BY <1>14 DEF Grant, PhaseInv, PortInv
  <2> QED
    BY <2>1, <2>2, <2>3, <2>4, <2>5, <2>6
<1>15. CASE Finish
  <2>1. TypeOK'
    BY <1>15 DEF Finish, TypeOK, wvars
  <2>2. EndInv'
    BY <1>15 DEF Finish, EndInv, Over, wvars
  <2>3. PhaseInv' /\ CellInv' /\ RequestInv' /\ PortInv' /\ EntryInv'
    BY <1>15 DEF Finish, PhaseInv, CellInv, RequestInv, PortInv, EntryInv, Passed,
       CommitIsFenced, PublicationIsTrue, wvars
  <2> QED
    BY <2>1, <2>2, <2>3
<1>16. CASE SettlePublications
  <2>1. TypeOK'
    BY <1>16 DEF SettlePublications, Outcome, Published, TypeOK, wvars
  <2>2. EndInv'
    BY <1>16 DEF SettlePublications, EndInv, Over, wvars
  <2>3. EntryInv'
    <3>1. ~done /\ done' /\ UNCHANGED <<commits, txn, receipt, settlement>>
      BY <1>16 DEF SettlePublications, wvars
    <3>2. \A t \in Txns : entry'[t] = Outcome(Published(entry)[t])
      BY <1>16 DEF SettlePublications
    <3>3. \A t \in Txns : t <= commits =>
            /\ entry[t] \in {"granted", "published"}
            /\ entry'[t] \in {"published", "invalidated"}
      BY <3>1, <3>2, PublishedFacts DEF EntryInv, CellInv, TypeOK, Outcome, Known, EndInv
    <3>4. \A t \in Txns : entry'[t] = "published" => t <= receipt
      BY <3>2, PublishedFacts DEF EntryInv, Outcome
    <3>5. receipt <= commits /\ receipt \in Nat /\ commits \in Nat
      BY DEF TypeOK
    <3> QED BY <3>1, <3>3, <3>4, <3>5 DEF EntryInv, CommitIsFenced, PublicationIsTrue
  <2>4. PhaseInv' /\ CellInv' /\ RequestInv' /\ PortInv'
    BY <1>16 DEF SettlePublications, PhaseInv, CellInv, RequestInv, PortInv, Passed, wvars
  <2> QED
    BY <2>1, <2>2, <2>3, <2>4
<1>17. CASE DeadlinePasses
  <2>1. TypeOK'
    BY <1>17 DEF DeadlinePasses, TypeOK, hvars
  <2>2. PhaseInv' /\ CellInv' /\ RequestInv' /\ PortInv' /\ EndInv' /\ EntryInv'
    BY <1>17 DEF DeadlinePasses, PhaseInv, CellInv, RequestInv, PortInv, EndInv, EntryInv,
       Over, Passed, CommitIsFenced, PublicationIsTrue, hvars
  <2> QED
    BY <2>1, <2>2
<1>18. CASE Die
  <2>1. TypeOK'
    BY <1>18 DEF Die, TypeOK, hvars
  <2>2. PhaseInv'
    BY <1>18 DEF Die, PhaseInv
  <2>3. CellInv'
    BY <1>18 DEF Die, CellInv, Passed
  <2>4. PortInv'
    BY <1>18 DEF Die, PortInv
  <2>5. EndInv'
    BY <1>18 DEF Die, EndInv, Over, hvars
  <2>6. RequestInv' /\ EntryInv'
    BY <1>18 DEF Die, RequestInv, EntryInv, Passed, CommitIsFenced, PublicationIsTrue, hvars
  <2> QED
    BY <2>1, <2>2, <2>3, <2>4, <2>5, <2>6
<1>19. CASE UNCHANGED vars
  BY <1>19 DEF vars, wvars, hvars, TypeOK, PhaseInv, CellInv, RequestInv, PortInv, EndInv,
     EntryInv,
     Passed, Over, CommitIsFenced, PublicationIsTrue
<1> QED
  BY <1>1, <1>2, <1>3, <1>4, <1>5, <1>6, <1>7, <1>8, <1>9, <1>10, <1>11, <1>12, <1>13, <1>14,
     <1>15, <1>16, <1>17, <1>18, <1>19 DEF Next, WorkerNext, HostNext

\* The invariant holds initially
LEMMA InvariantInit == Init => IInv
<1> SUFFICES ASSUME Init PROVE IInv
  OBVIOUS
<1> USE AdmissionAssumption DEF Init, Txns
<1>1. TypeOK
  <2>1. port \in Seq(Messages)
    OBVIOUS
  <2>2. entry \in [Txns -> {"none", "staged", "granted", "published", "reconciled",
                           "invalidated", "dropped"}]
    OBVIOUS
  <2>3. /\ worker \in {"ready", "asking", "entered", "committing", "landed", "uncertain",
                      "failed", "settled", "dead"}
        /\ stage \in {"transaction", "commit"}
        /\ cell \in {"none", "requested", "granted", "refused", "timedout"}
        /\ host \in {"idle", "admitting", "granting"}
        /\ settlement \in {"none", "completed", "unknown"}
        /\ failure \in {"none", "authority", "domain", "protocol"}
    OBVIOUS
  <2>4. late \in BOOLEAN /\ closed \in BOOLEAN /\ done \in BOOLEAN
    OBVIOUS
  <2>5. /\ txn \in 0 .. MaxTxn /\ receipt \in Nat /\ receipts \in Nat /\ commits \in Nat
        /\ receipt <= receipts /\ receipts <= commits /\ commits <= txn
    OBVIOUS
  <2> HIDE DEF Init, Txns
  <2> QED
    BY <2>1, <2>2, <2>3, <2>4, <2>5 DEF TypeOK
<1>2. PhaseInv /\ CellInv
  BY DEF PhaseInv, CellInv
<1>3. RequestInv /\ PortInv
  BY DEF RequestInv, PortInv
<1>4. EndInv /\ EntryInv
  BY DEF EndInv, EntryInv, Over, Passed
<1> QED
  BY <1>1, <1>2, <1>3, <1>4 DEF IInv

\* The inductive invariant is an invariant of the specification
LEMMA Invariance == Spec => []IInv
<1>1. Init => IInv
  BY InvariantInit
<1>2. IInv /\ [Next]_vars => IInv'
  BY InvariantStep
<1> QED
  BY <1>1, <1>2, PTL DEF Spec

\* The invariant implies the properties of the runs
LEMMA InvariantImplies ==
    IInv => CommitIsFenced /\ PublicationIsTrue /\ SettlementIsComplete
<1> SUFFICES ASSUME IInv PROVE CommitIsFenced /\ PublicationIsTrue /\ SettlementIsComplete
  OBVIOUS
<1> USE DEF IInv, Txns
<1>1. CommitIsFenced
  BY DEF CommitIsFenced, TypeOK, CellInv, EntryInv
<1>2. PublicationIsTrue
  BY DEF PublicationIsTrue, TypeOK, EntryInv
<1>3. SettlementIsComplete
  BY DEF SettlementIsComplete, EndInv
<1> QED
  BY <1>1, <1>2, <1>3

\* Every reachable state is well typed, in particular no receipt is ahead of
\* its COMMIT, for any number of transactions (deferSqliteWorkerNativeCommitReceipt,
\* installCommitted).
THEOREM AdmissionTypes == Spec => []TypeOK
  BY Invariance, PTL DEF IInv

\* For any number of transactions, whatever the worker does and wherever it
\* dies: a COMMIT runs behind its fence, what the owner publishes or takes
\* back is true, and a completed settlement accounts for every COMMIT
\* (publishCommitted, publicationSettled, waitForSettlement).
THEOREM AdmissionSafety ==
    Spec => [](CommitIsFenced /\ PublicationIsTrue /\ SettlementIsComplete)
  BY Invariance, InvariantImplies, PTL

\* No step changes a decision that host or worker has made, by any of the
\* paths that write the cell (refuse, expired, grant, the waiting worker).
THEOREM AdmissionDecisionIsFinal == Spec => DecisionIsFinal
<1>1. IInv /\ [Next]_vars
        => [(cell \in {"granted", "refused", "timedout"}) => (cell' \in {cell, "requested"})]_vars
  <2> SUFFICES ASSUME IInv, [Next]_vars,
                      cell \in {"granted", "refused", "timedout"}
               PROVE  cell' \in {cell, "requested"}
    OBVIOUS
  <2>1. CASE WorkerNext
    BY <2>1 DEF WorkerNext, BeginTransaction, AskCommit, Request, TimeOut, Wake, Abort,
                NativeCommit, PostReceipt, Settle
  <2>2. CASE HostNext
    BY <2>2 DEF HostNext, ReceiveRequest, ReceiveReceipt, ReceiveSettlement, Deny,
                StagePublication, Grant, Finish, SettlePublications, Refuse, Expire, MayGrant, wvars
  <2>3. CASE DeadlinePasses \/ Die
    BY <2>3 DEF DeadlinePasses, Die
  <2>4. CASE UNCHANGED vars
    BY <2>4 DEF vars, wvars
  <2> QED
    BY <2>1, <2>2, <2>3, <2>4 DEF Next
<1> QED
  BY <1>1, Invariance, PTL DEF Spec, DecisionIsFinal

-----------------------------------------------------------------------------
(* Refinement.                                                             *)

View == [t \in Txns |-> ViewOf(entry[t])]

\* A step that leaves database, publications and the end of the worker alone
\* is a stuttering step
LEMMA Stutter ==
    ASSUME commits' = commits, entry' = entry, Over' = Over
    PROVE  UNCHANGED <<commits, View, Over>>
  BY DEF View, ViewOf

\* A step of the publications is a step of readers' views
LEMMA ShowStep ==
    ASSUME IInv, IInv', commits' = commits, Over' = Over,
           \A t \in Txns : Publication!MayShow(t, View'[t])
    PROVE  Publication!Show
<1>1. View' \in [1 .. MaxTxn -> Publication!Views]
  BY DEF IInv, TypeOK, View, ViewOf, Txns, Publication!Views
<1> QED
  BY <1>1 DEF Publication!Show, View, Txns

\* Every step of the protocol is one of the abstract specification
LEMMA RefinementStep ==
    IInv /\ IInv' /\ [Next]_vars => [Publication!Next]_<<commits, View, Over>>
<1> SUFFICES ASSUME IInv, IInv', [Next]_vars
             PROVE  [Publication!Next]_<<commits, View, Over>>
  OBVIOUS
<1> USE AdmissionAssumption DEF Txns
<1>1. CASE BeginTransaction \/ AskCommit \/ TimeOut \/ Wake \/ Abort \/ PostReceipt
  BY <1>1, Stutter DEF BeginTransaction, AskCommit, Request, TimeOut, Wake, Abort, PostReceipt,
                       Over, hvars
<1>2. CASE NativeCommit
  <2>1. CASE commits' = commits
    BY <1>2, <2>1, Stutter DEF NativeCommit, Over, hvars
  <2>2. CASE commits' = commits + 1
    <3>1. ~Over /\ Over' = Over /\ entry' = entry
      BY <1>2 DEF NativeCommit, Over, hvars
    <3>2. commits + 1 \in Txns /\ commits \in Nat /\ commits + 1 = txn
      BY <1>2, <2>2 DEF NativeCommit, IInv, TypeOK, PhaseInv
    <3>3. entry[txn] \in {"granted", "published"}
      BY <1>2, <3>1, <3>2 DEF NativeCommit, IInv, CellInv, EntryInv, EndInv
    <3>4. entry[txn] # "published"
      BY <3>2 DEF IInv, TypeOK, EntryInv
    <3>5. View[commits + 1] = "fenced"
      BY <3>2, <3>3, <3>4 DEF View, ViewOf
    <3>6. View' = View
      BY <3>1 DEF View, ViewOf
    <3> QED
      BY <2>2, <3>1, <3>2, <3>5, <3>6 DEF Publication!Next, Publication!Commit, View
  <2> QED
    BY <1>2, <2>1, <2>2 DEF NativeCommit
<1>3. CASE Settle \/ Die
  <2>1. Over' = TRUE /\ commits' = commits /\ entry' = entry
    BY <1>3 DEF Settle, Die, Over, hvars
  <2>2. View' = View
    BY <2>1 DEF View, ViewOf
  <2> QED
    BY <2>1, <2>2 DEF Publication!Next, Publication!Stop, View
<1>4. CASE ReceiveRequest \/ ReceiveReceipt \/ ReceiveSettlement \/ Finish \/ DeadlinePasses
  BY <1>4, Stutter DEF ReceiveRequest, ReceiveReceipt, ReceiveSettlement, Finish,
     DeadlinePasses,
                       Over, hvars, wvars
<1>5. CASE Deny \/ StagePublication
  <2>1. ~done /\ ~Passed /\ commits' = commits /\ Over' = Over
    BY <1>5 DEF Deny, StagePublication, IInv, EndInv, RequestInv, Passed, Over, wvars
  <2>2. commits \in Nat /\ txn \in Nat /\ receipt \in Nat /\ receipt <= commits
        /\ (txn > 0 => commits < txn)
        /\ commits <= txn
    BY <2>1 DEF IInv, TypeOK, CellInv
  <2>3. \A t \in Txns : \/ entry'[t] = entry[t]
                        \/ t <= receipt /\ entry'[t] = "published"
                        \/ t = txn /\ entry'[t] = "staged"
    BY <1>5, PublishedFacts DEF Deny, StagePublication, Staged, IInv
  <2>4. \A t \in Txns : /\ t < txn => entry[t] \in {"granted", "published"}
                        /\ t = txn => entry[t] \in {"none", "staged"}
    BY <2>1, <2>2 DEF IInv, EntryInv
  <2>5. ASSUME NEW t \in Txns PROVE Publication!MayShow(t, View'[t])
    BY <2>1, <2>2, <2>3, <2>4 DEF View, ViewOf, Publication!MayShow
  <2> QED
    BY <2>1, <2>5, ShowStep DEF Publication!Next
<1>6. CASE Grant
  <2>1. ~done /\ ~Passed /\ commits' = commits /\ Over' = Over
    BY <1>6 DEF Grant, IInv, EndInv, RequestInv, Passed, Over
  <2>2. commits \in Nat /\ txn \in Nat /\ (txn > 0 => commits < txn)
    BY <2>1 DEF IInv, TypeOK, CellInv
  <2>3. \A t \in Txns : entry'[t] = entry[t] \/ (t = txn /\ entry'[t] = "granted")
    BY <1>6 DEF Grant, IInv, TypeOK
  <2>4. \A t \in Txns : t = txn => entry[t] \in {"none", "staged"}
    BY <2>1, <2>2 DEF IInv, EntryInv
  <2>5. ASSUME NEW t \in Txns PROVE Publication!MayShow(t, View'[t])
    BY <2>1, <2>2, <2>3, <2>4 DEF View, ViewOf, Publication!MayShow
  <2> QED
    BY <2>1, <2>5, ShowStep DEF Publication!Next
<1>7. CASE SettlePublications
  <2>1. Over /\ commits' = commits /\ Over' = Over /\ done'
    BY <1>7 DEF SettlePublications, IInv, EndInv, Over, wvars
  <2>2. \A t \in Txns : entry'[t] = Outcome(Published(entry)[t])
    BY <1>7 DEF SettlePublications
  <2>3. \A t \in Txns : entry[t] \in {"none", "staged", "granted", "published"}
    BY <1>7 DEF SettlePublications, IInv, EntryInv
  <2>4. \A t \in Txns : \/ entry'[t] = entry[t]
                        \/ /\ entry[t] \in {"none", "staged", "granted"} /\ t <= receipt
                           /\ entry'[t] = "published"
                        \/ /\ entry[t] \in {"staged", "granted"}
                           /\ entry'[t] \in {"dropped", "reconciled", "invalidated"}
    BY <2>2, <2>3, PublishedFacts DEF Outcome, IInv
  <2>5. \A t \in Txns : t <= receipt => entry[t] \in {"granted", "published"} /\ t <= commits
    BY <1>7 DEF SettlePublications, IInv, TypeOK, EntryInv, CellInv
  <2>6. \A t \in Txns : entry'[t] \in {"dropped", "reconciled"} => t > commits
    BY <2>1, InvariantImplies DEF IInv, TypeOK, EntryInv, PublicationIsTrue
  <2>7. ASSUME NEW t \in Txns PROVE Publication!MayShow(t, View'[t])
    BY <2>1, <2>3, <2>4, <2>5, <2>6 DEF View, ViewOf, Publication!MayShow
  <2> QED
    BY <2>1, <2>7, ShowStep DEF Publication!Next
<1>8. CASE UNCHANGED vars
  BY <1>8, Stutter DEF vars, wvars, hvars, Over
<1> QED
  BY <1>1, <1>2, <1>3, <1>4, <1>5, <1>6, <1>7, <1>8 DEF Next, WorkerNext, HostNext

\* The admission protocol implements the abstract publication of commits, for
\* any number of transactions: the steps of createSqliteWorkerOperationAdmission,
\* of its worker and of the profile writer are steps of CommitPublication or
\* leave it alone.
THEOREM AdmissionImplementsPublication == Spec => ImplementsPublication
<1>1. Init => Publication!Init
  BY AdmissionAssumption DEF Init, Publication!Init, ViewOf, Over, Txns
<1>2. IInv /\ IInv' /\ [Next]_vars => [Publication!Next]_<<commits, View, Over>>
  BY RefinementStep
<1> QED
  BY <1>1, <1>2, Invariance, PTL DEF Spec, ImplementsPublication, Publication!Spec, View
=============================================================================
