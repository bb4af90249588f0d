------------------------------ MODULE DraftState ------------------------------
(***************************************************************************)
(* The state of createDraftStreamLoop (src/src/channels/                   *)
(* draft-stream-loop.ts), and what holds of it at every moment.            *)
(* DraftStream.tla has the operations.                                     *)
(*                                                                         *)
(* A draft is the number of the update that brought it, so a larger number *)
(* is a newer draft.  An element of Flushes is one running call of flush.  *)
(***************************************************************************)
EXTENDS Integers

CONSTANTS
    Flushes,      \* the calls of flush that can run at the same time
    NoFlush,      \* inFlightPromise is undefined
    MaxUpdates,   \* bound on the calls of update with text
    Coalesce,     \* the values of params.coalesceInFlight to consider
    JobsBetween   \* may other promise jobs run between the callback of
                  \* finally and the continuation of "await current"?

ASSUME DraftAssumption ==
    NoFlush \notin Flushes /\ MaxUpdates \in Nat /\ Coalesce \subseteq BOOLEAN
        /\ JobsBetween \in BOOLEAN

VARIABLES
    coalesce,  \* params.coalesceInFlight of this loop
    pending,   \* pendingValue
    timer,     \* a timer is set
    elapsed,   \* Date.now() - lastSentAt >= throttleMs
    inFlight,  \* the flush whose send is inFlightPromise
    flush,     \* the running calls of flush
    stopped,   \* params.isStopped()
    accepted,  \* number of updates with text so far
    handed,    \* ghost: the newest draft handed to the send callback
    owed       \* ghost: what became of pending if it came from update

Empty == 0                  \* emptyValue
Blank == MaxUpdates + 1     \* text of blanks only: non-empty, yet isEmpty

\* due: the loop owes the draft its send; failed: given up when a rejection was
\* reported; cancelled: the owner cancelled its timer; stranded: given up in
\* silence; none: sent, replaced or dropped, or it was itself a failed attempt
Debts == {"none", "due", "failed", "cancelled", "stranded"}

\* Every variable keeps its type
DraftOK ==
    /\ pending \in 0 .. Blank
    /\ coalesce \in Coalesce
    /\ timer \in BOOLEAN /\ elapsed \in BOOLEAN /\ stopped \in BOOLEAN /\ owed \in Debts
    /\ inFlight \in Flushes \cup {NoFlush}
    /\ flush \in [Flushes -> [pc : {"idle", "sending", "settled", "waiting", "woken"},
                              background : BOOLEAN, value : 0 .. MaxUpdates,
                              on : Flushes \cup {NoFlush},
                              out : {"none", "sent", "false", "rejected"}]]
    /\ accepted \in 0 .. MaxUpdates /\ handed \in 0 .. MaxUpdates

\* However calls of update, flush, the timer and the promise jobs interleave,
\* the channel never has two edits of the message outstanding, and
\* inFlightPromise is exactly the outstanding one (draft-stream-loop.ts 53-74);
\* the state is well typed
OneEditOutstanding ==
    /\ DraftOK
    /\ \A f \in Flushes : flush[f].pc = "sending" <=> inFlight = f
===============================================================================
