---------------------------- MODULE MCDraftStream ----------------------------
(* DraftStream with three concurrent calls of flush and a few updates.     *)
EXTENDS DraftStream
=============================================================================
