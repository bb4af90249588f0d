-------------------------- MODULE MCTurnAuthority --------------------------
(* TurnAuthority with two turn claims and one prepared authority.          *)
EXTENDS TurnAuthority, TLC

Symmetry == Permutations(Claims)
=============================================================================
