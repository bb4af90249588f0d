---------------------------- MODULE MCStateLease ----------------------------
(* StateLease on three competing invocations and a lease of two clock      *)
(* units.                                                                  *)
EXTENDS StateLease, TLC

Symmetry == Permutations(Owners)
=============================================================================
