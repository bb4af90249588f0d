--------------------------- MODULE MCDeliveryQueue ---------------------------
EXTENDS DeliveryQueue, TLC

Symmetry == Permutations(Procs)
=============================================================================
