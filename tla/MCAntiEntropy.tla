--------------------------- MODULE MCAntiEntropy ---------------------------
(* Model-checking instances of AntiEntropy. *)
EXTENDS AntiEntropy, TLC

Symmetry == Permutations(Nodes) \cup Permutations(Ids)
=============================================================================
