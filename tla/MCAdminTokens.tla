--------------------------- MODULE MCAdminTokens ---------------------------
(* Instances of AdminTokens for TLC.                                       *)
EXTENDS AdminTokens, TLC

CONSTANTS n1, n2

NodeSymmetry == Permutations(Nodes)
=============================================================================
