---------------------------- MODULE MCPriceLevel ----------------------------
(* Four nodes on two levels: a node may leave from the front, the middle or
   the back of a list of three.                                            *)
EXTENDS PriceLevel

CONSTANTS n1, n2, n3, n4, l1, l2

Symmetry == Permutations(Nodes) \cup Permutations(PriceLevels)
=============================================================================
