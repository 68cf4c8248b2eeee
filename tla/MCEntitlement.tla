---------------------------- MODULE MCEntitlement ----------------------------
(***************************************************************************)
(* Every license starts with every code, one more than a page: goroutines, *)
(* licenses and codes are interchangeable.                                 *)
(***************************************************************************)
EXTENDS EntitlementCache, TLC

AllCodes == [l \in Licenses |-> Codes]

Symmetry == Permutations(Workers) \union Permutations(Licenses) \union Permutations(Codes)
=============================================================================
