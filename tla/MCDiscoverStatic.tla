--------------------------- MODULE MCDiscoverStatic ---------------------------
(***************************************************************************)
(* Instances of DiscoverStatic.                                            *)
(***************************************************************************)
EXTENDS DiscoverStatic, TLC

CONSTANTS n1, n2, e1, i1, g1

\* n2 is a node whose BMC is not in the file.
MCBrings == e1 :> {n1, i1}
=============================================================================
