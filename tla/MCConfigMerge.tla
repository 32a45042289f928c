----------------------------- MODULE MCConfigMerge -----------------------------
(***************************************************************************)
(* Instances of ConfigMerge: files with up to two clusters, with the same  *)
(* names and in either order, and with sections of every shape.            *)
(***************************************************************************)
EXTENDS ConfigMerge, TLC

CONSTANTS level, uri, a, b, v, w

MCDefaultConfig == [options |-> (level :> v) @@ (Timeout :> v), clusters |-> <<>>]

Sections == {NoKeys, uri :> v, Auth :> FALSE, (uri :> w) @@ (Auth :> FALSE)}

C(n, s) == [name |-> n, section |-> s]

Lists ==
  {<<>>, <<C(b, uri :> v)>>}
    \cup {<<C(a, s)>> : s \in Sections}
    \cup {<<C(a, s), C(b, uri :> w)>> : s \in Sections}
    \cup {<<C(b, uri :> w), C(a, s)>> : s \in Sections}
    \cup {<<C(a, uri :> v), C(a, uri :> w)>>}

MCFiles ==
  [options : PartialFunction({level}, {v, w})
               \cup {(DefaultCluster :> n) : n \in {a, b}}
               \cup {(DefaultCluster :> a) @@ (Timeout :> w)},
   clusters : Lists]
=============================================================================
