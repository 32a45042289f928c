------------------------------ MODULE MCBootImage ------------------------------
(***************************************************************************)
(* Instances of BootImage for TLC: two terminals and another client on two *)
(* entries, of which one has a name of its own; a name may be of none.     *)
(***************************************************************************)
EXTENDS BootImage, TLC

CONSTANTS p1, p2, e1, e2, x1, x2, i1, i2, r1, r2

MCNamesOf == (e1 :> {x1}) @@ (e2 :> {x2})
Alike == {f @@ g @@ h : f \in Permutations({p1, p2}),
                        g \in Permutations({i1, i2}), h \in Permutations({r1, r2})}
=============================================================================
