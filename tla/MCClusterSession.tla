--------------------------- MODULE MCClusterSession ---------------------------
(***************************************************************************)
(* Instances of ClusterSession: two clusters a and b, which may be in the  *)
(* configuration or not, and a URI of every kind.                          *)
(***************************************************************************)
EXTENDS ClusterSession, TLC

CONSTANTS a, b, va, vb, ua, ub, uf, odd, opaque, path, bad, v1, good, stale

MCEnvVar == (a :> va) @@ (b :> vb)

Sec(u, s, v, auth) == [uri |-> u, svc |-> s, version |-> v, auth |-> auth]

SectionsOfA ==
  {Sec(u, s, v1, auth) : u \in {ua, NoURI, bad}, s \in {NoURI, odd}, auth \in BOOLEAN}
SectionsOfB ==
  {Sec(u, s, NoVersion, auth) : u \in {ub, NoURI}, s \in {NoURI, uf, opaque}, auth \in BOOLEAN}

MCConfigs ==
  [default : {a, NoName},
   clusters : {<<>>} \cup [{a} -> SectionsOfA] \cup [{b} -> SectionsOfB]
                \cup {(a :> s) @@ (b :> t) : s \in SectionsOfA, t \in SectionsOfB}]

MCFlagSets ==
  {f \in [cluster : {b, NoName}, clusterURI : {uf, NoURI}, uri : {path, NoURI},
          version : {NoVersion}, token : {stale, NoToken}, noToken : BOOLEAN] : Exclusive(f)}

MCEnvs == [Vars -> {good, stale, NoToken}]
=============================================================================
