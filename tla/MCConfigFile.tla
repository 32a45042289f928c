------------------------------ MODULE MCConfigFile ------------------------------
(***************************************************************************)
(* Instances of ConfigFile: two global options, one of them with a type of *)
(* its own and a default, and the commands a user runs on them.            *)
(***************************************************************************)
EXTENDS ConfigFile, TLC

CONSTANTS p1, p2, level, timeout, uri, v1, v2, c1, c2, c3

MCDefaults == [o \in Options |-> IF o = timeout THEN v1 ELSE NoValue]

NoFile == {Absent}

(* No file, or one with two clusters that a command can load. *)
OldFiles ==
  {Absent, Text([settings |-> [o \in Options |-> v1], default |-> c1,
                 clusters |-> <<[name |-> c1, keys |-> [k \in Keys |-> v1], auth |-> TRUE],
                                NewCluster(c2)>>])}

Op(op, n, k, v, d) == [op |-> op, name |-> n, key |-> k, value |-> v, dflt |-> d]

GlobalCommands ==
  {Op("set", NoValue, o, v2, FALSE) : o \in Options}
    \cup {Op("unset", NoValue, o, NoValue, FALSE) : o \in Options}

ClusterCommands(ns) ==
  {Op("clusterSet", n, uri, v, d) : n \in ns, v \in Values, d \in BOOLEAN}
    \cup {Op("clusterAuth", n, NoValue, b, FALSE) : n \in ns, b \in BOOLEAN}
    \cup {Op("clusterRename", n, NoValue, m, d) : n \in ns, m \in ns, d \in BOOLEAN}
    \cup {Op(op, n, uri, NoValue, FALSE) : n \in ns,
            op \in {"clusterUnset", "clusterUnsetAuth", "clusterClear", "clusterDelete"}}

DefaultCommands ==
  {Op("setDefault", NoValue, NoValue, n, FALSE) : n \in Names}
    \cup {Op("unsetDefault", NoValue, NoValue, NoValue, FALSE)}

AllCommands == GlobalCommands \cup ClusterCommands(Names) \cup DefaultCommands

Users == Permutations({p1, p2})

(* Two users who race on the same clusters. *)
Racing ==
  {Op("set", NoValue, level, v1, FALSE), Op("clusterSet", c1, uri, v1, TRUE),
   Op("clusterSet", c2, uri, v1, FALSE), Op("clusterRename", c1, NoValue, c2, FALSE),
   Op("clusterRename", c2, NoValue, c1, TRUE), Op("clusterDelete", c2, NoValue, NoValue, FALSE)}
=============================================================================
