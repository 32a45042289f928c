------------------------------ MODULE ConfigStore ------------------------------
(***************************************************************************)
(* What the `ochami config` commands promise about a configuration file,   *)
(* seen as a store that every command changes in one step: a map from      *)
(* global options to values, a map from cluster names to cluster options   *)
(* and the name of the default cluster.  A command changes the one key it  *)
(* names (ModifyConfig, ModifyConfigCluster, DeleteConfig,                 *)
(* DeleteConfigCluster and `config cluster delete`), and nothing else.     *)
(***************************************************************************)
CONSTANTS
  Options,   \* keys of the global section
  Keys,      \* keys of a cluster
  Names,     \* names of clusters
  Values,    \* values of a key
  NoValue,   \* the key is not set
  Defaults   \* the value an option has when nobody has set it

VARIABLES
  settings,  \* [Options -> Values \cup {NoValue}]
  dflt,      \* the name under default-cluster
  clusters   \* cluster name -> [Keys -> Values \cup {NoValue}]

vars == <<settings, dflt, clusters>>

Known == DOMAIN clusters
Unset == [k \in Keys |-> NoValue]
OptionsOf(n) == IF n \in Known THEN clusters[n] ELSE Unset
With(n, ks) == [m \in Known \cup {n} |-> IF m = n THEN ks ELSE clusters[m]]
Without(n) == [m \in Known \ {n} |-> clusters[m]]

Init ==
  /\ settings = Defaults
  /\ dflt = NoValue
  /\ clusters = <<>>

SetOption(o, v) ==
  /\ settings' = [settings EXCEPT ![o] = v]
  /\ UNCHANGED <<dflt, clusters>>

SetDefault(n) ==
  /\ dflt' = n
  /\ UNCHANGED <<settings, clusters>>

(***************************************************************************)
(* Setting a key of an unknown cluster adds the cluster.                   *)
(***************************************************************************)
SetKey(n, k, v, makeDefault) ==
  /\ clusters' = With(n, [OptionsOf(n) EXCEPT ![k] = v])
  /\ dflt' = IF makeDefault THEN n ELSE dflt
  /\ UNCHANGED settings

(***************************************************************************)
(* A cluster is added or chosen as the default without a key of its own.   *)
(***************************************************************************)
Touch(n, makeDefault) ==
  /\ clusters' = With(n, OptionsOf(n))
  /\ dflt' = IF makeDefault THEN n ELSE dflt
  /\ UNCHANGED settings

(***************************************************************************)
(* The default follows a renamed cluster.  No two clusters share a name.   *)
(***************************************************************************)
Rename(n, new, makeDefault) ==
  /\ new \notin Known
  /\ clusters' = [m \in (Known \ {n}) \cup {new} |-> IF m = new THEN OptionsOf(n) ELSE clusters[m]]
  /\ dflt' = IF makeDefault \/ dflt = n THEN new ELSE dflt
  /\ UNCHANGED settings

ClearKeys(n, ks) ==
  /\ n \in Known
  /\ clusters' = [clusters EXCEPT ![n] = [k \in Keys |-> IF k \in ks THEN NoValue ELSE @[k]]]
  /\ UNCHANGED <<settings, dflt>>

Remove(n) ==
  /\ n \in Known
  /\ clusters' = Without(n)
  /\ dflt' = IF dflt = n THEN NoValue ELSE dflt
  /\ UNCHANGED settings

Next ==
  \/ \E o \in Options, v \in Values \cup {NoValue} : SetOption(o, v)
  \/ \E n \in Names \cup {NoValue} : SetDefault(n)
  \/ \E n \in Names, k \in Keys, v \in Values, d \in BOOLEAN : SetKey(n, k, v, d)
  \/ \E n \in Names, d \in BOOLEAN : Touch(n, d)
  \/ \E n \in Names, new \in Names, d \in BOOLEAN : Rename(n, new, d)
  \/ \E n \in Names : ClearKeys(n, Keys) \/ \E k \in Keys : ClearKeys(n, {k})
  \/ \E n \in Names : Remove(n)

Spec == Init /\ [][Next]_vars
=============================================================================
