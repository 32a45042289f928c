------------------------------ MODULE ConfigMerge ------------------------------
(***************************************************************************)
(* LoadGlobalConfigMerged: how the default configuration, the system file  *)
(* and the user file become GlobalConfig when --config is not given.       *)
(*                                                                         *)
(* A configuration is what koanf holds of it: the options that are set     *)
(* (log.level, timeout, default-cluster and so on) and the list of         *)
(* clusters.  Each file is read once, so what other processes write to it  *)
(* meanwhile is a choice of the initial state.                             *)
(***************************************************************************)
EXTENDS Naturals, Sequences

CONSTANTS
  Options,        \* keys with a scalar value
  Timeout,        \* the options the program itself looks at
  DefaultCluster,
  Keys,           \* keys of a cluster's section
  Auth,           \* enable-auth
  Values,         \* their values, names of clusters among them
  ClusterNames,
  DefaultConfig,  \* a configuration, with Timeout and without clusters
  Files,          \* the contents of a file to consider, apart from:
  Absent,         \* no such file
  Unreadable,     \* such as without permission
  Malformed,      \* not YAML, or not a configuration
  Empty           \* no YAML at all

VARIABLES
  system, user,   \* the contents of the files
  stage,
  loaded,         \* cfgsLoaded
  merged,         \* how many of them are merged in ko
  at,             \* the position in the clusters of the next one
  ko,
  GlobalConfig

loadVars == <<system, user, stage, loaded, merged, at, ko, GlobalConfig>>

\* The functions with a domain within S and values in T.
PartialFunction(S, T) == UNION {[D -> T] : D \in SUBSET S}

ConfigClusterConfig ==
  {s \in PartialFunction(Keys \cup {Auth}, Values \cup BOOLEAN) :
     \A k \in DOMAIN s : s[k] \in BOOLEAN <=> k = Auth}
ConfigCluster == [name : ClusterNames, section : ConfigClusterConfig]
Configuration == [options : PartialFunction(Options, Values), clusters : Seq(ConfigCluster)]

ASSUME ConfigAssumption ==
  /\ {Timeout, DefaultCluster} \subseteq Options /\ Auth \notin Keys
  /\ Values \cap BOOLEAN = {}
  /\ Files \subseteq Configuration /\ DefaultConfig \in Configuration
  /\ Timeout \in DOMAIN DefaultConfig.options /\ DefaultConfig.clusters = <<>>
  /\ {Absent, Unreadable, Malformed, Empty} \cap Configuration = {}

\* A map without keys, and one with the key k.
NoKeys == [k \in {} |-> TRUE]
Only(k, v) == [l \in {k} |-> v]

-----------------------------------------------------------------------------
(* Merging *)

MergeMaps_Fault(src, dst) ==  \* seeded fault
  [k \in DOMAIN src \cup DOMAIN dst |-> IF k \in DOMAIN src THEN src[k] ELSE dst[k]]

(***************************************************************************)
(* Keys only in src are copied to dst.  Nested maps merge key by key, so a *)
(* nested map is the set of its paths.                                     *)
(***************************************************************************)
MergeMaps(src, dst) ==
  [k \in DOMAIN src \cup DOMAIN dst |-> IF k \in DOMAIN dst THEN dst[k] ELSE src[k]]

-----------------------------------------------------------------------------
(* Reading a file *)

(***************************************************************************)
(* enable-auth is true in a section that does not set it.  A section of    *)
(* nothing but enable-auth: false is the zero value, which is left out     *)
(* when the structure becomes a map again.                                 *)
(***************************************************************************)
SectionRead(s) ==
  LET full == MergeMaps(Only(Auth, TRUE), s)
  IN  IF s = NoKeys \/ full = Only(Auth, FALSE) THEN NoKeys ELSE full

(***************************************************************************)
(* Decoding sets a timeout and replaces everything else; without a YAML    *)
(* document nothing is decoded.                                            *)
(***************************************************************************)
GenerateConfigFromBytes(file) ==
  IF file = Empty THEN DefaultConfig
  ELSE [options  |-> MergeMaps(Only(Timeout, DefaultConfig.options[Timeout]), file.options),
        clusters |-> [i \in DOMAIN file.clusters |->
                        [file.clusters[i] EXCEPT !.section = SectionRead(@)]]]

-----------------------------------------------------------------------------
(* LoadGlobalConfigMerged *)

LoadInit ==
  /\ system \in Files \cup {Absent, Unreadable, Malformed, Empty}
  /\ user \in Files \cup {Absent, Unreadable, Malformed, Empty}
  /\ stage = "system"
  /\ loaded = <<DefaultConfig>>
  /\ merged = 0 /\ at = 1
  /\ ko = [options |-> NoKeys, clusters |-> <<>>]
  /\ GlobalConfig = DefaultConfig

(***************************************************************************)
(* A file that cannot be read is skipped; one that cannot be parsed ends   *)
(* the command.                                                            *)
(***************************************************************************)
ReadFile(file, next) ==
  /\ \/ file \in {Absent, Unreadable} /\ stage' = next /\ UNCHANGED loaded
     \/ file = Malformed /\ stage' = "failed" /\ UNCHANGED loaded
     \/ /\ file \notin {Absent, Unreadable, Malformed}
        /\ stage' = next
        /\ loaded' = Append(loaded, GenerateConfigFromBytes(file))
  /\ UNCHANGED <<system, user, merged, at, ko, GlobalConfig>>

ReadSystem == stage = "system" /\ ReadFile(system, "user")
ReadUser == stage = "user" /\ ReadFile(user, "merge")

(***************************************************************************)
(* koanf calls mergeConfig with the next configuration as src and with     *)
(* what it holds as dst.                                                   *)
(***************************************************************************)
Src == loaded[merged + 1]

Merge_Fault ==  \* seeded fault
  /\ stage = "merge"
  /\ ko' = [options  |-> MergeMaps(Src.options, ko.options),
            clusters |-> IF ko.clusters = <<>> THEN Src.clusters ELSE ko.clusters]
  /\ at' = Len(Src.clusters) + 1
  /\ stage' = "clusters"
  /\ UNCHANGED <<system, user, loaded, merged, GlobalConfig>>

(***************************************************************************)
(* If dst has no list of clusters the list of src is copied as it is.      *)
(***************************************************************************)
Merge ==
  /\ stage = "merge"
  /\ ko' = [options  |-> MergeMaps(Src.options, ko.options),
            clusters |-> IF ko.clusters = <<>> THEN Src.clusters ELSE ko.clusters]
  /\ at' = IF ko.clusters = <<>> THEN Len(Src.clusters) + 1 ELSE 1
  /\ stage' = "clusters"
  /\ UNCHANGED <<system, user, loaded, merged, GlobalConfig>>

\* The first cluster of the list with the name n is at i.
FirstNamed(list, n, i) ==
  list[i].name = n /\ \A j \in DOMAIN list : j < i => list[j].name # n

MergeCluster_Fault ==  \* seeded fault
  /\ stage = "clusters" /\ at \in DOMAIN Src.clusters
  /\ ko' = [ko EXCEPT !.clusters = Append(@, Src.clusters[at])]
  /\ at' = at + 1
  /\ UNCHANGED <<system, user, stage, loaded, merged, GlobalConfig>>

(***************************************************************************)
(* MergeSlices: a cluster with the name of one of dst is merged into the   *)
(* first of them, another one is appended.                                 *)
(***************************************************************************)
MergeCluster ==
  LET c == Src.clusters[at]
  IN  /\ stage = "clusters" /\ at \in DOMAIN Src.clusters
      /\ \/ \E i \in DOMAIN ko.clusters :
              /\ FirstNamed(ko.clusters, c.name, i)
              /\ ko' = [ko EXCEPT !.clusters[i].section = MergeMaps(c.section, @)]
         \/ /\ \A i \in DOMAIN ko.clusters : ko.clusters[i].name # c.name
            /\ ko' = [ko EXCEPT !.clusters = Append(@, c)]
      /\ at' = at + 1
      /\ UNCHANGED <<system, user, stage, loaded, merged, GlobalConfig>>

NextConfig_Fault ==  \* seeded fault
  /\ stage = "clusters" /\ at > Len(Src.clusters)
  /\ merged' = merged + 1
  /\ stage' = IF merged' >= Len(loaded) - 1 THEN "decode" ELSE "merge"
  /\ UNCHANGED <<system, user, loaded, at, ko, GlobalConfig>>

NextConfig ==
  /\ stage = "clusters" /\ at > Len(Src.clusters)
  /\ merged' = merged + 1
  /\ stage' = IF merged' = Len(loaded) THEN "decode" ELSE "merge"
  /\ UNCHANGED <<system, user, loaded, at, ko, GlobalConfig>>

(***************************************************************************)
(* Through YAML into the structure, with the same defaults as a file.      *)
(***************************************************************************)
Decode ==
  /\ stage = "decode"
  /\ GlobalConfig' = GenerateConfigFromBytes(ko)
  /\ stage' = "done"
  /\ UNCHANGED <<system, user, loaded, merged, at, ko>>

LoadEnded == stage \in {"done", "failed"} /\ UNCHANGED loadVars

LoadNext ==
  \/ ReadSystem \/ ReadUser \/ Merge \/ MergeCluster \/ NextConfig \/ Decode
  \/ LoadEnded

LoadSpec == LoadInit /\ [][LoadNext]_loadVars

-----------------------------------------------------------------------------
(* Properties *)

Loadable == {DefaultConfig} \cup {GenerateConfigFromBytes(f) : f \in Files}
NamesOf(c) == {c.clusters[i].name : i \in DOMAIN c.clusters}
NamesUnique(c) ==
  \A i, j \in DOMAIN c.clusters : c.clusters[i].name = c.clusters[j].name => i = j
Resolves(c) ==
  DefaultCluster \in DOMAIN c.options => c.options[DefaultCluster] \in NamesOf(c)

(***************************************************************************)
(* The variables keep their types, and everything that was loaded is       *)
(* merged, cluster by cluster.                                             *)
(***************************************************************************)
LoadTypeOK ==
  /\ stage \in {"system", "user", "merge", "clusters", "decode", "done", "failed"}
  /\ loaded \in Seq(Loadable) /\ Len(loaded) \in 1..3
  /\ merged \in 0..Len(loaded)
  /\ {ko, GlobalConfig} \subseteq Configuration
  /\ stage \in {"merge", "clusters"} => merged < Len(loaded)
  /\ stage = "clusters" => at \in 1..(Len(Src.clusters) + 1)
  /\ stage \in {"decode", "done"} => merged = Len(loaded)

(***************************************************************************)
(* The sections of the cluster n in a configuration: none or one.          *)
(***************************************************************************)
SectionsOf(c, n) == {c.clusters[i].section : i \in {j \in DOMAIN c.clusters : c.clusters[j].name = n}}

(***************************************************************************)
(* f is the union of the functions g[1], g[2], ...; the first one that has *)
(* a key decides.                                                          *)
(***************************************************************************)
FirstDecides(f, g) ==
  /\ DOMAIN f = UNION {DOMAIN g[i] : i \in DOMAIN g}
  /\ \A i \in DOMAIN g : \A k \in DOMAIN g[i] \ UNION {DOMAIN g[j] : j \in 1..i-1} :
       f[k] = g[i][k]

(***************************************************************************)
(* Every option, and every option of every cluster, has the value of the   *)
(* first configuration that sets it: the default before the system file    *)
(* before the user file, however the files overlap.  (Of a cluster with    *)
(* two entries in a file only what merging makes of a list is claimed.)    *)
(***************************************************************************)
FirstLoadedDecides ==
  stage = "done" =>
    /\ FirstDecides(GlobalConfig.options, [i \in DOMAIN loaded |-> loaded[i].options])
    /\ (\A i \in DOMAIN loaded : NamesUnique(loaded[i])) =>
         \A i \in DOMAIN GlobalConfig.clusters :
           LET c == GlobalConfig.clusters[i]
           IN  FirstDecides(c.section,
                 [j \in DOMAIN loaded |->
                    IF c.name \in NamesOf(loaded[j])
                    THEN CHOOSE s \in SectionsOf(loaded[j], c.name) : TRUE
                    ELSE NoKeys])

(***************************************************************************)
(* The clusters of the files are all there, each once, although two files  *)
(* may both describe a cluster.                                            *)
(***************************************************************************)
ClustersMerged ==
  stage = "done" =>
    /\ NamesOf(GlobalConfig) = UNION {NamesOf(loaded[i]) : i \in DOMAIN loaded}
    /\ (\A i \in DOMAIN loaded : NamesUnique(loaded[i])) => NamesUnique(GlobalConfig)

(***************************************************************************)
(* default-cluster of one file resolves among the clusters of both.        *)
(***************************************************************************)
DefaultResolves ==
  stage = "done" /\ (\A i \in DOMAIN loaded : Resolves(loaded[i])) => Resolves(GlobalConfig)

-----------------------------------------------------------------------------
(* What the documentation says and the code does not do *)

(***************************************************************************)
(* "Configuration options in the user configuration file overwrite those   *)
(* in the system configuration file."                                      *)
(***************************************************************************)
UserFileWins ==
  stage = "done" /\ user \in Files =>
    \A k \in DOMAIN user.options : GlobalConfig.options[k] = user.options[k]
=============================================================================
