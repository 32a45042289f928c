----------------------------- MODULE StartupProofs -----------------------------
(***************************************************************************)
(* Proofs about the start of a command: ConfigMerge, which loads the       *)
(* configuration, for files with any number of options and clusters, and   *)
(* ClusterSession, which takes cluster, URI and token from it, for every   *)
(* set of URIs, versions, tokens, clusters, flags and environments.  The   *)
(* two share no names: those of ConfigMerge begin with Load where they     *)
(* would.                                                                  *)
(***************************************************************************)
EXTENDS ConfigMerge, ClusterSession, SequenceTheorems, TLAPS

-----------------------------------------------------------------------------
(* ConfigMerge: types *)

LEMMA PartialFunctionIs ==
  ASSUME NEW S, NEW T, NEW f
  PROVE  f \in PartialFunction(S, T) <=>
           /\ f = [k \in DOMAIN f |-> f[k]]
           /\ DOMAIN f \subseteq S
           /\ \A k \in DOMAIN f : f[k] \in T
<1>1. ASSUME f \in PartialFunction(S, T)
      PROVE  /\ f = [k \in DOMAIN f |-> f[k]]
             /\ DOMAIN f \subseteq S
             /\ \A k \in DOMAIN f : f[k] \in T
  <2>1. PICK D \in SUBSET S : f \in [D -> T]
    BY <1>1 DEF PartialFunction
  <2> QED BY <2>1
<1>2. ASSUME f = [k \in DOMAIN f |-> f[k]], DOMAIN f \subseteq S,
             \A k \in DOMAIN f : f[k] \in T
      PROVE  f \in PartialFunction(S, T)
  <2>1. f \in [DOMAIN f -> T]
    BY <1>2
  <2> QED BY <1>2, <2>1 DEF PartialFunction
<1> QED BY <1>1, <1>2

LEMMA NoKeysTyped ==
  ASSUME NEW S, NEW T
  PROVE  NoKeys \in PartialFunction(S, T)
<1>1. NoKeys \in [{} -> T]
  BY DEF NoKeys
<1> QED BY <1>1 DEF PartialFunction

LEMMA MergedIs ==
  ASSUME NEW s, NEW t
  PROVE  /\ MergeMaps(s, t) = [k \in DOMAIN MergeMaps(s, t) |-> MergeMaps(s, t)[k]]
         /\ DOMAIN MergeMaps(s, t) = DOMAIN s \cup DOMAIN t
         /\ \A k \in DOMAIN t : MergeMaps(s, t)[k] = t[k]
         /\ \A k \in DOMAIN s \ DOMAIN t : MergeMaps(s, t)[k] = s[k]
BY DEF MergeMaps

LEMMA MergedTyped ==
  ASSUME NEW S, NEW T, NEW s \in PartialFunction(S, T), NEW t \in PartialFunction(S, T)
  PROVE  MergeMaps(s, t) \in PartialFunction(S, T)
<1> DEFINE m == MergeMaps(s, t)
<1>1. /\ DOMAIN s \subseteq S /\ \A k \in DOMAIN s : s[k] \in T
      /\ DOMAIN t \subseteq S /\ \A k \in DOMAIN t : t[k] \in T
  BY PartialFunctionIs
<1>2. /\ m = [k \in DOMAIN m |-> m[k]] /\ DOMAIN m = DOMAIN s \cup DOMAIN t
      /\ \A k \in DOMAIN t : m[k] = t[k]
      /\ \A k \in DOMAIN s \ DOMAIN t : m[k] = s[k]
  BY MergedIs
<1> HIDE DEF m
<1>3. DOMAIN m \subseteq S /\ \A k \in DOMAIN m : m[k] \in T
  BY <1>1, <1>2
<1> QED BY <1>2, <1>3, PartialFunctionIs, Zenon DEF m

LEMMA MergedSectionTyped ==
  ASSUME NEW s \in ConfigClusterConfig, NEW t \in ConfigClusterConfig
  PROVE  MergeMaps(s, t) \in ConfigClusterConfig
<1>1. MergeMaps(s, t) \in PartialFunction(Keys \cup {Auth}, Values \cup BOOLEAN)
  BY MergedTyped, Zenon DEF ConfigClusterConfig
<1>2. \A k \in DOMAIN MergeMaps(s, t) : MergeMaps(s, t)[k] \in BOOLEAN <=> k = Auth
  <2>1. /\ \A k \in DOMAIN s : s[k] \in BOOLEAN <=> k = Auth
        /\ \A k \in DOMAIN t : t[k] \in BOOLEAN <=> k = Auth
    BY Zenon DEF ConfigClusterConfig
  <2> DEFINE m == MergeMaps(s, t)
  <2>2. /\ DOMAIN m = DOMAIN s \cup DOMAIN t
        /\ \A k \in DOMAIN t : m[k] = t[k]
        /\ \A k \in DOMAIN s \ DOMAIN t : m[k] = s[k]
    BY DEF MergeMaps
  <2> HIDE DEF m
  <2>3. ASSUME NEW k \in DOMAIN m PROVE m[k] \in BOOLEAN <=> k = Auth
    <3>1. CASE k \in DOMAIN t
      BY <2>1, <2>2, <3>1, Zenon
    <3>2. CASE k \in DOMAIN s \ DOMAIN t
      BY <2>1, <2>2, <3>2, Zenon
    <3> QED BY <2>2, <3>1, <3>2
  <2> QED BY <2>3 DEF m
<1> QED BY <1>1, <1>2, Zenon DEF ConfigClusterConfig

(***************************************************************************)
(* A section with one key, or none, is a section.                          *)
(***************************************************************************)
LEMMA OnlyTyped ==
  /\ NoKeys \in ConfigClusterConfig
  /\ Only(Auth, TRUE) \in ConfigClusterConfig
<1>1. NoKeys \in PartialFunction(Keys \cup {Auth}, Values \cup BOOLEAN)
  BY NoKeysTyped
<1>2. Only(Auth, TRUE) \in PartialFunction(Keys \cup {Auth}, Values \cup BOOLEAN)
  <2>1. Only(Auth, TRUE) \in [{Auth} -> Values \cup BOOLEAN]
    BY DEF Only
  <2>2. {Auth} \subseteq Keys \cup {Auth}
    OBVIOUS
  <2> QED BY <2>1, <2>2 DEF PartialFunction
<1> QED BY <1>1, <1>2 DEF ConfigClusterConfig, NoKeys, Only

LEMMA SectionReadTyped ==
  ASSUME NEW s \in ConfigClusterConfig
  PROVE  SectionRead(s) \in ConfigClusterConfig
<1>1. MergeMaps(Only(Auth, TRUE), s) \in ConfigClusterConfig
  BY OnlyTyped, MergedSectionTyped, Zenon
<1> QED BY <1>1, OnlyTyped, Zenon DEF SectionRead

LEMMA ReadTyped ==
  ASSUME NEW f \in Configuration \cup {Empty}
  PROVE  GenerateConfigFromBytes(f) \in Configuration
<1>1. CASE f = Empty
  BY <1>1, ConfigAssumption DEF GenerateConfigFromBytes
<1>2. CASE f # Empty
  <2> DEFINE o == Only(Timeout, DefaultConfig.options[Timeout])
  <2>1. f \in Configuration /\ f.options \in PartialFunction(Options, Values)
        /\ f.clusters \in Seq(ConfigCluster)
    BY <1>2 DEF Configuration
  <2>2. o \in PartialFunction(Options, Values)
    <3>1. DefaultConfig.options \in PartialFunction(Options, Values)
      BY ConfigAssumption DEF Configuration
    <3>2. Timeout \in Options /\ DefaultConfig.options[Timeout] \in Values
      BY <3>1, ConfigAssumption, PartialFunctionIs
    <3>3. o \in [{Timeout} -> Values]
      BY <3>2 DEF Only
    <3> QED BY <3>2, <3>3 DEF PartialFunction
  <2>3. MergeMaps(o, f.options) \in PartialFunction(Options, Values)
    BY <2>1, <2>2, MergedTyped, Zenon
  <2> DEFINE list == [i \in DOMAIN f.clusters |->
                        [f.clusters[i] EXCEPT !.section = SectionRead(@)]]
  <2>4. ASSUME NEW i \in DOMAIN f.clusters
        PROVE  [f.clusters[i] EXCEPT !.section = SectionRead(@)] \in ConfigCluster
    <3>1. f.clusters[i] \in ConfigCluster
      BY <2>1
    <3>2. SectionRead(f.clusters[i].section) \in ConfigClusterConfig
      BY <3>1, SectionReadTyped DEF ConfigCluster
    <3> QED BY <3>1, <3>2 DEF ConfigCluster
  <2>5. list \in Seq(ConfigCluster)
    <3>1. DOMAIN f.clusters = 1..Len(f.clusters) /\ Len(f.clusters) \in Nat
      BY <2>1
    <3> QED BY <2>4, <3>1
  <2>6. GenerateConfigFromBytes(f) = [options |-> MergeMaps(o, f.options), clusters |-> list]
    BY <1>2 DEF GenerateConfigFromBytes
  <2> HIDE DEF o, list
  <2> QED BY <2>3, <2>5, <2>6 DEF Configuration
<1> QED BY <1>1, <1>2

LEMMA LoadableTyped == Loadable \subseteq Configuration
BY ReadTyped, ConfigAssumption DEF Loadable

(***************************************************************************)
(* How far the command can be, with how many configurations.               *)
(***************************************************************************)
LoadShape ==
  /\ loaded # <<>> /\ loaded[1] = DefaultConfig
  /\ stage = "system" => Len(loaded) = 1
  /\ stage = "user" => Len(loaded) <= 2
  /\ stage \in {"system", "user"} => merged = 0
  /\ merged = 0 /\ stage # "clusters" => ko = [options |-> NoKeys, clusters |-> <<>>]

LoadOK == LoadTypeOK /\ LoadShape /\ system \in Files \cup {Absent, Unreadable, Malformed, Empty}
            /\ user \in Files \cup {Absent, Unreadable, Malformed, Empty}

LEMMA LoadInitOK == LoadInit => LoadOK
<1> SUFFICES ASSUME LoadInit PROVE LoadOK
  OBVIOUS
<1>1. [options |-> NoKeys, clusters |-> <<>>] \in Configuration
  <2>1. NoKeys \in PartialFunction(Options, Values)
    BY NoKeysTyped
  <2>2. <<>> \in Seq(ConfigCluster)
    OBVIOUS
  <2> QED BY <2>1, <2>2 DEF Configuration
<1>2. DefaultConfig \in Configuration /\ DefaultConfig \in Loadable
  BY ConfigAssumption DEF Loadable
<1>3. loaded \in Seq(Loadable) /\ Len(loaded) = 1 /\ loaded # <<>> /\ loaded[1] = DefaultConfig
  BY <1>2 DEF LoadInit
<1> QED BY <1>1, <1>2, <1>3 DEF LoadInit, LoadOK, LoadTypeOK, LoadShape

(***************************************************************************)
(* A file that is read adds a configuration, or none.                      *)
(***************************************************************************)
LEMMA ReadFileTyped ==
  ASSUME LoadTypeOK, NEW file \in Files \cup {Absent, Unreadable, Malformed, Empty}, NEW next,
         ReadFile(file, next)
  PROVE  /\ loaded' \in Seq(Loadable)
         /\ \/ loaded' = loaded /\ stage' \in {next, "failed"}
            \/ /\ Len(loaded') = Len(loaded) + 1 /\ stage' = next
               /\ \A i \in DOMAIN loaded : i \in DOMAIN loaded' /\ loaded'[i] = loaded[i]
<1>0. loaded \in Seq(Loadable)
  BY DEF LoadTypeOK
<1>1. CASE file \in {Absent, Unreadable} /\ stage' = next /\ UNCHANGED loaded
  BY <1>0, <1>1
<1>2. CASE file = Malformed /\ stage' = "failed" /\ UNCHANGED loaded
  BY <1>0, <1>2
<1>3. CASE /\ file \notin {Absent, Unreadable, Malformed}
           /\ stage' = next
           /\ loaded' = Append(loaded, GenerateConfigFromBytes(file))
  <2> DEFINE c == GenerateConfigFromBytes(file)
  <2>1. c \in Loadable
    BY <1>3 DEF Loadable, GenerateConfigFromBytes
  <2>2. loaded' = Append(loaded, c) /\ stage' = next
    BY <1>3
  <2> HIDE DEF c
  <2>3. /\ loaded' \in Seq(Loadable) /\ Len(loaded') = Len(loaded) + 1
        /\ \A i \in 1..Len(loaded) : loaded'[i] = loaded[i]
    BY <1>0, <2>1, <2>2, AppendProperties
  <2> QED BY <1>0, <2>2, <2>3
<1> QED BY <1>1, <1>2, <1>3 DEF ReadFile

LEMMA SrcTyped ==
  ASSUME LoadTypeOK, merged < Len(loaded)
  PROVE  /\ merged + 1 \in DOMAIN loaded /\ Src \in Loadable
         /\ Src.options \in PartialFunction(Options, Values)
         /\ Src.clusters \in Seq(ConfigCluster)
<1>1. merged + 1 \in DOMAIN loaded /\ Src \in Loadable
  BY DEF LoadTypeOK, Src
<1>2. Src \in Configuration
  BY <1>1, LoadableTyped
<1> QED BY <1>1, <1>2 DEF Configuration

LEMMA KoTyped ==
  ASSUME LoadTypeOK
  PROVE  /\ ko = [options |-> ko.options, clusters |-> ko.clusters]
         /\ ko.options \in PartialFunction(Options, Values)
         /\ ko.clusters \in Seq(ConfigCluster)
<1>1. ko \in Configuration
  BY DEF LoadTypeOK
<1> QED BY <1>1 DEF Configuration

(***************************************************************************)
(* What koanf holds remains a configuration.                               *)
(***************************************************************************)
LEMMA MergeTyped ==
  ASSUME LoadTypeOK, Merge
  PROVE  ko' \in Configuration /\ at' \in 1..(Len(Src.clusters) + 1)
<1>1. merged < Len(loaded)
  BY DEF LoadTypeOK, Merge
<1>2. MergeMaps(Src.options, ko.options) \in PartialFunction(Options, Values)
  BY <1>1, SrcTyped, KoTyped, MergedTyped, Zenon
<1>3. Src.clusters \in Seq(ConfigCluster) /\ ko.clusters \in Seq(ConfigCluster)
  BY <1>1, SrcTyped, KoTyped, Zenon
<1>4. ko' \in Configuration
  <2> DEFINE o == MergeMaps(Src.options, ko.options)
             l == IF ko.clusters = <<>> THEN Src.clusters ELSE ko.clusters
  <2>1. ko' = [options |-> o, clusters |-> l]
    BY DEF Merge
  <2>2. l \in Seq(ConfigCluster)
    BY <1>3
  <2> HIDE DEF o, l
  <2> QED BY <1>2, <2>1, <2>2 DEF Configuration, o
<1>5. Len(Src.clusters) \in Nat
  BY <1>3
<1> QED BY <1>4, <1>5 DEF Merge

(***************************************************************************)
(* What merging a cluster does to the list.                                *)
(***************************************************************************)
Merged(i) ==
  /\ i \in DOMAIN ko.clusters
  /\ FirstNamed(ko.clusters, Src.clusters[at].name, i)
  /\ DOMAIN ko'.clusters = DOMAIN ko.clusters
  /\ \A j \in DOMAIN ko.clusters : ko'.clusters[j].name = ko.clusters[j].name
  /\ \A j \in DOMAIN ko.clusters \ {i} : ko'.clusters[j].section = ko.clusters[j].section
  /\ ko'.clusters[i].section = MergeMaps(Src.clusters[at].section, ko.clusters[i].section)

Appended ==
  /\ \A i \in DOMAIN ko.clusters : ko.clusters[i].name # Src.clusters[at].name
  /\ DOMAIN ko'.clusters = DOMAIN ko.clusters \cup {Len(ko.clusters) + 1}
  /\ \A i \in DOMAIN ko.clusters : ko'.clusters[i] = ko.clusters[i]
  /\ ko'.clusters[Len(ko.clusters) + 1] = Src.clusters[at]

LEMMA ClusterStep ==
  ASSUME LoadTypeOK, MergeCluster
  PROVE  /\ ko' \in Configuration /\ ko'.options = ko.options
         /\ at' = at + 1 /\ at \in DOMAIN Src.clusters
         /\ Appended \/ \E i \in DOMAIN ko.clusters : Merged(i)
<1> DEFINE c == Src.clusters[at]
<1>1. merged < Len(loaded) /\ at \in DOMAIN Src.clusters
  BY DEF LoadTypeOK, MergeCluster
<1>2. /\ ko = [options |-> ko.options, clusters |-> ko.clusters]
      /\ ko.options \in PartialFunction(Options, Values)
      /\ ko.clusters \in Seq(ConfigCluster)
  BY KoTyped
<1>3. c \in ConfigCluster
  BY <1>1, SrcTyped
<1>4. c.name \in ClusterNames /\ c.section \in ConfigClusterConfig
  BY <1>3 DEF ConfigCluster
<1>5. ASSUME NEW i \in DOMAIN ko.clusters, FirstNamed(ko.clusters, c.name, i),
             ko' = [ko EXCEPT !.clusters[i].section = MergeMaps(c.section, @)]
      PROVE  ko' \in Configuration /\ ko'.options = ko.options /\ Merged(i)
  <2> DEFINE d == ko.clusters[i]
             s == MergeMaps(c.section, d.section)
             e == [d EXCEPT !.section = s]
  <2>1. d \in ConfigCluster
    BY <1>2
  <2>2. s \in ConfigClusterConfig
    BY <1>4, <2>1, MergedSectionTyped DEF ConfigCluster
  <2>3. e \in ConfigCluster /\ e.name = d.name /\ e.section = s
    <3> HIDE DEF s
    <3> QED BY <2>1, <2>2 DEF ConfigCluster
  <2>4. ko' = [options |-> ko.options, clusters |-> [ko.clusters EXCEPT ![i] = e]]
    BY <1>2, <1>5
  <2> HIDE DEF c, e, s
  <2>5. ko'.clusters = [ko.clusters EXCEPT ![i] = e] /\ ko'.options = ko.options
    BY <2>4
  <2>6. ko'.clusters \in Seq(ConfigCluster)
    BY <1>2, <2>3, <2>5
  <2>7. ko' \in Configuration
    BY <1>2, <2>4, <2>5, <2>6 DEF Configuration
  <2>8. /\ DOMAIN ko'.clusters = DOMAIN ko.clusters
        /\ ko'.clusters[i] = e
        /\ \A j \in DOMAIN ko.clusters \ {i} : ko'.clusters[j] = ko.clusters[j]
    BY <1>2, <2>5
  <2>9. \A j \in DOMAIN ko.clusters : ko'.clusters[j].name = ko.clusters[j].name
    BY <2>3, <2>8
  <2> QED BY <1>5, <2>3, <2>5, <2>7, <2>8, <2>9 DEF Merged, c, s
<1>6. ASSUME \A i \in DOMAIN ko.clusters : ko.clusters[i].name # c.name,
             ko' = [ko EXCEPT !.clusters = Append(@, c)]
      PROVE  ko' \in Configuration /\ ko'.options = ko.options /\ Appended
  <2>1. ko' = [options |-> ko.options, clusters |-> Append(ko.clusters, c)]
    BY <1>2, <1>6
  <2> HIDE DEF c
  <2>2. ko'.clusters = Append(ko.clusters, c) /\ ko'.options = ko.options
    BY <2>1
  <2>3. ko'.clusters \in Seq(ConfigCluster)
    BY <1>2, <1>3, <2>2
  <2>4. ko' \in Configuration
    BY <1>2, <2>1, <2>2, <2>3 DEF Configuration
  <2>5. /\ DOMAIN ko'.clusters = DOMAIN ko.clusters \cup {Len(ko.clusters) + 1}
        /\ \A i \in DOMAIN ko.clusters : ko'.clusters[i] = ko.clusters[i]
        /\ ko'.clusters[Len(ko.clusters) + 1] = c
    BY <1>2, <2>2
  <2> QED BY <1>6, <2>2, <2>4, <2>5 DEF Appended, c
<1>7. at' = at + 1
  BY DEF MergeCluster
<1>8. \/ \E i \in DOMAIN ko.clusters :
           /\ FirstNamed(ko.clusters, c.name, i)
           /\ ko' = [ko EXCEPT !.clusters[i].section = MergeMaps(c.section, @)]
      \/ /\ \A i \in DOMAIN ko.clusters : ko.clusters[i].name # c.name
         /\ ko' = [ko EXCEPT !.clusters = Append(@, c)]
  BY DEF MergeCluster
<1> HIDE DEF c
<1> QED BY <1>1, <1>5, <1>6, <1>7, <1>8

LEMMA LoadNextOK == LoadOK /\ [LoadNext]_loadVars => LoadOK'
<1> SUFFICES ASSUME LoadOK, [LoadNext]_loadVars PROVE LoadOK'
  OBVIOUS
<1> USE DEF LoadOK
<1>0. loaded \in Seq(Loadable) /\ Len(loaded) \in 1..3
  BY DEF LoadTypeOK
<1>1. ASSUME NEW file \in Files \cup {Absent, Unreadable, Malformed, Empty}, NEW next,
             ReadFile(file, next), \/ stage = "system" /\ next = "user"
                                   \/ stage = "user" /\ next = "merge"
      PROVE  LoadOK'
  <2>1. /\ loaded' \in Seq(Loadable)
        /\ \/ loaded' = loaded /\ stage' \in {next, "failed"}
           \/ /\ Len(loaded') = Len(loaded) + 1 /\ stage' = next
              /\ \A i \in DOMAIN loaded : i \in DOMAIN loaded' /\ loaded'[i] = loaded[i]
    BY <1>1, ReadFileTyped
  <2>2. UNCHANGED <<system, user, merged, at, ko, GlobalConfig>>
    BY <1>1 DEF ReadFile
  <2>3. Len(loaded') \in 1..3 /\ (stage' = "user" => Len(loaded') <= 2)
    <3> DEFINE m == Len(loaded)
               n == Len(loaded')
    <3>1. /\ m \in 1..3 /\ (stage = "system" => m = 1) /\ (stage = "user" => m <= 2)
          /\ n = m \/ n = m + 1
      BY <1>0, <2>1, Zenon DEF LoadShape
    <3>2. stage' = next \/ stage' = "failed"
      BY <2>1, Zenon
    <3> HIDE DEF m, n
    <3>3. n \in 1..3 /\ (stage = "system" => n <= 2)
      BY <1>1, <3>1
    <3>4. n \in 1..3 /\ (stage' = "user" => n <= 2)
      BY <1>1, <3>2, <3>3
    <3> QED BY <3>4, Zenon DEF n
  <2>4. loaded' # <<>> /\ loaded'[1] = DefaultConfig
    BY <1>0, <2>1, <2>3 DEF LoadShape
  <2>5. stage' \in {"user", "merge", "failed"} /\ merged = 0
    BY <1>1, <2>1 DEF LoadShape
  <2> QED BY <1>1, <2>1, <2>2, <2>3, <2>4, <2>5 DEF LoadTypeOK, LoadShape
<1>2. ASSUME ReadSystem PROVE LoadOK'
  BY <1>1, <1>2 DEF ReadSystem
<1>3. ASSUME ReadUser PROVE LoadOK'
  BY <1>1, <1>3 DEF ReadUser
<1>4. ASSUME Merge PROVE LoadOK'
  <2>1. ko' \in Configuration /\ at' \in 1..(Len(Src.clusters) + 1)
    BY <1>4, MergeTyped
  <2>2. UNCHANGED <<system, user, loaded, merged, GlobalConfig>> /\ stage' = "clusters"
    BY <1>4 DEF Merge
  <2>3. Src' = Src
    BY <2>2 DEF Src
  <2> QED BY <1>4, <2>1, <2>2, <2>3 DEF LoadTypeOK, LoadShape, Merge
<1>5. ASSUME MergeCluster PROVE LoadOK'
  <2>1. ko' \in Configuration /\ at' = at + 1 /\ at \in DOMAIN Src.clusters
    BY <1>5, ClusterStep
  <2>2. UNCHANGED <<system, user, stage, loaded, merged, GlobalConfig>> /\ stage = "clusters"
    BY <1>5 DEF MergeCluster
  <2>3. Src' = Src
    BY <2>2 DEF Src
  <2>4. Src.clusters \in Seq(ConfigCluster)
    BY <2>2, SrcTyped DEF LoadTypeOK
  <2>5. at' \in 1..(Len(Src.clusters) + 1)
    BY <2>1, <2>4
  <2> QED BY <2>1, <2>2, <2>3, <2>5 DEF LoadTypeOK, LoadShape
<1>6. ASSUME NextConfig PROVE LoadOK'
  BY <1>0, <1>6 DEF NextConfig, LoadTypeOK, LoadShape
<1>7. ASSUME Decode PROVE LoadOK'
  <2>1. GlobalConfig' \in Configuration
    BY <1>7, ReadTyped DEF Decode, LoadTypeOK
  <2>2. UNCHANGED <<system, user, loaded, merged, at, ko>> /\ stage' = "done" /\ stage = "decode"
    BY <1>7 DEF Decode
  <2> QED BY <2>1, <2>2 DEF LoadTypeOK, LoadShape
<1>8. ASSUME UNCHANGED loadVars PROVE LoadOK'
  BY <1>8 DEF loadVars, LoadTypeOK, LoadShape, Src
<1> QED BY <1>2, <1>3, <1>4, <1>5, <1>6, <1>7, <1>8 DEF LoadNext, LoadEnded

LEMMA LoadHolds == LoadSpec => []LoadOK
BY LoadInitOK, LoadNextOK, PTL DEF LoadSpec

(***************************************************************************)
(* While the configuration is loaded, what is read and what is merged      *)
(* remain configurations, and nothing that was read is left out.           *)
(***************************************************************************)
THEOREM LoadTypeCorrect == LoadSpec => []LoadTypeOK
<1>1. LoadOK => LoadTypeOK
  BY DEF LoadOK
<1> QED BY <1>1, LoadHolds, PTL

-----------------------------------------------------------------------------
(* The first configuration decides *)

(***************************************************************************)
(* Merging the function that comes next into the union of those before it. *)
(***************************************************************************)
LEMMA DecidesNext ==
  ASSUME NEW N \in Nat, NEW m \in 1..N, NEW g, NEW h, NEW f,
         DOMAIN g = 1..N, DOMAIN h = 1..N,
         \A j \in 1..N \ {m} : h[j] = g[j],
         \A j \in m..N : DOMAIN g[j] = {},
         FirstDecides(f, g)
  PROVE  FirstDecides(MergeMaps(h[m], f), h)
<1> DEFINE u == MergeMaps(h[m], f)
<1>1. /\ DOMAIN u = DOMAIN h[m] \cup DOMAIN f
      /\ \A k \in DOMAIN f : u[k] = f[k]
      /\ \A k \in DOMAIN h[m] \ DOMAIN f : u[k] = h[m][k]
  BY DEF MergeMaps
<1> HIDE DEF u
<1>2. \A k : k \in DOMAIN f <=> \E j \in 1..N : k \in DOMAIN g[j]
  BY DEF FirstDecides
<1>3. \A k : k \in DOMAIN u <=> \E j \in 1..N : k \in DOMAIN h[j]
  <2>1. \A k : k \in DOMAIN f => \E j \in 1..N : j # m /\ k \in DOMAIN h[j]
    <3> SUFFICES ASSUME NEW k, k \in DOMAIN f PROVE \E j \in 1..N : j # m /\ k \in DOMAIN h[j]
      OBVIOUS
    <3>1. PICK j \in 1..N : k \in DOMAIN g[j]
      BY <1>2
    <3>2. j # m
      BY <3>1
    <3> QED BY <3>1, <3>2
  <2>2. \A k : \A j \in 1..N \ {m} : k \in DOMAIN h[j] => k \in DOMAIN f
    BY <1>2
  <2> QED BY <1>1, <2>1, <2>2
<1>4. ASSUME NEW i \in 1..N, NEW k \in DOMAIN h[i], \A j \in 1..(i - 1) : k \notin DOMAIN h[j]
      PROVE  u[k] = h[i][k]
  <2>1. CASE i = m
    <3>1. k \notin DOMAIN f
      <4> SUFFICES ASSUME NEW j \in 1..N, k \in DOMAIN g[j] PROVE FALSE
        BY <1>2
      <4>1. j < m
        BY DEF FirstDecides
      <4> QED BY <1>4, <2>1, <4>1
    <3> QED BY <1>1, <1>4, <2>1, <3>1
  <2>2. CASE i # m
    <3>1. i < m /\ k \in DOMAIN g[i] /\ h[i] = g[i]
      BY <1>4, <2>2
    <3>2. \A j \in 1..(i - 1) : k \notin DOMAIN g[j]
      BY <1>4, <3>1
    <3>3. f[k] = g[i][k] /\ k \in DOMAIN f
      BY <1>2, <3>1, <3>2 DEF FirstDecides
    <3> QED BY <1>1, <3>1, <3>3
  <2> QED BY <2>1, <2>2
<1>5. DOMAIN u = UNION {DOMAIN h[j] : j \in DOMAIN h}
  BY <1>3
<1> QED BY <1>4, <1>5 DEF FirstDecides, u

(***************************************************************************)
(* If only one of the functions has any keys, it decides.                  *)
(***************************************************************************)
LEMMA DecidesAlone ==
  ASSUME NEW N \in Nat, NEW m \in 1..N, NEW h, DOMAIN h = 1..N,
         \A j \in 1..N \ {m} : DOMAIN h[j] = {}
  PROVE  FirstDecides(h[m], h)
<1>1. DOMAIN h[m] = UNION {DOMAIN h[j] : j \in DOMAIN h}
  OBVIOUS
<1> QED BY <1>1 DEF FirstDecides
-----------------------------------------------------------------------------
(* What a file gave is left as it is when the result is decoded *)

(***************************************************************************)
(* A section with its defaults, or the zero value.                         *)
(***************************************************************************)
Settled(s) == s = NoKeys \/ (Auth \in DOMAIN s /\ s # Only(Auth, FALSE))

LEMMA SectionIs ==
  ASSUME NEW s \in ConfigClusterConfig
  PROVE  s = [k \in DOMAIN s |-> s[k]]
<1>1. s \in PartialFunction(Keys \cup {Auth}, Values \cup BOOLEAN)
  BY Zenon DEF ConfigClusterConfig
<1> QED BY <1>1, PartialFunctionIs

LEMMA MergedInto ==
  ASSUME NEW s, NEW t, t = [k \in DOMAIN t |-> t[k]], DOMAIN s \subseteq DOMAIN t
  PROVE  MergeMaps(s, t) = t
<1> DEFINE m == MergeMaps(s, t)
<1>1. /\ m = [k \in DOMAIN m |-> m[k]] /\ DOMAIN m = DOMAIN s \cup DOMAIN t
      /\ \A k \in DOMAIN t : m[k] = t[k]
  BY DEF MergeMaps
<1> HIDE DEF m
<1>2. DOMAIN m = DOMAIN t
  BY <1>1
<1>3. m = t
  BY <1>1, <1>2
<1> QED BY <1>3 DEF m

LEMMA SettledStays ==
  ASSUME NEW s \in ConfigClusterConfig, Settled(s)
  PROVE  SectionRead(s) = s
<1>1. CASE s = NoKeys
  BY <1>1 DEF SectionRead
<1>2. CASE Auth \in DOMAIN s /\ s # Only(Auth, FALSE)
  <2>1. DOMAIN Only(Auth, TRUE) \subseteq DOMAIN s
    BY <1>2 DEF Only
  <2>2. MergeMaps(Only(Auth, TRUE), s) = s
    BY <2>1, SectionIs, MergedInto
  <2> QED BY <1>2, <2>2, Zenon DEF SectionRead
<1> QED BY <1>1, <1>2 DEF Settled

LEMMA ReadSettles ==
  ASSUME NEW s \in ConfigClusterConfig
  PROVE  Settled(SectionRead(s))
<1> DEFINE full == MergeMaps(Only(Auth, TRUE), s)
<1>1. Auth \in DOMAIN full
  BY DEF MergeMaps, Only
<1> HIDE DEF full
<1>2. SectionRead(s) = IF s = NoKeys \/ full = Only(Auth, FALSE) THEN NoKeys ELSE full
  BY DEF SectionRead, full
<1> QED BY <1>1, <1>2, Zenon DEF Settled

LEMMA MergedSettled ==
  ASSUME NEW s \in ConfigClusterConfig, NEW t \in ConfigClusterConfig, Settled(s), Settled(t)
  PROVE  Settled(MergeMaps(s, t))
<1> DEFINE m == MergeMaps(s, t)
<1>1. /\ m = [k \in DOMAIN m |-> m[k]] /\ DOMAIN m = DOMAIN s \cup DOMAIN t
      /\ \A k \in DOMAIN t : m[k] = t[k]
      /\ \A k \in DOMAIN s \ DOMAIN t : m[k] = s[k]
  BY DEF MergeMaps
<1>2. s = [k \in DOMAIN s |-> s[k]] /\ t = [k \in DOMAIN t |-> t[k]]
  BY SectionIs
<1> HIDE DEF m
<1>3. CASE t = NoKeys
  <2>1. DOMAIN m = DOMAIN s /\ \A k \in DOMAIN s : m[k] = s[k]
    BY <1>1, <1>3 DEF NoKeys
  <2>2. m = s
    BY <1>1, <1>2, <2>1
  <2> QED BY <2>2 DEF m
<1>4. CASE Auth \in DOMAIN t /\ t # Only(Auth, FALSE)
  <2>1. SUFFICES ASSUME m = Only(Auth, FALSE) PROVE FALSE
    BY <1>1, <1>4 DEF Settled, m
  <2>2. DOMAIN m = {Auth} /\ m[Auth] = FALSE
    BY <2>1 DEF Only
  <2>3. DOMAIN t = {Auth} /\ t[Auth] = FALSE
    BY <1>1, <1>4, <2>2
  <2>4. t = Only(Auth, FALSE)
    BY <1>2, <2>3 DEF Only
  <2> QED BY <1>4, <2>4
<1> QED BY <1>3, <1>4 DEF Settled

LEMMA LoadableSettled ==
  ASSUME NEW c \in Loadable, NEW i \in DOMAIN c.clusters
  PROVE  Settled(c.clusters[i].section)
<1>1. c # DefaultConfig
  BY ConfigAssumption
<1>2. PICK f \in Files : c = GenerateConfigFromBytes(f)
  BY <1>1 DEF Loadable
<1>3. f \in Configuration /\ f # Empty
  BY ConfigAssumption
<1>4. f.clusters \in Seq(ConfigCluster)
  BY <1>3 DEF Configuration
<1>5. c.clusters = [j \in DOMAIN f.clusters |->
                      [f.clusters[j] EXCEPT !.section = SectionRead(@)]]
  BY <1>2, <1>3 DEF GenerateConfigFromBytes
<1>6. i \in DOMAIN f.clusters /\ c.clusters[i] = [f.clusters[i] EXCEPT !.section = SectionRead(@)]
  BY <1>5
<1>7. f.clusters[i] \in ConfigCluster
  BY <1>4, <1>6
<1>8. f.clusters[i].section \in ConfigClusterConfig
  BY <1>7 DEF ConfigCluster
<1>9. c.clusters[i].section = SectionRead(f.clusters[i].section)
  BY <1>6, <1>7 DEF ConfigCluster
<1> QED BY <1>8, <1>9, ReadSettles

(***************************************************************************)
(* What koanf holds is a configuration that decoding leaves as it is.      *)
(***************************************************************************)
LEMMA DecodedAsItIs ==
  ASSUME NEW c \in Configuration, Timeout \in DOMAIN c.options,
         \A i \in DOMAIN c.clusters : Settled(c.clusters[i].section)
  PROVE  GenerateConfigFromBytes(c) = c
<1> DEFINE o == Only(Timeout, DefaultConfig.options[Timeout])
           list == [i \in DOMAIN c.clusters |-> [c.clusters[i] EXCEPT !.section = SectionRead(@)]]
<1>1. /\ c = [options |-> c.options, clusters |-> c.clusters]
      /\ c.options \in PartialFunction(Options, Values)
      /\ c.clusters \in Seq(ConfigCluster)
  BY DEF Configuration
<1>2. c # Empty
  BY ConfigAssumption
<1>3. MergeMaps(o, c.options) = c.options
  <2>1. c.options = [k \in DOMAIN c.options |-> c.options[k]]
    BY <1>1, PartialFunctionIs
  <2>2. DOMAIN o \subseteq DOMAIN c.options
    BY DEF Only
  <2> HIDE DEF o
  <2> QED BY <2>1, <2>2, MergedInto, Zenon
<1>4. ASSUME NEW i \in DOMAIN c.clusters
      PROVE  [c.clusters[i] EXCEPT !.section = SectionRead(@)] = c.clusters[i]
  <2>1. c.clusters[i] \in ConfigCluster
    BY <1>1
  <2>2. SectionRead(c.clusters[i].section) = c.clusters[i].section
    BY <2>1, SettledStays DEF ConfigCluster
  <2> QED BY <2>1, <2>2 DEF ConfigCluster
<1>5. list = c.clusters
  <2>1. c.clusters = [i \in DOMAIN c.clusters |-> c.clusters[i]]
    BY <1>1
  <2> QED BY <1>4, <2>1
<1>6. GenerateConfigFromBytes(c) = [options |-> MergeMaps(o, c.options), clusters |-> list]
  BY <1>2 DEF GenerateConfigFromBytes
<1> HIDE DEF o, list
<1> QED BY <1>1, <1>3, <1>5, <1>6
-----------------------------------------------------------------------------
(* What is merged so far *)

(***************************************************************************)
(* The positions of the clusters that are merged, for each configuration,  *)
(* and how many of the configurations have given their options.            *)
(***************************************************************************)
Taken ==
  [j \in DOMAIN loaded |->
     {p \in DOMAIN loaded[j].clusters :
        j <= merged \/ (j = merged + 1 /\ stage = "clusters" /\ p < at)}]
Count == IF stage = "clusters" THEN merged + 1 ELSE merged

(***************************************************************************)
(* What the positions T of a list name, what they say of the cluster n,    *)
(* and what all the configurations say of it; the options of the first k.  *)
(***************************************************************************)
NamesIn(list, T) == {list[p].name : p \in T}
Given(list, T, n) ==
  IF n \in NamesIn(list, T)
  THEN list[CHOOSE p \in T : list[p].name = n].section ELSE NoKeys
SectionsGiven(ls, T, n) == [j \in DOMAIN ls |-> Given(ls[j].clusters, T[j], n)]
OptionsGiven(ls, k) == [j \in DOMAIN ls |-> IF j <= k THEN ls[j].options ELSE NoKeys]

LoadedUnique == \A j \in DOMAIN loaded : NamesUnique(loaded[j])

OptionsSoFar == FirstDecides(ko.options, OptionsGiven(loaded, Count))

NamesSoFar ==
  \A n \in ClusterNames :
    n \in NamesOf(ko) <=> \E j \in DOMAIN loaded : n \in NamesIn(loaded[j].clusters, Taken[j])

SectionsSoFar ==
  LoadedUnique =>
    /\ NamesUnique(ko)
    /\ \A i \in DOMAIN ko.clusters :
         FirstDecides(ko.clusters[i].section, SectionsGiven(loaded, Taken, ko.clusters[i].name))

KoSettled == \A i \in DOMAIN ko.clusters : Settled(ko.clusters[i].section)

ClustersSoFar == NamesSoFar /\ SectionsSoFar /\ KoSettled

(***************************************************************************)
(* Everything koanf holds comes from what is merged, and decoding leaves   *)
(* it as it is.                                                            *)
(***************************************************************************)
LoadInv ==
  /\ LoadOK /\ OptionsSoFar /\ ClustersSoFar
  /\ stage = "done" => GlobalConfig = ko

LEMMA GivenIs ==
  ASSUME NEW list, NEW T, T \subseteq DOMAIN list, NEW p \in T,
         \A i, j \in DOMAIN list : list[i].name = list[j].name => i = j
  PROVE  Given(list, T, list[p].name) = list[p].section
<1> DEFINE q == CHOOSE q \in T : list[q].name = list[p].name
<1>1. q \in T /\ list[q].name = list[p].name
  OBVIOUS
<1>2. q = p
  BY <1>1
<1>3. list[p].name \in NamesIn(list, T)
  BY DEF NamesIn
<1> QED BY <1>2, <1>3 DEF Given

LEMMA NothingGiven ==
  ASSUME NEW list, NEW T, NEW n, \A p \in T : list[p].name # n
  PROVE  Given(list, T, n) = NoKeys
BY DEF Given, NamesIn

(***************************************************************************)
(* One more cluster of a list changes what is said of this cluster alone.  *)
(***************************************************************************)
OneTakenAlso(ls, N, m, p, T, U) ==
  /\ N \in Nat /\ DOMAIN ls = 1..N /\ m \in 1..N
  /\ p \in DOMAIN ls[m].clusters /\ p \notin T[m] /\ T[m] \subseteq DOMAIN ls[m].clusters
  /\ U[m] = T[m] \cup {p}
  /\ \A j \in 1..N \ {m} : U[j] = T[j]
  /\ \A j \in m + 1..N : T[j] = {}

LEMMA OneMore ==
  ASSUME NEW ls, NEW N, NEW m, NEW p, NEW T, NEW U, OneTakenAlso(ls, N, m, p, T, U),
         NamesUnique(ls[m]), NEW n, n = ls[m].clusters[p].name
  PROVE  /\ SectionsGiven(ls, U, n)[m] = ls[m].clusters[p].section
         /\ \A j \in 1..N \ {m} : SectionsGiven(ls, U, n)[j] = SectionsGiven(ls, T, n)[j]
         /\ \A j \in m..N : DOMAIN SectionsGiven(ls, T, n)[j] = {}
         /\ \A q : q # n => SectionsGiven(ls, U, q) = SectionsGiven(ls, T, q)
<1> USE DEF OneTakenAlso
<1> DEFINE list == ls[m].clusters
<1>1. \A i, j \in DOMAIN list : list[i].name = list[j].name => i = j
  BY DEF NamesUnique
<1>2. U[m] \subseteq DOMAIN list /\ p \in U[m]
  OBVIOUS
<1>3. Given(list, U[m], n) = list[p].section
  BY <1>1, <1>2, GivenIs
<1>4. DOMAIN Given(list, T[m], n) = {}
  <2>1. \A q \in T[m] : list[q].name # n
    BY <1>1
  <2>2. Given(list, T[m], n) = NoKeys
    BY <2>1, NothingGiven
  <2> QED BY <2>2 DEF NoKeys
<1>5. ASSUME NEW j \in m..N PROVE DOMAIN Given(ls[j].clusters, T[j], n) = {}
  <2>1. CASE j = m
    BY <1>4, <2>1
  <2>2. CASE j # m
    <3>1. T[j] = {}
      BY <2>2
    <3>2. Given(ls[j].clusters, T[j], n) = NoKeys
      BY <3>1, NothingGiven
    <3> QED BY <3>2 DEF NoKeys
  <2> QED BY <2>1, <2>2
<1>6. ASSUME NEW q, q # n PROVE Given(list, U[m], q) = Given(list, T[m], q)
  <2>1. CASE \E r \in T[m] : list[r].name = q
    <3>1. PICK r \in T[m] : list[r].name = q
      BY <2>1
    <3>2. Given(list, T[m], q) = list[r].section
      BY <1>1, <3>1, GivenIs
    <3>3. r \in U[m]
      BY <3>1
    <3>4. Given(list, U[m], list[r].name) = list[r].section
      <4> HIDE DEF list
      <4> QED BY <1>1, <1>2, <3>3, GivenIs
    <3> QED BY <3>1, <3>2, <3>4
  <2>2. CASE \A r \in T[m] : list[r].name # q
    <3>1. \A r \in U[m] : list[r].name # q
      BY <1>6, <2>2
    <3> QED BY <2>2, <3>1, NothingGiven
  <2> QED BY <2>1, <2>2
<1>7. ASSUME NEW q, q # n PROVE SectionsGiven(ls, U, q) = SectionsGiven(ls, T, q)
  <2>1. \A j \in DOMAIN ls : Given(ls[j].clusters, U[j], q) = Given(ls[j].clusters, T[j], q)
    BY <1>6, <1>7
  <2> QED BY <2>1 DEF SectionsGiven
<1>8. SectionsGiven(ls, U, n)[m] = list[p].section
  BY <1>3 DEF SectionsGiven
<1>9. \A j \in m..N : DOMAIN SectionsGiven(ls, T, n)[j] = {}
  BY <1>5 DEF SectionsGiven
<1>10. \A j \in 1..N \ {m} : SectionsGiven(ls, U, n)[j] = SectionsGiven(ls, T, n)[j]
  BY DEF SectionsGiven
<1> QED BY <1>7, <1>8, <1>9, <1>10

(***************************************************************************)
(* Before anything is merged, and as long as what is merged and what       *)
(* koanf holds stay the same.                                              *)
(***************************************************************************)
LEMMA NothingMerged ==
  LoadOK /\ merged = 0 /\ stage # "clusters" => OptionsSoFar /\ ClustersSoFar
<1> SUFFICES ASSUME LoadOK, merged = 0, stage # "clusters"
             PROVE  OptionsSoFar /\ ClustersSoFar
  OBVIOUS
<1>1. /\ ko = [options |-> NoKeys, clusters |-> <<>>]
      /\ loaded \in Seq(Loadable)
  BY DEF LoadOK, LoadShape, LoadTypeOK
<1>2. \A j \in DOMAIN loaded : j \in Nat /\ ~(j <= 0)
  BY <1>1
<1>3. OptionsSoFar
  <2>1. Count = 0 /\ ko.options = NoKeys
    BY <1>1 DEF Count
  <2>2. \A j \in DOMAIN loaded : OptionsGiven(loaded, Count)[j] = NoKeys
    BY <1>2, <2>1 DEF OptionsGiven
  <2>3. DOMAIN OptionsGiven(loaded, Count) = DOMAIN loaded
    BY DEF OptionsGiven
  <2>4. DOMAIN NoKeys = {}
    BY DEF NoKeys
  <2> QED BY <2>1, <2>2, <2>3, <2>4 DEF OptionsSoFar, FirstDecides
<1>4. DOMAIN ko.clusters = {}
  BY <1>1
<1>5. \A j \in DOMAIN loaded : Taken[j] = {}
  BY <1>2 DEF Taken
<1>6. NamesSoFar
  BY <1>4, <1>5 DEF NamesSoFar, NamesOf, NamesIn
<1> QED BY <1>3, <1>4, <1>6 DEF ClustersSoFar, SectionsSoFar, NamesUnique, KoSettled

LEMMA ClustersKept ==
  ASSUME ClustersSoFar, loaded' = loaded, Taken' = Taken, ko'.clusters = ko.clusters
  PROVE  ClustersSoFar'
BY DEF ClustersSoFar, NamesSoFar, SectionsSoFar, KoSettled, NamesOf, NamesUnique, LoadedUnique

LEMMA LoadedIs ==
  ASSUME LoadOK
  PROVE  /\ Len(loaded) \in 1..3 /\ DOMAIN loaded = 1..Len(loaded) /\ merged \in 0..Len(loaded)
         /\ loaded[1] = DefaultConfig
         /\ \A j \in DOMAIN loaded :
              /\ loaded[j] \in Loadable
              /\ loaded[j].options \in PartialFunction(Options, Values)
              /\ loaded[j].clusters \in Seq(ConfigCluster)
<1>1. loaded \in Seq(Loadable) /\ Len(loaded) \in 1..3 /\ merged \in 0..Len(loaded)
  BY DEF LoadOK, LoadTypeOK
<1>2. \A j \in DOMAIN loaded : loaded[j] \in Loadable
  BY <1>1
<1>3. ASSUME NEW j \in DOMAIN loaded
      PROVE  /\ loaded[j].options \in PartialFunction(Options, Values)
             /\ loaded[j].clusters \in Seq(ConfigCluster)
  <2>1. loaded[j] \in Configuration
    BY <1>2, LoadableTyped
  <2> QED BY <2>1 DEF Configuration
<1>4. loaded[1] = DefaultConfig
  BY DEF LoadOK, LoadShape
<1> QED BY <1>1, <1>2, <1>3, <1>4

(***************************************************************************)
(* The options of the next configuration.                                  *)
(***************************************************************************)
LEMMA OptionsMerged ==
  ASSUME LoadInv, Merge
  PROVE  OptionsSoFar'
<1> DEFINE N == Len(loaded)
           g == OptionsGiven(loaded, merged)
           h == OptionsGiven(loaded, merged + 1)
<1>1. /\ N \in Nat /\ DOMAIN loaded = 1..N /\ merged \in Nat /\ merged + 1 \in 1..N
      /\ loaded' = loaded /\ Count = merged /\ Count' = merged + 1
  BY LoadedIs DEF LoadInv, LoadOK, LoadTypeOK, Merge, Count
<1>2. FirstDecides(ko.options, g)
  BY <1>1 DEF LoadInv, OptionsSoFar
<1>3. /\ DOMAIN g = 1..N /\ DOMAIN h = 1..N
      /\ \A j \in 1..N \ {merged + 1} : h[j] = g[j]
      /\ h[merged + 1] = Src.options
      /\ \A j \in merged + 1..N : g[j] = NoKeys
  BY <1>1 DEF OptionsGiven, Src
<1>4. \A j \in merged + 1..N : DOMAIN g[j] = {}
  BY <1>3 DEF NoKeys
<1>5. ko'.options = MergeMaps(Src.options, ko.options)
  BY DEF Merge
<1>6. FirstDecides(MergeMaps(h[merged + 1], ko.options), h)
  <2> HIDE DEF N, g, h
  <2> QED BY <1>1, <1>2, <1>3, <1>4, DecidesNext
<1> QED BY <1>1, <1>3, <1>5, <1>6 DEF OptionsSoFar

(***************************************************************************)
(* The list of clusters, if there was none: as there were no clusters in   *)
(* the configurations before, all there is to say comes from this one.     *)
(***************************************************************************)
LEMMA ListCopied ==
  ASSUME LoadInv, Merge, ko.clusters = <<>>
  PROVE  ClustersSoFar'
<1> DEFINE N == Len(loaded)
           m == merged + 1
           list == Src.clusters
<1>1. /\ N \in Nat /\ DOMAIN loaded = 1..N /\ merged \in Nat /\ m \in 1..N
      /\ loaded' = loaded /\ merged' = merged /\ stage = "merge" /\ stage' = "clusters"
      /\ ko'.clusters = list /\ at' = Len(list) + 1
      /\ Src = loaded[m]
  BY LoadedIs DEF LoadInv, LoadOK, LoadTypeOK, Merge, Src
<1>2. /\ Src \in Loadable /\ list \in Seq(ConfigCluster)
      /\ \A j \in DOMAIN loaded : loaded[j].clusters \in Seq(ConfigCluster)
  BY <1>1, LoadedIs DEF LoadInv
<1>3. \A j \in DOMAIN loaded : Taken[j] = {}
  <2> SUFFICES ASSUME NEW j \in DOMAIN loaded, NEW p \in Taken[j] PROVE FALSE
    OBVIOUS
  <2>1. p \in DOMAIN loaded[j].clusters
    BY DEF Taken
  <2>2. loaded[j].clusters[p] \in ConfigCluster
    BY <1>2, <2>1
  <2>3. loaded[j].clusters[p].name \in ClusterNames
    BY <2>2 DEF ConfigCluster
  <2>4. loaded[j].clusters[p].name \in NamesIn(loaded[j].clusters, Taken[j])
    BY DEF NamesIn
  <2>5. NamesOf(ko) = {}
    BY DEF NamesOf
  <2> QED BY <2>3, <2>4, <2>5 DEF LoadInv, ClustersSoFar, NamesSoFar
<1>4. /\ DOMAIN Taken' = 1..N
      /\ Taken'[m] = DOMAIN list
      /\ \A j \in 1..N \ {m} : Taken'[j] = {}
  <2>1. Taken' = [j \in 1..N |->
                    {p \in DOMAIN loaded[j].clusters : j <= merged \/ (j = m /\ p < Len(list) + 1)}]
    BY <1>1 DEF Taken
  <2>2. \A p \in DOMAIN list : p < Len(list) + 1
    BY <1>2
  <2>3. ASSUME NEW j \in 1..N \ {m} PROVE Taken'[j] = {}
    <3>1. CASE j <= merged
      <4>1. Taken[j] = DOMAIN loaded[j].clusters
        BY <1>1, <3>1 DEF Taken
      <4> QED BY <1>1, <1>3, <2>1, <4>1
    <3>2. CASE ~(j <= merged)
      BY <1>1, <2>1, <3>2
    <3> QED BY <3>1, <3>2
  <2>4. Taken'[m] = DOMAIN list
    <3>1. Taken'[m] = {p \in DOMAIN list : p < Len(list) + 1}
      BY <1>1, <2>1
    <3> QED BY <2>2, <3>1
  <2> QED BY <2>1, <2>3, <2>4
<1>5. NamesSoFar'
  <2>1. \A n : n \in NamesOf(ko)' <=> n \in NamesIn(list, DOMAIN list)
    BY <1>1 DEF NamesOf, NamesIn
  <2>2. \A n : \A j \in 1..N \ {m} : n \notin NamesIn(loaded[j].clusters, Taken'[j])
    BY <1>4 DEF NamesIn
  <2>3. \A n : (\E j \in 1..N : n \in NamesIn(loaded[j].clusters, Taken'[j])) <=>
                  n \in NamesIn(list, DOMAIN list)
    <3> HIDE DEF m, N, list
    <3>1. loaded[m].clusters = list
      BY <1>1 DEF list
    <3> QED BY <1>1, <1>4, <2>2, <3>1, Zenon
  <2> QED BY <1>1, <2>1, <2>3 DEF NamesSoFar
<1>6. KoSettled'
  BY <1>1, <1>2, LoadableSettled DEF KoSettled
<1>7. ASSUME LoadedUnique
      PROVE  /\ NamesUnique(ko)'
             /\ \A i \in DOMAIN list :
                  FirstDecides(list[i].section, SectionsGiven(loaded, Taken', list[i].name))
  <2>1. NamesUnique(loaded[m])
    BY <1>1, <1>7 DEF LoadedUnique
  <2>2. \A i, j \in DOMAIN list : list[i].name = list[j].name => i = j
    BY <1>1, <2>1 DEF NamesUnique
  <2>3. NamesUnique(ko)'
    BY <1>1, <2>2 DEF NamesUnique
  <2>4. ASSUME NEW i \in DOMAIN list
        PROVE  FirstDecides(list[i].section, SectionsGiven(loaded, Taken', list[i].name))
    <3> DEFINE h == SectionsGiven(loaded, Taken', list[i].name)
    <3>1. Given(list, DOMAIN list, list[i].name) = list[i].section
      <4> HIDE DEF list
      <4> QED BY <2>2, GivenIs
    <3>2. DOMAIN h = 1..N /\ h[m] = list[i].section
      BY <1>1, <1>4, <3>1 DEF SectionsGiven
    <3>3. ASSUME NEW j \in 1..N \ {m} PROVE DOMAIN h[j] = {}
      <4>1. Given(loaded[j].clusters, Taken'[j], list[i].name) = NoKeys
        BY <1>4, NothingGiven
      <4> QED BY <1>1, <4>1 DEF SectionsGiven, NoKeys
    <3> HIDE DEF h, m, N
    <3>4. FirstDecides(h[m], h)
      BY <1>1, <3>2, <3>3, DecidesAlone
    <3> QED BY <3>2, <3>4 DEF h
  <2> QED BY <2>3, <2>4
<1>8. LoadedUnique' => LoadedUnique
  BY <1>1 DEF LoadedUnique
<1>9. SectionsSoFar'
  BY <1>1, <1>7, <1>8 DEF SectionsSoFar
<1> QED BY <1>5, <1>6, <1>9 DEF ClustersSoFar

(***************************************************************************)
(* One more cluster of the list is merged.                                 *)
(***************************************************************************)
LEMMA OneTaken ==
  ASSUME LoadInv, MergeCluster
  PROVE  LET m == merged + 1
         IN  /\ m \in DOMAIN loaded /\ Src = loaded[m] /\ Src \in Loadable
             /\ at \in DOMAIN Src.clusters /\ Src.clusters[at] \in ConfigCluster
             /\ DOMAIN Taken = DOMAIN loaded /\ DOMAIN Taken' = DOMAIN loaded
             /\ Taken[m] \subseteq DOMAIN Src.clusters /\ at \notin Taken[m]
             /\ Taken'[m] = Taken[m] \cup {at}
             /\ \A j \in DOMAIN loaded \ {m} : Taken'[j] = Taken[j]
             /\ \A j \in m + 1..Len(loaded) : Taken[j] = {}
             /\ loaded' = loaded
<1> DEFINE N == Len(loaded)
           m == merged + 1
<1>1. /\ N \in Nat /\ DOMAIN loaded = 1..N /\ merged \in Nat /\ m \in 1..N
      /\ loaded' = loaded /\ merged' = merged /\ stage = "clusters" /\ stage' = "clusters"
      /\ at' = at + 1 /\ Src = loaded[m]
  BY LoadedIs DEF LoadInv, LoadOK, LoadTypeOK, MergeCluster, Src
<1>2. Src \in Loadable /\ Src.clusters \in Seq(ConfigCluster)
  BY <1>1, LoadedIs DEF LoadInv
<1>3. at \in DOMAIN Src.clusters /\ at \in Nat /\ Src.clusters[at] \in ConfigCluster
  BY <1>2 DEF MergeCluster
<1>4. Taken = [j \in 1..N |-> {p \in DOMAIN loaded[j].clusters :
                                j <= merged \/ (j = m /\ p < at)}]
  BY <1>1 DEF Taken
<1>5. Taken' = [j \in 1..N |-> {p \in DOMAIN loaded[j].clusters :
                                j <= merged \/ (j = m /\ p < at + 1)}]
  BY <1>1 DEF Taken
<1>6. Taken[m] = {p \in DOMAIN Src.clusters : p < at}
  BY <1>1, <1>4
<1>7. Taken'[m] = {p \in DOMAIN Src.clusters : p < at + 1}
  BY <1>1, <1>5
<1>8. \A p \in DOMAIN Src.clusters : p < at + 1 <=> p < at \/ p = at
  BY <1>2, <1>3
<1>9. Taken'[m] = Taken[m] \cup {at} /\ at \notin Taken[m] /\ Taken[m] \subseteq DOMAIN Src.clusters
  <2> HIDE DEF m
  <2> QED BY <1>3, <1>6, <1>7, <1>8
<1>10. \A j \in 1..N \ {m} : Taken'[j] = Taken[j]
  BY <1>1, <1>4, <1>5
<1>11. \A j \in m + 1..N : Taken[j] = {}
  BY <1>1, <1>4
<1>12. DOMAIN Taken = 1..N /\ DOMAIN Taken' = 1..N
  BY <1>4, <1>5
<1> HIDE DEF N, m
<1> QED BY <1>1, <1>2, <1>3, <1>9, <1>10, <1>11, <1>12 DEF N, m

LEMMA NamesMerged ==
  ASSUME LoadInv, MergeCluster
  PROVE  NamesSoFar'
<1> DEFINE m == merged + 1
           c == Src.clusters[at]
<1>1. /\ m \in DOMAIN loaded /\ Src = loaded[m]
      /\ Taken'[m] = Taken[m] \cup {at}
      /\ \A j \in DOMAIN loaded \ {m} : Taken'[j] = Taken[j]
      /\ loaded' = loaded
  BY OneTaken
<1>2. Appended \/ \E i \in DOMAIN ko.clusters : Merged(i)
  BY ClusterStep DEF LoadInv, LoadOK
<1>3. \A n : n \in NamesOf(ko)' <=> n \in NamesOf(ko) \/ n = c.name
  <2>1. CASE Appended
    BY <2>1 DEF Appended, NamesOf
  <2>2. ASSUME NEW i \in DOMAIN ko.clusters, Merged(i)
        PROVE  \A n : n \in NamesOf(ko)' <=> n \in NamesOf(ko) \/ n = c.name
    BY <2>2 DEF Merged, FirstNamed, NamesOf
  <2> QED BY <1>2, <2>1, <2>2
<1>4. \A n : n \in NamesIn(loaded[m].clusters, Taken'[m]) <=>
               n \in NamesIn(loaded[m].clusters, Taken[m]) \/ n = c.name
  BY <1>1 DEF NamesIn
<1> HIDE DEF m, c
<1>5. \A n : (\E j \in DOMAIN loaded : n \in NamesIn(loaded[j].clusters, Taken'[j])) <=>
               (\E j \in DOMAIN loaded : n \in NamesIn(loaded[j].clusters, Taken[j])) \/ n = c.name
  BY <1>1, <1>4, Zenon
<1> QED BY <1>1, <1>3, <1>5 DEF LoadInv, ClustersSoFar, NamesSoFar

LEMMA SettledMerged ==
  ASSUME LoadInv, MergeCluster
  PROVE  KoSettled'
<1> DEFINE c == Src.clusters[at]
<1>1. Settled(c.section) /\ c.section \in ConfigClusterConfig
  BY OneTaken, LoadableSettled DEF ConfigCluster
<1>2. \A j \in DOMAIN ko.clusters : /\ Settled(ko.clusters[j].section)
                                   /\ ko.clusters[j].section \in ConfigClusterConfig
  <2>1. ko.clusters \in Seq(ConfigCluster)
    BY KoTyped DEF LoadInv, LoadOK
  <2>2. \A j \in DOMAIN ko.clusters : ko.clusters[j] \in ConfigCluster
    BY <2>1
  <2> QED BY <2>2 DEF LoadInv, ClustersSoFar, KoSettled, ConfigCluster
<1>3. Appended \/ \E i \in DOMAIN ko.clusters : Merged(i)
  BY ClusterStep DEF LoadInv, LoadOK
<1>4. CASE Appended
  BY <1>1, <1>2, <1>4 DEF Appended, KoSettled
<1>5. ASSUME NEW i \in DOMAIN ko.clusters, Merged(i) PROVE KoSettled'
  <2>1. Settled(MergeMaps(c.section, ko.clusters[i].section))
    BY <1>1, <1>2, MergedSettled
  <2> QED BY <1>2, <1>5, <2>1 DEF Merged, KoSettled
<1> QED BY <1>3, <1>4, <1>5

(***************************************************************************)
(* What the cluster says counts where nothing was said before: in the      *)
(* cluster of that name, if there is one, and in a new one otherwise.      *)
(***************************************************************************)
LEMMA SectionsMerged ==
  ASSUME LoadInv, MergeCluster
  PROVE  SectionsSoFar'
<1> DEFINE N == Len(loaded)
           m == merged + 1
           c == Src.clusters[at]
           g(n) == SectionsGiven(loaded, Taken, n)
           h(n) == SectionsGiven(loaded, Taken', n)
<1>1. /\ N \in Nat /\ DOMAIN loaded = 1..N
      /\ m \in 1..N /\ Src = loaded[m] /\ at \in DOMAIN loaded[m].clusters
      /\ Taken[m] \subseteq DOMAIN loaded[m].clusters /\ at \notin Taken[m]
      /\ Taken'[m] = Taken[m] \cup {at}
      /\ \A j \in 1..N \ {m} : Taken'[j] = Taken[j]
      /\ \A j \in m + 1..N : Taken[j] = {}
      /\ loaded' = loaded /\ c \in ConfigCluster
  BY OneTaken, LoadedIs DEF LoadInv
<1>2. SUFFICES ASSUME LoadedUnique
      PROVE  /\ NamesUnique(ko)'
             /\ \A i \in DOMAIN ko'.clusters :
                  FirstDecides(ko'.clusters[i].section, h(ko'.clusters[i].name))
  BY <1>1 DEF SectionsSoFar, LoadedUnique
<1>3. /\ NamesUnique(ko)
      /\ \A i \in DOMAIN ko.clusters : FirstDecides(ko.clusters[i].section, g(ko.clusters[i].name))
  BY <1>2 DEF LoadInv, ClustersSoFar, SectionsSoFar
<1>4. NamesUnique(loaded[m])
  BY <1>1, <1>2 DEF LoadedUnique
<1>5. /\ h(c.name)[m] = c.section
      /\ \A j \in 1..N \ {m} : h(c.name)[j] = g(c.name)[j]
      /\ \A j \in m..N : DOMAIN g(c.name)[j] = {}
      /\ \A q : q # c.name => h(q) = g(q)
  <2> DEFINE U == Taken'
             n == loaded[m].clusters[at].name
  <2>1. n = c.name /\ loaded[m].clusters[at].section = c.section
    BY <1>1
  <2>2. OneTakenAlso(loaded, N, m, at, Taken, U)
    <3> HIDE DEF m, N
    <3> QED BY <1>1 DEF U, OneTakenAlso
  <2> HIDE DEF m, N, U, c
  <2>3. /\ SectionsGiven(loaded, U, n)[m] = loaded[m].clusters[at].section
        /\ \A j \in 1..N \ {m} : SectionsGiven(loaded, U, n)[j] = SectionsGiven(loaded, Taken, n)[j]
        /\ \A j \in m..N : DOMAIN SectionsGiven(loaded, Taken, n)[j] = {}
        /\ \A q : q # n => SectionsGiven(loaded, U, q) = SectionsGiven(loaded, Taken, q)
    BY <1>4, <2>2, OneMore
  <2> HIDE DEF n
  <2> QED BY <2>1, <2>3 DEF U, g, h
<1>6. \A n : DOMAIN g(n) = 1..N /\ DOMAIN h(n) = 1..N
  BY <1>1 DEF SectionsGiven
<1>7. ko.clusters \in Seq(ConfigCluster)
  BY KoTyped DEF LoadInv, LoadOK
<1> HIDE DEF N, m, c, g, h
<1>8. ASSUME NEW i \in DOMAIN ko.clusters, Merged(i)
      PROVE  /\ NamesUnique(ko)'
             /\ \A j \in DOMAIN ko'.clusters :
                  FirstDecides(ko'.clusters[j].section, h(ko'.clusters[j].name))
  <2>1. /\ DOMAIN ko'.clusters = DOMAIN ko.clusters
        /\ \A j \in DOMAIN ko.clusters : ko'.clusters[j].name = ko.clusters[j].name
        /\ \A j \in DOMAIN ko.clusters \ {i} : ko'.clusters[j].section = ko.clusters[j].section
        /\ ko'.clusters[i].section = MergeMaps(c.section, ko.clusters[i].section)
        /\ ko.clusters[i].name = c.name
    BY <1>8 DEF Merged, FirstNamed, c
  <2>2. FirstDecides(MergeMaps(h(c.name)[m], ko.clusters[i].section), h(c.name))
    <3>1. FirstDecides(ko.clusters[i].section, g(c.name))
      BY <1>3, <2>1
    <3> QED BY <1>1, <1>5, <1>6, <3>1, DecidesNext
  <2>3. NamesUnique(ko)'
    BY <1>3, <2>1 DEF NamesUnique
  <2>4. ASSUME NEW j \in DOMAIN ko.clusters
        PROVE  FirstDecides(ko'.clusters[j].section, h(ko'.clusters[j].name))
    <3>1. CASE j = i
      BY <1>5, <2>1, <2>2, <3>1
    <3>2. CASE j # i
      <4>1. ko.clusters[j].name # c.name
        BY <1>3, <2>1, <3>2 DEF NamesUnique
      <4>2. /\ ko'.clusters[j].name = ko.clusters[j].name
            /\ ko'.clusters[j].section = ko.clusters[j].section
            /\ h(ko.clusters[j].name) = g(ko.clusters[j].name)
        BY <1>5, <2>1, <3>2, <4>1
      <4> QED BY <1>3, <4>2
    <3> QED BY <3>1, <3>2
  <2> QED BY <2>1, <2>3, <2>4
<1>9. CASE Appended
  <2> DEFINE last == Len(ko.clusters) + 1
  <2>1. /\ \A i \in DOMAIN ko.clusters : ko.clusters[i].name # c.name
        /\ DOMAIN ko'.clusters = DOMAIN ko.clusters \cup {last}
        /\ \A i \in DOMAIN ko.clusters : ko'.clusters[i] = ko.clusters[i]
        /\ ko'.clusters[last] = c
    BY <1>9 DEF Appended, c
  <2> HIDE DEF last
  <2>2. NamesUnique(ko)'
    <3>1. \A i, j \in DOMAIN ko.clusters : ko.clusters[i].name = ko.clusters[j].name => i = j
      BY <1>3 DEF NamesUnique
    <3>2. \A i, j \in DOMAIN ko'.clusters : ko'.clusters[i].name = ko'.clusters[j].name => i = j
      BY <2>1, <3>1
    <3> QED BY <3>2 DEF NamesUnique
  <2>3. ASSUME NEW j \in 1..N \ {m} PROVE DOMAIN h(c.name)[j] = {}
    <3>1. c.name \notin NamesOf(ko) /\ c.name \in ClusterNames
      BY <1>1, <2>1 DEF NamesOf, ConfigCluster
    <3>2. c.name \notin NamesIn(loaded[j].clusters, Taken[j])
      BY <1>1, <3>1 DEF LoadInv, ClustersSoFar, NamesSoFar
    <3>3. g(c.name)[j] = NoKeys
      BY <1>1, <3>2 DEF g, SectionsGiven, Given
    <3> QED BY <1>5, <3>3 DEF NoKeys
  <2>4. FirstDecides(h(c.name)[m], h(c.name))
    BY <1>1, <1>6, <2>3, DecidesAlone
  <2>5. ASSUME NEW i \in DOMAIN ko'.clusters
        PROVE  FirstDecides(ko'.clusters[i].section, h(ko'.clusters[i].name))
    <3>1. CASE i = last
      BY <1>5, <2>1, <2>4, <3>1
    <3>2. CASE i \in DOMAIN ko.clusters
      <4>1. ko'.clusters[i] = ko.clusters[i] /\ h(ko.clusters[i].name) = g(ko.clusters[i].name)
        BY <1>5, <2>1, <3>2
      <4> QED BY <1>3, <3>2, <4>1
    <3> QED BY <2>1, <3>1, <3>2
  <2> QED BY <2>2, <2>5
<1>10. Appended \/ \E i \in DOMAIN ko.clusters : Merged(i)
  BY ClusterStep DEF LoadInv, LoadOK
<1> QED BY <1>8, <1>9, <1>10

-----------------------------------------------------------------------------
(* The invariant *)

LEMMA LoadInitInv == LoadInit => LoadInv
<1> SUFFICES ASSUME LoadInit PROVE LoadInv
  OBVIOUS
<1>1. LoadOK /\ merged = 0 /\ stage = "system"
  BY LoadInitOK DEF LoadInit
<1> QED BY <1>1, NothingMerged DEF LoadInv

LEMMA DecodedIsKo ==
  ASSUME LoadInv, Decode
  PROVE  GlobalConfig' = ko
<1>1. merged = Len(loaded) /\ Count = merged
  BY DEF Decode, LoadInv, LoadOK, LoadTypeOK, Count
<1>2. 1 \in DOMAIN loaded /\ loaded[1] = DefaultConfig /\ 1 <= merged
  BY <1>1, LoadedIs DEF LoadInv
<1>3. OptionsGiven(loaded, Count)[1] = DefaultConfig.options
  BY <1>1, <1>2 DEF OptionsGiven
<1>4. Timeout \in DOMAIN ko.options
  <2> DEFINE g == OptionsGiven(loaded, Count)
  <2>1. DOMAIN ko.options = UNION {DOMAIN g[i] : i \in DOMAIN g}
    BY Zenon DEF LoadInv, OptionsSoFar, FirstDecides
  <2>2. 1 \in DOMAIN g
    BY <1>2 DEF OptionsGiven
  <2> HIDE DEF g
  <2>3. Timeout \in DOMAIN g[1]
    BY <1>3, ConfigAssumption DEF g
  <2> QED BY <2>1, <2>2, <2>3
<1>5. ko \in Configuration
  BY DEF LoadInv, LoadOK, LoadTypeOK
<1>6. GenerateConfigFromBytes(ko) = ko
  BY <1>4, <1>5, DecodedAsItIs DEF LoadInv, ClustersSoFar, KoSettled
<1> QED BY <1>6 DEF Decode

LEMMA LoadNextInv == LoadInv /\ [LoadNext]_loadVars => LoadInv'
<1> SUFFICES ASSUME LoadInv, [LoadNext]_loadVars PROVE LoadInv'
  OBVIOUS
<1>0. LoadOK'
  BY LoadNextOK DEF LoadInv
<1>a. ASSUME stage \in {"system", "user"}, stage' \in {"user", "merge", "failed"}, merged' = merged
      PROVE  LoadInv'
  <2>1. merged' = 0 /\ stage' # "clusters" /\ stage' # "done"
    BY <1>a DEF LoadInv, LoadOK, LoadShape
  <2>2. (LoadOK /\ merged = 0 /\ stage # "clusters" => OptionsSoFar /\ ClustersSoFar)'
    BY NothingMerged, PTL
  <2> QED BY <1>0, <2>1, <2>2 DEF LoadInv
<1>1. ASSUME ReadSystem PROVE LoadInv'
  BY <1>a, <1>1 DEF ReadSystem, ReadFile
<1>2. ASSUME ReadUser PROVE LoadInv'
  BY <1>a, <1>2 DEF ReadUser, ReadFile
<1>3. ASSUME Merge PROVE LoadInv'
  <2>1. OptionsSoFar'
    BY <1>3, OptionsMerged
  <2>2. ClustersSoFar'
    <3>1. CASE ko.clusters = <<>>
      BY <1>3, <3>1, ListCopied
    <3>2. CASE ko.clusters # <<>>
      <4>1. /\ loaded' = loaded /\ merged' = merged /\ ko'.clusters = ko.clusters
            /\ stage = "merge" /\ stage' = "clusters" /\ at' = 1
        BY <1>3, <3>2 DEF Merge
      <4>2. Taken = [j \in DOMAIN loaded |-> {p \in DOMAIN loaded[j].clusters : j <= merged}]
        BY <4>1 DEF Taken
      <4>3. Taken' = [j \in DOMAIN loaded |-> {p \in DOMAIN loaded[j].clusters :
                                                j <= merged \/ (j = merged + 1 /\ p < 1)}]
        BY <4>1 DEF Taken
      <4>4. \A j \in DOMAIN loaded : \A p \in DOMAIN loaded[j].clusters : ~(p < 1)
        BY LoadedIs DEF LoadInv
      <4>5. Taken' = Taken
        BY <4>2, <4>3, <4>4
      <4> QED BY <4>1, <4>5, ClustersKept DEF LoadInv
    <3> QED BY <3>1, <3>2
  <2>3. stage' = "clusters"
    BY <1>3 DEF Merge
  <2> QED BY <1>0, <2>1, <2>2, <2>3 DEF LoadInv
<1>4. ASSUME MergeCluster PROVE LoadInv'
  <2>1. ClustersSoFar'
    BY <1>4, NamesMerged, SettledMerged, SectionsMerged DEF ClustersSoFar
  <2>2. ko'.options = ko.options
    BY <1>4, ClusterStep DEF LoadInv, LoadOK
  <2>3. UNCHANGED <<loaded, merged, stage>> /\ stage = "clusters"
    BY <1>4 DEF MergeCluster
  <2>4. OptionsSoFar'
    BY <2>2, <2>3 DEF LoadInv, OptionsSoFar, Count
  <2> QED BY <1>0, <2>1, <2>3, <2>4 DEF LoadInv
<1>5. ASSUME NextConfig PROVE LoadInv'
  <2>1. /\ loaded' = loaded /\ ko' = ko /\ merged' = merged + 1 /\ at > Len(Src.clusters)
        /\ stage = "clusters" /\ stage' \in {"decode", "merge"} /\ merged \in Nat
        /\ merged < Len(loaded)
    BY <1>5, LoadedIs DEF NextConfig, LoadInv, LoadOK, LoadTypeOK
  <2>2. OptionsSoFar'
    BY <2>1 DEF LoadInv, OptionsSoFar, Count
  <2>3. Taken' = Taken
    <3>1. /\ DOMAIN loaded = 1..Len(loaded) /\ Len(loaded) \in Nat
          /\ \A j \in DOMAIN loaded : loaded[j].clusters \in Seq(ConfigCluster)
      BY LoadedIs DEF LoadInv
    <3>2. Taken = [j \in DOMAIN loaded |-> {p \in DOMAIN loaded[j].clusters :
                                             j <= merged \/ (j = merged + 1 /\ p < at)}]
      BY <2>1 DEF Taken
    <3>3. Taken' = [j \in DOMAIN loaded |-> {p \in DOMAIN loaded[j].clusters : j <= merged + 1}]
      BY <2>1 DEF Taken
    <3>4. at \in Nat
      BY <2>1, SrcTyped DEF LoadInv, LoadOK, LoadTypeOK
    <3>5. \A p \in DOMAIN loaded[merged + 1].clusters : p < at
      <4>1. loaded[merged + 1].clusters \in Seq(ConfigCluster)
        BY <2>1, <3>1
      <4> QED BY <2>1, <3>4, <4>1 DEF Src
    <3>6. \A j \in DOMAIN loaded : \A p \in DOMAIN loaded[j].clusters :
            (j <= merged \/ (j = merged + 1 /\ p < at)) <=> j <= merged + 1
      BY <2>1, <3>1, <3>5
    <3> QED BY <3>2, <3>3, <3>6
  <2> QED BY <1>0, <2>1, <2>2, <2>3, ClustersKept DEF LoadInv
<1>6. ASSUME Decode PROVE LoadInv'
  <2>1. UNCHANGED <<loaded, merged, at, ko>> /\ stage = "decode" /\ stage' = "done"
    BY <1>6 DEF Decode
  <2>2. Taken' = Taken /\ OptionsSoFar'
    BY <2>1 DEF LoadInv, OptionsSoFar, Count, Taken
  <2> QED BY <1>0, <1>6, <2>1, <2>2, ClustersKept, DecodedIsKo DEF LoadInv
<1>7. ASSUME UNCHANGED loadVars PROVE LoadInv'
  <2>1. UNCHANGED <<stage, loaded, merged, at, ko, GlobalConfig>>
    BY <1>7 DEF loadVars
  <2>2. Taken' = Taken /\ OptionsSoFar'
    BY <2>1 DEF LoadInv, OptionsSoFar, Count, Taken
  <2> QED BY <1>0, <2>1, <2>2, ClustersKept DEF LoadInv
<1> QED BY <1>1, <1>2, <1>3, <1>4, <1>5, <1>6, <1>7 DEF LoadNext, LoadEnded

LEMMA LoadInvHolds == LoadSpec => []LoadInv
BY LoadInitInv, LoadNextInv, PTL DEF LoadSpec

(***************************************************************************)
(* At the end everything is merged.                                        *)
(***************************************************************************)
LEMMA AllTaken ==
  ASSUME LoadInv, stage = "done"
  PROVE  /\ GlobalConfig = ko
         /\ FirstDecides(ko.options, [i \in DOMAIN loaded |-> loaded[i].options])
         /\ Taken = [j \in DOMAIN loaded |-> DOMAIN loaded[j].clusters]
<1>1. merged = Len(loaded) /\ Count = merged /\ GlobalConfig = ko
  BY DEF LoadInv, LoadOK, LoadTypeOK, Count
<1>2. \A j \in DOMAIN loaded : j <= merged
  BY <1>1, LoadedIs DEF LoadInv
<1>3. OptionsGiven(loaded, Count) = [i \in DOMAIN loaded |-> loaded[i].options]
  BY <1>1, <1>2 DEF OptionsGiven
<1>4. Taken = [j \in DOMAIN loaded |-> DOMAIN loaded[j].clusters]
  BY <1>2 DEF Taken
<1> QED BY <1>1, <1>3, <1>4 DEF LoadInv, OptionsSoFar

(***************************************************************************)
(* However the files overlap, every option and every option of every       *)
(* cluster has the value of the first configuration that sets it.          *)
(***************************************************************************)
THEOREM FirstLoadedAlwaysDecides == LoadSpec => []FirstLoadedDecides
<1>1. ASSUME LoadInv, stage = "done" PROVE FirstLoadedDecides
  <2> USE <1>1
  <2> DEFINE Said(n) == [j \in DOMAIN loaded |->
                          IF n \in NamesOf(loaded[j])
                          THEN CHOOSE s \in SectionsOf(loaded[j], n) : TRUE ELSE NoKeys]
  <2>1. ASSUME LoadedUnique, NEW n PROVE SectionsGiven(loaded, Taken, n) = Said(n)
    <3>1. ASSUME NEW j \in DOMAIN loaded PROVE SectionsGiven(loaded, Taken, n)[j] = Said(n)[j]
      <4> DEFINE list == loaded[j].clusters
      <4>1. SectionsGiven(loaded, Taken, n)[j] = Given(list, DOMAIN list, n)
        BY AllTaken DEF SectionsGiven
      <4>2. CASE n \in NamesOf(loaded[j])
        <5>1. PICK p \in DOMAIN list : list[p].name = n
          BY <4>2 DEF NamesOf
        <5>2. \A q, r \in DOMAIN list : list[q].name = list[r].name => q = r
          BY <2>1 DEF NamesUnique, LoadedUnique
        <5>3. Given(list, DOMAIN list, list[p].name) = list[p].section
          <6> HIDE DEF list
          <6> QED BY <5>2, GivenIs
        <5>4. SectionsOf(loaded[j], n) = {list[p].section}
          BY <5>1, <5>2 DEF SectionsOf
        <5> QED BY <4>1, <4>2, <5>1, <5>3, <5>4
      <4>3. CASE n \notin NamesOf(loaded[j])
        BY <4>1, <4>3 DEF NamesOf, NamesIn, Given
      <4> QED BY <4>2, <4>3
    <3> QED BY <3>1 DEF SectionsGiven
  <2>2. ASSUME LoadedUnique, NEW i \in DOMAIN GlobalConfig.clusters
        PROVE  FirstDecides(GlobalConfig.clusters[i].section, Said(GlobalConfig.clusters[i].name))
    <3>1. FirstDecides(ko.clusters[i].section, SectionsGiven(loaded, Taken, ko.clusters[i].name))
      BY <2>2, AllTaken DEF LoadInv, ClustersSoFar, SectionsSoFar
    <3> HIDE DEF Said
    <3> QED BY <2>1, <2>2, <3>1, AllTaken
  <2>3. FirstDecides(GlobalConfig.options, [i \in DOMAIN loaded |-> loaded[i].options])
    BY AllTaken
  <2> QED BY <2>2, <2>3 DEF FirstLoadedDecides, LoadedUnique
<1>2. LoadInv => FirstLoadedDecides
  BY <1>1 DEF FirstLoadedDecides
<1> QED BY <1>2, LoadInvHolds, PTL

LEMMA NamesAtTheEnd ==
  ASSUME LoadInv, stage = "done"
  PROVE  NamesOf(GlobalConfig) = UNION {NamesOf(loaded[i]) : i \in DOMAIN loaded}
<1>1. \A n \in ClusterNames : n \in NamesOf(ko) <=> \E j \in DOMAIN loaded : n \in NamesOf(loaded[j])
  BY AllTaken DEF LoadInv, ClustersSoFar, NamesSoFar, NamesOf, NamesIn
<1>2. NamesOf(ko) \subseteq ClusterNames
  <2>1. ko.clusters \in Seq(ConfigCluster)
    BY KoTyped DEF LoadInv, LoadOK
  <2>2. \A i \in DOMAIN ko.clusters : ko.clusters[i] \in ConfigCluster
    BY <2>1
  <2> QED BY <2>2 DEF NamesOf, ConfigCluster
<1>3. ASSUME NEW j \in DOMAIN loaded PROVE NamesOf(loaded[j]) \subseteq ClusterNames
  <2>1. loaded[j].clusters \in Seq(ConfigCluster)
    BY LoadedIs DEF LoadInv
  <2>2. \A i \in DOMAIN loaded[j].clusters : loaded[j].clusters[i] \in ConfigCluster
    BY <2>1
  <2> QED BY <2>2 DEF NamesOf, ConfigCluster
<1> QED BY <1>1, <1>2, <1>3, AllTaken

(***************************************************************************)
(* No cluster of any file is lost, and none is there twice.                *)
(***************************************************************************)
THEOREM ClustersAlwaysMerged == LoadSpec => []ClustersMerged
<1>1. LoadInv => ClustersMerged
  <2> SUFFICES ASSUME LoadInv, stage = "done" PROVE ClustersMerged
    BY DEF ClustersMerged
  <2>1. LoadedUnique => NamesUnique(GlobalConfig)
    BY AllTaken DEF LoadInv, ClustersSoFar, SectionsSoFar
  <2> QED BY <2>1, NamesAtTheEnd DEF ClustersMerged, LoadedUnique
<1> QED BY <1>1, LoadInvHolds, PTL

(***************************************************************************)
(* The default cluster resolves, whichever configuration names it.         *)
(***************************************************************************)
THEOREM DefaultAlwaysResolves == LoadSpec => []DefaultResolves
<1>1. LoadInv => DefaultResolves
  <2> SUFFICES ASSUME LoadInv, stage = "done",
                      \A i \in DOMAIN loaded : Resolves(loaded[i]),
                      DefaultCluster \in DOMAIN ko.options
               PROVE  ko.options[DefaultCluster] \in NamesOf(GlobalConfig)
    BY AllTaken DEF DefaultResolves, Resolves
  <2> DEFINE g == [i \in DOMAIN loaded |-> loaded[i].options]
             Sets(i) == DefaultCluster \in DOMAIN g[i]
  <2>1. FirstDecides(ko.options, g)
    BY AllTaken
  <2>2. DOMAIN g = 1..Len(loaded) /\ Len(loaded) \in 1..3
    BY LoadedIs DEF LoadInv
  <2>3. \E i \in 1..Len(loaded) : Sets(i)
    <3> HIDE DEF g
    <3> QED BY <2>1, <2>2 DEF FirstDecides
  <2>4. PICK i \in 1..Len(loaded) : Sets(i) /\ \A j \in 1..i - 1 : ~Sets(j)
    <3> HIDE DEF Sets
    <3> QED BY <2>2, <2>3
  <2>5. ko.options[DefaultCluster] = g[i][DefaultCluster]
    <3> HIDE DEF g
    <3> QED BY <2>1, <2>2, <2>4 DEF FirstDecides
  <2>6. loaded[i].options[DefaultCluster] \in NamesOf(loaded[i])
    BY <2>2, <2>4 DEF Resolves
  <2> QED BY <2>2, <2>4, <2>5, <2>6, NamesAtTheEnd
<1> QED BY <1>1, LoadInvHolds, PTL

-----------------------------------------------------------------------------
(* ClusterSession: types *)

(***************************************************************************)
(* The inputs of the command, which no step changes.                       *)
(***************************************************************************)
InputsOK ==
  /\ config \in Config /\ flags \in FlagSet /\ Exclusive(flags)
  /\ env \in [Vars -> Tokens \cup {NoToken}]

LEMMA InputsTyped == TypeOK => InputsOK
BY InputAssumption DEF TypeOK, InputsOK

Bases == [host : Absolute \cup Hostless \cup {NoURI}, path : Relative \cup {NoURI}]

(***************************************************************************)
(* The section of any name, known or not, has the fields of a section.     *)
(***************************************************************************)
LEMMA SectionTyped ==
  ASSUME TypeOK, NEW n
  PROVE  SectionOf(n).version \in Versions \cup {NoVersion}
<1>1. CASE n \in Known
  <2>1. config \in Config
    BY InputsTyped DEF InputsOK
  <2>2. config.clusters[n] \in Section
    BY <1>1, <2>1 DEF Known, Config
  <2> QED BY <1>1, <2>2 DEF SectionOf, Section
<1>2. CASE n \notin Known
  BY <1>2 DEF SectionOf, NoSection
<1> QED BY <1>1, <1>2

(***************************************************************************)
(* A base URI is absolute, hostless, or an absolute one joined to a path.  *)
(***************************************************************************)
LEMMA BaseTyped == ASSUME NEW n PROVE BaseOf(n) \in Bases
<1> DEFINE s == MergeURIConfig(SectionOf(n))
<1>1. GetServiceBaseURI(s) \in Bases
  <2> HIDE DEF s
  <2> QED BY DEF GetServiceBaseURI, Bases, NoBase
<1> QED BY <1>1 DEF BaseOf

(***************************************************************************)
(* Every variable keeps its type.                                          *)
(***************************************************************************)
THEOREM TypeCorrect == Spec => []TypeOK
<1>1. Init => TypeOK
  <2> SUFFICES ASSUME Init PROVE TypeOK OBVIOUS
  <2>1. flags \in FlagSet
    BY InputAssumption DEF Init
  <2>2. token \in Tokens \cup {NoToken}
    BY <2>1 DEF Init, FlagSet
  <2> QED BY <2>2 DEF Init, TypeOK, NoBase
<1>2. TypeOK /\ [Next]_vars => TypeOK'
  <2> SUFFICES ASSUME TypeOK, [Next]_vars PROVE TypeOK' OBVIOUS
  <2> USE DEF Goto, Exit, inputs, TypeOK
  <2>1. CASE GetBaseURI
    <3>1. base' \in Bases
      BY <2>1, BaseTyped DEF GetBaseURI, Bases
    <3> QED BY <2>1, <3>1 DEF GetBaseURI, Bases
  <2>2. CASE GetAPIVersion
    <3>1. flags.version \in Versions \cup {NoVersion}
      BY InputsTyped DEF InputsOK, FlagSet
    <3>2. SectionOf(ClusterToUse).version \in Versions \cup {NoVersion}
      BY SectionTyped
    <3> QED BY <2>2, <3>1, <3>2 DEF GetAPIVersion
  <2>3. CASE HandleToken
    BY <2>3 DEF HandleToken
  <2>4. CASE SetToken
    <3>1. env[EnvVar[TokenCluster]] \in Tokens \cup {NoToken} \/ TokenCluster = NoName
      <4>1. config.default \in Names \cup {NoName} /\ flags.cluster \in Names \cup {NoName}
        BY InputsTyped DEF InputsOK, Config, FlagSet
      <4>2. CASE TokenCluster # NoName
        <5>1. TokenCluster \in Names
          BY <4>1, <4>2 DEF TokenCluster
        <5>2. EnvVar[TokenCluster] \in Vars
          BY <5>1, InputAssumption
        <5> QED BY <5>2, InputsTyped DEF InputsOK
      <4> QED BY <4>2
    <3> QED BY <2>4, <3>1 DEF SetToken
  <2>5. CASE CheckToken
    BY <2>5 DEF CheckToken
  <2>6. CASE Send
    BY <2>6 DEF Send
  <2>7. CASE Done
    BY <2>7 DEF Done, vars
  <2>8. CASE UNCHANGED vars
    BY <2>8 DEF vars
  <2> QED BY <2>1, <2>2, <2>3, <2>4, <2>5, <2>6, <2>7, <2>8 DEF Next
<1> QED BY <1>1, <1>2, PTL DEF Spec

-----------------------------------------------------------------------------
(* Authentication *)

MustAuthenticate == kind = "handle" /\ ~flags.noToken /\ Asks(TokenCluster)

(***************************************************************************)
(* Already when a request is about to be sent the token has been checked.  *)
(***************************************************************************)
Checked == pc \in {"send", "sent"} /\ MustAuthenticate => token \in Valid

(***************************************************************************)
(* A request to a cluster with authentication carries a checked token,     *)
(* unless --cluster names another one, which does not ask for it: without  *)
(* such a clash the cluster of the token is the one of the request.        *)
(***************************************************************************)
THEOREM AuthAlwaysEnforced == Spec => []AuthIsEnforced
<1>1. Init => Checked
  BY DEF Init, Checked
<1>2. TypeOK /\ Checked /\ [Next]_vars => Checked'
  <2> SUFFICES ASSUME TypeOK, Checked, [Next]_vars PROVE Checked' OBVIOUS
  <2>1. NoName \notin Known
    BY InputsTyped, InputAssumption DEF InputsOK, Config, Known
  <2>2. MustAuthenticate' <=> MustAuthenticate
    BY DEF Next, GetBaseURI, GetAPIVersion, HandleToken, SetToken, CheckToken, Send, Done,
       Goto, Exit, inputs, vars, MustAuthenticate, Asks, TokenCluster, Known
  <2> USE <2>2 DEF Checked, Goto, Exit
  <2>3. CASE GetBaseURI
    BY <2>3 DEF GetBaseURI
  <2>4. CASE GetAPIVersion
    BY <2>4 DEF GetAPIVersion
  <2>5. CASE HandleToken
    BY <2>5, <2>1 DEF HandleToken, MustAuthenticate, Asks
  <2>6. CASE SetToken
    BY <2>6 DEF SetToken
  <2>7. CASE CheckToken
    BY <2>7 DEF CheckToken
  <2>8. CASE Send
    BY <2>8 DEF Send, MustAuthenticate
  <2>9. CASE Done
    BY <2>9 DEF Done, vars
  <2>10. CASE UNCHANGED vars
    BY <2>10 DEF vars
  <2> QED BY <2>3, <2>4, <2>5, <2>6, <2>7, <2>8, <2>9, <2>10 DEF Next
<1>3. Checked => AuthIsEnforced
  <2> SUFFICES ASSUME Checked, pc = "sent", kind = "handle", ~flags.noToken
               PROVE  /\ Asks(ClusterToUse) => token \in Valid \/ (Clash /\ ~Asks(flags.cluster))
                      /\ Asks(TokenCluster) => token \in Valid
    BY DEF AuthIsEnforced
  <2>1. Asks(TokenCluster) => token \in Valid
    BY DEF Checked, MustAuthenticate
  <2>2. IF Clash THEN TokenCluster = flags.cluster ELSE TokenCluster = ClusterToUse
    BY DEF Clash, TokenCluster, ClusterToUse
  <2> HIDE DEF Asks
  <2> QED BY <2>1, <2>2
<1> QED BY <1>1, <1>2, <1>3, TypeCorrect, PTL DEF Spec

-----------------------------------------------------------------------------
(* One cluster *)

Started == pc \notin {"uri", "exit"}

(***************************************************************************)
(* What the command has resolved so far: a base URI and then a version,    *)
(* both from ClusterToUse, and a token from the command line or from       *)
(* TokenCluster's variable.                                                *)
(***************************************************************************)
BaseResolved ==
  Started => ClusterToUse \in Known \cup {NoName} /\ base = BaseOf(ClusterToUse)

VersionResolved ==
  Started /\ pc # "version" =>
    version = IF flags.version # NoVersion THEN flags.version
              ELSE SectionOf(ClusterToUse).version

TokenResolved ==
  \/ token = flags.token
  \/ token = NoToken
  \/ TokenCluster # NoName /\ token = env[EnvVar[TokenCluster]]

Resolved == BaseResolved /\ VersionResolved /\ TokenResolved

(***************************************************************************)
(* No step changes what the inputs determine.                              *)
(***************************************************************************)
LEMMA InputsKept ==
  ASSUME [Next]_vars
  PROVE  /\ UNCHANGED inputs
         /\ UNCHANGED <<ClusterToUse, TokenCluster, Known>>
         /\ \A n : UNCHANGED <<SectionOf(n), BaseOf(n)>>
<1>1. UNCHANGED inputs
  BY DEF Next, GetBaseURI, GetAPIVersion, HandleToken, SetToken, CheckToken, Send, Done,
     Goto, Exit, inputs, vars
<1>2. config' = config /\ flags' = flags
  BY <1>1 DEF inputs
<1>3. UNCHANGED <<ClusterToUse, TokenCluster, Known>>
  BY <1>2 DEF ClusterToUse, TokenCluster, Known
<1>4. \A n : UNCHANGED <<SectionOf(n), BaseOf(n)>>
  BY <1>2 DEF SectionOf, Known, BaseOf, GetServiceBaseURI, MergeURIConfig
<1> QED BY <1>1, <1>3, <1>4

(***************************************************************************)
(* Base URI and version come from ClusterToUse and the token from          *)
(* TokenCluster, at every step.                                            *)
(***************************************************************************)
LEMMA AlwaysResolved == Spec => []Resolved
<1>1. Init => Resolved
  BY DEF Init, Resolved, BaseResolved, VersionResolved, TokenResolved, Started
<1>2. Resolved /\ [Next]_vars => Resolved'
  <2> SUFFICES ASSUME Resolved, [Next]_vars PROVE Resolved' OBVIOUS
  <2>1. config' = config /\ flags' = flags /\ env' = env
    BY InputsKept DEF inputs
  <2>2. ClusterToUse' = ClusterToUse /\ TokenCluster' = TokenCluster /\ Known' = Known
    BY InputsKept
  <2>3. \A n : SectionOf(n)' = SectionOf(n) /\ BaseOf(n)' = BaseOf(n)
    BY InputsKept
  <2> USE DEF Goto, Exit, Started
  <2>4. BaseResolved'
    <3>1. CASE pc = "uri"
      BY <3>1, <2>2, <2>3 DEF Next, GetBaseURI, GetAPIVersion, HandleToken, SetToken,
         CheckToken, Send, Done, vars, BaseResolved
    <3>2. CASE pc # "uri"
      <4>1. base' = base /\ (Started' => Started)
        BY <3>2 DEF Next, GetBaseURI, GetAPIVersion, HandleToken, SetToken, CheckToken,
           Send, Done, vars
      <4> QED BY <4>1, <2>2, <2>3 DEF Resolved, BaseResolved
    <3> QED BY <3>1, <3>2
  <2>5. VersionResolved'
    <3>1. CASE pc = "version"
      BY <3>1, <2>1, <2>2, <2>3 DEF Next, GetBaseURI, GetAPIVersion, HandleToken, SetToken,
         CheckToken, Send, Done, vars, VersionResolved
    <3>2. CASE pc # "version"
      <4>1. version' = version /\ (Started' /\ pc' # "version" => Started)
        BY <3>2 DEF Next, GetBaseURI, GetAPIVersion, HandleToken, SetToken, CheckToken,
           Send, Done, vars
      <4> QED BY <4>1, <3>2, <2>1, <2>2, <2>3 DEF Resolved, VersionResolved
    <3> QED BY <3>1, <3>2
  <2>6. TokenResolved'
    <3>1. CASE SetToken
      BY <3>1, <2>1, <2>2 DEF SetToken, Resolved, TokenResolved
    <3>2. CASE ~SetToken
      <4>1. token' \in {token, NoToken}
        BY <3>2 DEF Next, GetBaseURI, GetAPIVersion, HandleToken, CheckToken, Send, Done, vars
      <4> QED BY <4>1, <2>1, <2>2 DEF Resolved, TokenResolved
    <3> QED BY <3>1, <3>2
  <2> QED BY <2>4, <2>5, <2>6 DEF Resolved
<1> QED BY <1>1, <1>2, PTL DEF Spec

(***************************************************************************)
(* A token from the environment goes to the cluster it is the token of,    *)
(* unless --cluster and default-cluster disagree: then and only then the   *)
(* two functions choose different clusters.                                *)
(***************************************************************************)
THEOREM TokenAlwaysMatches == Spec => []TokenMatchesCluster
<1>1. Resolved => TokenMatchesCluster
  <2> SUFFICES ASSUME Resolved, pc = "sent", FromEnv, ~Clash
               PROVE  \E n \in Known : base = BaseOf(n) /\ token = env[EnvVar[n]]
    BY DEF TokenMatchesCluster
  <2>1. TokenCluster # NoName /\ token = env[EnvVar[TokenCluster]]
    BY DEF Resolved, TokenResolved, FromEnv
  <2>2. TokenCluster = ClusterToUse
    BY DEF Clash, TokenCluster, ClusterToUse
  <2>3. ClusterToUse \in Known /\ base = BaseOf(ClusterToUse)
    BY <2>1, <2>2 DEF Resolved, BaseResolved, Started
  <2> QED BY <2>1, <2>2, <2>3
<1> QED BY <1>1, AlwaysResolved, PTL

(***************************************************************************)
(* The API version and the base URI come from one cluster.                 *)
(***************************************************************************)
THEOREM VersionAlwaysMatches == Spec => []VersionMatchesBase
<1>1. Resolved => VersionMatchesBase
  BY DEF Resolved, BaseResolved, VersionResolved, Started, VersionMatchesBase
<1> QED BY <1>1, AlwaysResolved, PTL
=============================================================================
