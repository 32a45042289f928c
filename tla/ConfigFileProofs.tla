---------------------------- MODULE ConfigFileProofs ----------------------------
(***************************************************************************)
(* Proofs about ConfigFile, for any number of processes, names, keys and   *)
(* values, any commands, with and without faults.  The last part shows     *)
(* that ConfigFile implements ConfigStore: a process alone, which no fault *)
(* stops, changes the file as one step of the store would, and turns       *)
(* enable-auth off for no cluster that it is not told to.                  *)
(***************************************************************************)
EXTENDS ConfigFile, SequenceTheorems, WellFoundedInduction, TLAPS

SectionOps == {"clusterSet", "clusterAuth", "clusterRename", "clusterUnset",
               "clusterUnsetAuth", "clusterClear"}

-----------------------------------------------------------------------------
(* What is read is a configuration *)

LEMMA EmptyIsConfig == EmptyConfig \in Config /\ UniqueNames(EmptyConfig) /\ Resolves(EmptyConfig)
  BY DefaultsAssumption DEF Config, EmptyConfig, UniqueNames, Resolves, NamesIn

LEMMA DecodedType ==
  ASSUME NEW f \in Files
  PROVE  Decoded(f) \in Config
  BY DEF Decoded, Files

LEMMA DecodedText ==
  ASSUME NEW b
  PROVE  Decoded(Text(b)) = b
  BY DEF Decoded, Text

LEMMA DecodedBlank == Decoded(Blank) = EmptyConfig
  BY DEF Decoded, Blank

LEMMA BlankFormed == WellFormed(Absent) /\ WellFormed(Blank)
  BY EmptyIsConfig DEF WellFormed, Absent, Blank, Files

LEMMA TextFormed ==
  ASSUME NEW b \in Config
  PROVE  WellFormed(Text(b)) /\ WellFormed(Garbled(b))
  BY DEF WellFormed, Text, Garbled, Files

-----------------------------------------------------------------------------
(* The list of clusters *)

LEMMA LeastElement ==
  ASSUME NEW T, T \subseteq Nat, T # {}
  PROVE  \E x \in T : \A y \in T : ~(y < x)
  <1> DEFINE R == {ss \in Nat \X Nat : ss[1] < ss[2]}
  <1>1. IsWellFoundedOn(R, Nat)
    BY NatLessThanWellFounded DEF OpToRel
  <1>2. \E x \in T : \A y \in T : ~(<<y, x>> \in R)
    BY <1>1, WFMin
  <1> QED BY <1>2

LEMMA ClustersType ==
  ASSUME NEW cfg \in Config
  PROVE  /\ cfg.clusters \in Seq(Cluster)
         /\ DOMAIN cfg.clusters = 1..Len(cfg.clusters)
         /\ Len(cfg.clusters) \in Nat
         /\ \A i \in 1..Len(cfg.clusters) : cfg.clusters[i] \in Cluster
  <1>1. cfg.clusters \in Seq(Cluster)
    BY DEF Config
  <1> QED BY <1>1, ElementOfSeq, LenProperties

LEMMA FindFinds ==
  ASSUME NEW cfg \in Config, NEW n \in NamesIn(cfg)
  PROVE  /\ Find(cfg, n) \in 1..Len(cfg.clusters)
         /\ cfg.clusters[Find(cfg, n)].name = n
  <1> DEFINE s == cfg.clusters
             T == {i \in 1..Len(s) : s[i].name = n}
  <1>1. DOMAIN s = 1..Len(s) /\ Len(s) \in Nat
    BY ClustersType
  <1>2. T \subseteq Nat /\ T # {}
    BY <1>1 DEF NamesIn
  <1>3. PICK i \in T : \A j \in T : ~(j < i)
    BY <1>2, LeastElement
  <1>4. \A j \in 1..(i - 1) : s[j].name # n
    BY <1>1, <1>3
  <1> QED BY <1>1, <1>3, <1>4 DEF Find

LEMMA ClusterNamedType ==
  ASSUME NEW cfg \in Config, NEW n \in Names
  PROVE  ClusterNamed(cfg, n) \in Cluster /\ ClusterNamed(cfg, n).name = n
  <1>1. CASE n \in NamesIn(cfg)
    BY <1>1, FindFinds, ClustersType DEF ClusterNamed
  <1>2. CASE n \notin NamesIn(cfg)
    BY <1>2 DEF Cluster, ClusterNamed, NewCluster, BlankKeys
  <1> QED BY <1>1, <1>2

(***************************************************************************)
(* A command on a section leaves a section, under the same name unless it  *)
(* renames the cluster.                                                    *)
(***************************************************************************)
LEMMA ModifiedClusterType ==
  ASSUME NEW cl \in Cluster, NEW c \in Commands, c.op \in SectionOps
  PROVE  /\ ModifiedCluster(cl, c) \in Cluster
         /\ ModifiedCluster(cl, c).name = IF c.op = "clusterRename" THEN c.value ELSE cl.name
  <1>1. CASE c.op = "clusterSet"
    <2>1. c.key \in Keys /\ c.value \in Values
      BY <1>1, CommandAssumption
    <2>2. (HasSection(cl) => cl.auth) \in BOOLEAN
      BY DEF Cluster, HasSection
    <2> QED BY <1>1, <2>1, <2>2 DEF Cluster, ModifiedCluster, WithKey
  <1>2. CASE c.op = "clusterAuth"
    BY <1>2, CommandAssumption DEF Cluster, ModifiedCluster, WithAuth
  <1>3. CASE c.op = "clusterRename"
    BY <1>3, CommandAssumption DEF Cluster, ModifiedCluster, WithName
  <1>4. CASE c.op = "clusterUnset"
    BY <1>4, CommandAssumption DEF Cluster, ModifiedCluster, WithoutKey
  <1>5. CASE c.op = "clusterUnsetAuth"
    BY <1>5 DEF Cluster, ModifiedCluster, WithoutAuth
  <1>6. CASE c.op = "clusterClear"
    BY <1>6 DEF Cluster, ModifiedCluster, WithoutSection, NewCluster, BlankKeys
  <1> QED BY <1>1, <1>2, <1>3, <1>4, <1>5, <1>6 DEF SectionOps

(***************************************************************************)
(* An update replaces the cluster of that name or appends one.             *)
(***************************************************************************)
LEMMA UpdateInPlace ==
  ASSUME NEW cfg \in Config, NEW n \in NamesIn(cfg), NEW new \in Cluster
  PROVE  /\ Update(cfg, n, new) \in Seq(Cluster)
         /\ DOMAIN Update(cfg, n, new) = DOMAIN cfg.clusters
         /\ \A i \in DOMAIN cfg.clusters :
              Update(cfg, n, new)[i] = IF i = Find(cfg, n) THEN new ELSE cfg.clusters[i]
  <1> DEFINE s == cfg.clusters
  <1>1. s \in Seq(Cluster) /\ Find(cfg, n) \in 1..Len(s)
    BY FindFinds, ClustersType
  <1>2. Update(cfg, n, new) = [s EXCEPT ![Find(cfg, n)] = new]
    BY DEF Update
  <1> HIDE DEF s
  <1> QED BY <1>1, <1>2, ExceptSeq DEF s

LEMMA UpdateAppends ==
  ASSUME NEW cfg \in Config, NEW n \in Names, n \notin NamesIn(cfg), NEW new \in Cluster
  PROVE  /\ Update(cfg, n, new) \in Seq(Cluster)
         /\ DOMAIN Update(cfg, n, new) = 1..(Len(cfg.clusters) + 1)
         /\ \A i \in DOMAIN cfg.clusters : Update(cfg, n, new)[i] = cfg.clusters[i]
         /\ Update(cfg, n, new)[Len(cfg.clusters) + 1] = new
  BY ClustersType, AppendProperties DEF Update

LEMMA Removal ==
  ASSUME NEW s \in Seq(Cluster), NEW i \in DOMAIN s
  PROVE  /\ RemoveFromSlice(s, i) \in Seq(Cluster)
         /\ DOMAIN RemoveFromSlice(s, i) = 1..(Len(s) - 1)
         /\ \A j \in 1..(Len(s) - 1) :
              RemoveFromSlice(s, i)[j] = IF j = i THEN s[Len(s)] ELSE s[j]
  <1>1. Len(s) \in Nat /\ DOMAIN s = 1..Len(s)
    OBVIOUS
  <1>2. Len(s) - 1 \in Nat
    BY <1>1, SMT
  <1>3. \A j \in 1..(Len(s) - 1) : (IF j = i THEN s[Len(s)] ELSE s[j]) \in Cluster
    BY <1>1, ElementOfSeq
  <1> QED BY <1>2, <1>3, IsASeq DEF RemoveFromSlice

-----------------------------------------------------------------------------
(* What a command leaves in memory *)

(***************************************************************************)
(* The fields of Modified(cfg, c).                                         *)
(***************************************************************************)
LEMMA ModifiedFields ==
  ASSUME NEW cfg \in Config, NEW c \in Commands
  PROVE  /\ c.op \in {"set", "unset", "setDefault", "unsetDefault"}
              => Modified(cfg, c).clusters = cfg.clusters
         /\ c.op = "clusterDelete"
              => /\ Modified(cfg, c).clusters = RemoveFromSlice(cfg.clusters, Find(cfg, c.name))
                 /\ Modified(cfg, c).default =
                      IF cfg.default = c.name THEN NoValue ELSE cfg.default
         /\ c.op \in SectionOps
              => LET cl == ModifiedCluster(ClusterNamed(cfg, c.name), c)
                 IN  /\ Modified(cfg, c).clusters = Update(cfg, c.name, cl)
                     /\ Modified(cfg, c).default = DefaultAfterSet(cfg, c, cl.name)
         /\ c.op \in {"set", "unset"} => Modified(cfg, c).default = cfg.default
         /\ c.op = "unsetDefault" => Modified(cfg, c).default = NoValue
  BY DEF Config, Modified, SectionOps

LEMMA SectionCommand ==
  ASSUME NEW cfg \in Config, NEW c \in Commands, c.op \in SectionOps
  PROVE  LET cl == ModifiedCluster(ClusterNamed(cfg, c.name), c)
         IN  /\ c.name \in Names
             /\ cl \in Cluster
             /\ cl.name = IF c.op = "clusterRename" THEN c.value ELSE c.name
  <1>1. c.name \in Names
    BY CommandAssumption DEF SectionOps
  <1> QED BY <1>1, ClusterNamedType, ModifiedClusterType

LEMMA UpdateType ==
  ASSUME NEW cfg \in Config, NEW n \in Names, NEW new \in Cluster
  PROVE  Update(cfg, n, new) \in Seq(Cluster)
  BY UpdateInPlace, UpdateAppends

LEMMA ModifiedType ==
  ASSUME NEW cfg \in Config, NEW c \in Commands, ~Rejects(cfg, c)
  PROVE  Modified(cfg, c) \in Config
  <1>1. CASE c.op = "set"
    <2>1. c.key \in Options /\ c.value \in Values
      BY <1>1, CommandAssumption
    <2> QED BY <1>1, <2>1 DEF Config, Modified
  <1>2. CASE c.op = "unset"
    <2>1. c.key \in Options
      BY <1>2, CommandAssumption
    <2> QED BY <1>2, <2>1, DefaultsAssumption DEF Config, Modified
  <1>3. CASE c.op = "setDefault"
    <2>1. c.value \in Names
      BY <1>3, CommandAssumption
    <2> QED BY <1>3, <2>1 DEF Config, Modified
  <1>4. CASE c.op = "unsetDefault"
    BY <1>4 DEF Config, Modified
  <1>5. CASE c.op = "clusterDelete"
    <2>1. c.name \in NamesIn(cfg)
      BY <1>5 DEF Rejects
    <2>2. RemoveFromSlice(cfg.clusters, Find(cfg, c.name)) \in Seq(Cluster)
      BY <2>1, FindFinds, ClustersType, Removal
    <2> QED BY <1>5, <2>2 DEF Config, Modified
  <1>6. CASE c.op \in SectionOps
    <2> DEFINE cl == ModifiedCluster(ClusterNamed(cfg, c.name), c)
    <2>1. cl \in Cluster /\ c.name \in Names
      BY <1>6, SectionCommand
    <2>2. Update(cfg, c.name, cl) \in Seq(Cluster)
      BY <2>1, UpdateType
    <2>3. DefaultAfterSet(cfg, c, cl.name) \in Names \cup {NoValue}
      BY <2>1 DEF Cluster, Config, DefaultAfterSet
    <2>4. Modified(cfg, c) = [cfg EXCEPT !.clusters = Update(cfg, c.name, cl),
                                         !.default = DefaultAfterSet(cfg, c, cl.name)]
      BY <1>6 DEF Modified, SectionOps
    <2> HIDE DEF cl
    <2> QED BY <2>2, <2>3, <2>4 DEF Config
  <1> QED
    BY <1>1, <1>2, <1>3, <1>4, <1>5, <1>6, CommandAssumption DEF Command, SectionOps

(***************************************************************************)
(* No command gives two clusters one name.                                 *)
(***************************************************************************)
LEMMA ModifiedUnique ==
  ASSUME NEW cfg \in Config, NEW c \in Commands, ~Rejects(cfg, c), UniqueNames(cfg)
  PROVE  UniqueNames(Modified(cfg, c))
  <1>1. CASE c.op \in {"set", "unset", "setDefault", "unsetDefault"}
    BY <1>1, ModifiedFields DEF UniqueNames
  <1>2. CASE c.op = "clusterDelete"
    <2> DEFINE k == Find(cfg, c.name)
               s == cfg.clusters
    <2>1. k \in 1..Len(s)
      BY <1>2, FindFinds DEF Rejects
    <2>2. Modified(cfg, c).clusters = RemoveFromSlice(s, k)
      BY <1>2, ModifiedFields
    <2>3. /\ DOMAIN RemoveFromSlice(s, k) = 1..(Len(s) - 1)
          /\ \A j \in 1..(Len(s) - 1) :
               RemoveFromSlice(s, k)[j] = IF j = k THEN s[Len(s)] ELSE s[j]
      BY <2>1, ClustersType, Removal
    <2>4. Len(s) \in Nat /\ \A i, j \in 1..Len(s) : s[i].name = s[j].name => i = j
      BY ClustersType DEF UniqueNames
    <2> HIDE DEF k, s
    <2> QED BY <2>1, <2>2, <2>3, <2>4 DEF UniqueNames
  <1>3. CASE c.op \in SectionOps
    <2> DEFINE cl == ModifiedCluster(ClusterNamed(cfg, c.name), c)
               s == cfg.clusters
               t == Modified(cfg, c).clusters
    <2>1. c.name \in Names /\ cl \in Cluster /\ t = Update(cfg, c.name, cl)
      BY <1>3, SectionCommand, ModifiedFields
    <2>2. cl.name = c.name \/ cl.name \notin NamesIn(cfg)
      BY <1>3, SectionCommand DEF Rejects
    <2>3. Len(s) \in Nat /\ DOMAIN s = 1..Len(s)
          /\ \A i, j \in 1..Len(s) : s[i].name = s[j].name => i = j
      BY ClustersType DEF UniqueNames
    <2>4. \A i \in 1..Len(s) : s[i].name \in NamesIn(cfg)
      BY <2>3 DEF NamesIn
    <2>5. CASE c.name \in NamesIn(cfg)
      <3>1. /\ DOMAIN t = 1..Len(s)
            /\ \A i \in 1..Len(s) : t[i] = IF i = Find(cfg, c.name) THEN cl ELSE s[i]
            /\ Find(cfg, c.name) \in 1..Len(s)
            /\ s[Find(cfg, c.name)].name = c.name
        BY <2>1, <2>3, <2>5, UpdateInPlace, FindFinds
      <3> HIDE DEF cl, s, t
      <3> QED BY <2>2, <2>3, <2>4, <3>1 DEF UniqueNames, t
    <2>6. CASE c.name \notin NamesIn(cfg)
      <3>1. /\ DOMAIN t = 1..(Len(s) + 1)
            /\ \A i \in 1..Len(s) : t[i] = s[i]
            /\ t[Len(s) + 1] = cl
        BY <2>1, <2>3, <2>6, UpdateAppends
      <3>2. cl.name \notin NamesIn(cfg)
        BY <2>2, <2>6
      <3> HIDE DEF cl, s, t
      <3> QED BY <2>3, <2>4, <3>1, <3>2 DEF UniqueNames, t
    <2> QED BY <2>5, <2>6
  <1> QED
    BY <1>1, <1>2, <1>3, CommandAssumption DEF Command, SectionOps

(***************************************************************************)
(* No command but `config set default-cluster` leaves default-cluster      *)
(* without its cluster.  Unique names are needed: of two clusters of one   *)
(* name only the first would be renamed or deleted.                        *)
(***************************************************************************)
LEMMA ModifiedResolves ==
  ASSUME NEW cfg \in Config, NEW c \in Commands, ~Rejects(cfg, c),
         c.op # "setDefault", UniqueNames(cfg), Resolves(cfg)
  PROVE  Resolves(Modified(cfg, c))
  <1> DEFINE s == cfg.clusters
             t == Modified(cfg, c).clusters
             d == Modified(cfg, c).default
  <1>0. /\ Len(s) \in Nat /\ DOMAIN s = 1..Len(s)
        /\ \A n \in NamesIn(cfg) : \E i \in 1..Len(s) : s[i].name = n
        /\ \A i, j \in 1..Len(s) : s[i].name = s[j].name => i = j
    BY ClustersType DEF UniqueNames, NamesIn
  <1>1. SUFFICES ASSUME d # NoValue
                 PROVE  \E i \in DOMAIN t : t[i].name = d
    BY DEF Resolves, NamesIn
  <1>2. CASE c.op \in {"set", "unset", "unsetDefault"}
    BY <1>0, <1>1, <1>2, ModifiedFields DEF Resolves
  <1>3. CASE c.op = "clusterDelete"
    <2> DEFINE k == Find(cfg, c.name)
    <2>1. k \in 1..Len(s) /\ s[k].name = c.name
      BY <1>3, FindFinds DEF Rejects
    <2>2. /\ DOMAIN t = 1..(Len(s) - 1)
          /\ \A j \in 1..(Len(s) - 1) : t[j] = IF j = k THEN s[Len(s)] ELSE s[j]
      BY <1>3, <2>1, ClustersType, Removal, ModifiedFields
    <2>3. d = cfg.default /\ d # c.name /\ d \in NamesIn(cfg)
      BY <1>1, <1>3, ModifiedFields DEF Resolves
    <2>4. PICK j \in 1..Len(s) : s[j].name = d
      BY <1>0, <2>3
    <2> HIDE DEF k, s, t, d
    <2>5. CASE j = Len(s)
      <3>1. k \in 1..(Len(s) - 1)
        BY <1>0, <2>1, <2>3, <2>4, <2>5
      <3> QED BY <2>2, <2>4, <2>5, <3>1
    <2>6. CASE j # Len(s)
      <3>0. Len(s) \in Nat /\ j \in 1..Len(s) /\ j # Len(s)
        BY <1>0, <2>4, <2>6
      <3>1. j \in 1..(Len(s) - 1)
        BY <3>0
      <3>2. j # k
        BY <2>1, <2>3, <2>4
      <3> QED BY <2>2, <2>4, <3>1, <3>2
    <2> QED BY <2>5, <2>6
  <1>4. CASE c.op \in SectionOps
    <2> DEFINE cl == ModifiedCluster(ClusterNamed(cfg, c.name), c)
    <2>1. /\ c.name \in Names /\ cl \in Cluster
          /\ cl.name = IF c.op = "clusterRename" THEN c.value ELSE c.name
      BY <1>4, SectionCommand
    <2>2. t = Update(cfg, c.name, cl) /\ d = DefaultAfterSet(cfg, c, cl.name)
      BY <1>4, ModifiedFields
    <2>3. d = cl.name \/ (d = cfg.default /\ (c.op = "clusterRename" => d # c.name))
      BY <2>2 DEF DefaultAfterSet
    <2>4. d = cl.name \/ (d \in NamesIn(cfg) /\ d # c.name)
      BY <1>1, <2>1, <2>3 DEF Resolves
    <2>5. CASE c.name \in NamesIn(cfg)
      <3>1. /\ DOMAIN t = 1..Len(s)
            /\ \A i \in 1..Len(s) : t[i] = IF i = Find(cfg, c.name) THEN cl ELSE s[i]
            /\ Find(cfg, c.name) \in 1..Len(s)
            /\ s[Find(cfg, c.name)].name = c.name
        BY <1>0, <2>1, <2>2, <2>5, UpdateInPlace, FindFinds
      <3> HIDE DEF cl, s, t, d
      <3> QED BY <1>0, <2>4, <3>1
    <2>6. CASE c.name \notin NamesIn(cfg)
      <3>1. /\ DOMAIN t = 1..(Len(s) + 1)
            /\ \A i \in 1..Len(s) : t[i] = s[i]
            /\ t[Len(s) + 1] = cl
        BY <1>0, <2>1, <2>2, <2>6, UpdateAppends
      <3> HIDE DEF cl, s, t, d
      <3> QED BY <1>0, <2>4, <3>1
    <2> QED BY <2>5, <2>6
  <1> QED
    BY <1>2, <1>3, <1>4, CommandAssumption DEF Command, SectionOps

-----------------------------------------------------------------------------
(* Invariance *)

(***************************************************************************)
(* A torn text is well formed, or garbled.                                 *)
(***************************************************************************)
LEMMA SuffixType ==
  ASSUME NEW t \in Seq(Cluster), NEW u \in Suffixes(t)
  PROVE  u \in Seq(Cluster)
  <1>1. CASE u = <<>>
    BY <1>1
  <1>2. ASSUME NEW l \in 1..Len(t), u = SubSeq(t, l, Len(t))
        PROVE  u \in Seq(Cluster)
    <2>1. Len(t) \in Nat /\ l \in Int /\ \A i \in l..Len(t) : t[i] \in Cluster
      BY LenProperties, ElementOfSeq
    <2> QED BY <1>2, <2>1, SubSeqProperties
  <1> QED BY <1>1, <1>2 DEF Suffixes

LEMMA FirstPartType ==
  ASSUME NEW s \in Seq(Cluster), NEW i \in 1..Len(s)
  PROVE  SubSeq(s, 1, i - 1) \in Seq(Cluster)
  <1>1. Len(s) \in Nat /\ i - 1 \in Int /\ \A j \in 1..(i - 1) : s[j] \in Cluster
    BY LenProperties, ElementOfSeq
  <1> QED BY <1>1, SubSeqProperties

LEMMA ClustersBehindType ==
  ASSUME NEW s \in Seq(Cluster), NEW t \in Seq(Cluster), s # <<>>
  PROVE  ClustersBehind(s, t) \subseteq Seq(Cluster)
  <1>1. ASSUME NEW u \in Suffixes(t)
        PROVE  s \o u \in Seq(Cluster)
    BY SuffixType, ConcatProperties
  <1>2. ASSUME NEW u \in Suffixes(t) \ {<<>>}
        PROVE  Front(s) \o [u EXCEPT ![1].name = Last(s).name] \in Seq(Cluster)
    <2>1. Len(s) \in 1..Len(s)
      BY EmptySeq, LenProperties
    <2>2. Front(s) \in Seq(Cluster)
      BY <2>1, FirstPartType DEF Front
    <2>3. s[Len(s)] \in Cluster
      BY <2>1, ElementOfSeq
    <2>4. u \in Seq(Cluster) /\ 1 \in 1..Len(u)
      BY SuffixType, EmptySeq
    <2>5. u[1] \in Cluster
      BY <2>4, ElementOfSeq
    <2>6. [u[1] EXCEPT !.name = Last(s).name] \in Cluster
      BY <2>3, <2>5 DEF Last, Cluster
    <2>7. [u EXCEPT ![1] = [u[1] EXCEPT !.name = Last(s).name]] \in Seq(Cluster)
      BY <2>4, <2>6, ExceptSeq
    <2>8. [u EXCEPT ![1].name = Last(s).name]
            = [u EXCEPT ![1] = [u[1] EXCEPT !.name = Last(s).name]]
      OBVIOUS
    <2> QED BY <2>2, <2>7, <2>8, ConcatProperties
  <1> QED BY <1>1, <1>2 DEF ClustersBehind

LEMMA MixedType ==
  ASSUME NEW b \in Config, NEW f \in Files, NEW m \in Mixed(b, f)
  PROVE  WellFormed(m)
  <1> DEFINE r == Decoded(f)
  <1>1. r \in Config /\ b.clusters \in Seq(Cluster) /\ r.clusters \in Seq(Cluster)
    BY DecodedType, ClustersType
  <1>2. ASSUME NEW s \in Seq(Cluster)
        PROVE  [b EXCEPT !.clusters = s] \in Config
    BY DEF Config
  <1>3. [b EXCEPT !.clusters = b.clusters \o r.clusters] \in Config
    BY <1>1, <1>2, ConcatProperties
  <1>4. ASSUME NEW k \in KeysBehind(b, r)
        PROVE  k \in Config
    <2>1. PICK os, d :
            /\ k = [settings |-> [o \in Options |-> IF o \in os THEN r.settings[o] ELSE b.settings[o]],
                    default |-> d, clusters |-> r.clusters]
            /\ d \in {b.default, NoValue, r.default}
      BY DEF KeysBehind
    <2>2. d \in Names \cup {NoValue}
      BY <1>1, <2>1 DEF Config
    <2>3. [o \in Options |-> IF o \in os THEN r.settings[o] ELSE b.settings[o]]
            \in [Options -> Values \cup {NoValue}]
      BY <1>1 DEF Config
    <2> QED BY <1>1, <2>1, <2>2, <2>3 DEF Config
  <1>5. b.clusters # <<>> => ClustersBehind(b.clusters, r.clusters) \subseteq Seq(Cluster)
    BY <1>1, ClustersBehindType
  <1> HIDE DEF r
  <1>6. \E c \in Config : m \in {Text(c), Garbled(c)}
    BY <1>2, <1>3, <1>4, <1>5 DEF Mixed, r
  <1> QED BY <1>6, TextFormed

LEMMA CutClusterType ==
  ASSUME NEW cl \in Cluster, NEW c \in CutCluster(cl)
  PROVE  c \in Cluster
  <1>1. ASSUME NEW n \in Names
        PROVE  NewCluster(n) \in Cluster
    BY DEF NewCluster, Cluster, BlankKeys
  <1>2. ASSUME NEW ks
        PROVE  [cl EXCEPT !.keys = [k \in Keys |-> IF k \in ks THEN cl.keys[k] ELSE NoValue],
                          !.auth = TRUE] \in Cluster
    BY DEF Cluster
  <1> QED BY <1>1, <1>2 DEF CutCluster

LEMMA CutType ==
  ASSUME NEW b \in Config, NEW c \in Cut(b)
  PROVE  c \in Config
  <1>1. /\ b.clusters \in Seq(Cluster)
        /\ DOMAIN b.clusters = 1..Len(b.clusters)
        /\ \A i \in DOMAIN b.clusters : b.clusters[i] \in Cluster
    BY ClustersType
  <1>2. ASSUME NEW s \in Seq(Cluster)
        PROVE  [b EXCEPT !.clusters = s] \in Config
    BY DEF Config
  <1>3. ASSUME NEW os
        PROVE  [settings |-> [o \in Options |-> IF o \in os THEN b.settings[o] ELSE Defaults[o]],
                default |-> NoValue, clusters |-> <<>>] \in Config
    BY DefaultsAssumption DEF Config
  <1>4. ASSUME NEW n \in Names
        PROVE  [b EXCEPT !.default = IF b.default = NoValue THEN NoValue ELSE n,
                         !.clusters = <<>>] \in Config
    <2>1. <<>> \in Seq(Cluster)
      BY EmptySeq
    <2>2. (IF b.default = NoValue THEN NoValue ELSE n) \in Names \cup {NoValue}
      OBVIOUS
    <2> QED BY <2>1, <2>2 DEF Config
  <1>5. ASSUME NEW i \in DOMAIN b.clusters
        PROVE  /\ SubSeq(b.clusters, 1, i - 1) \in Seq(Cluster)
               /\ \A cl \in CutCluster(b.clusters[i]) :
                    Append(SubSeq(b.clusters, 1, i - 1), cl) \in Seq(Cluster)
    <2>1. SubSeq(b.clusters, 1, i - 1) \in Seq(Cluster)
      BY <1>1, FirstPartType
    <2> QED BY <1>1, <2>1, CutClusterType, AppendProperties
  <1>6. ASSUME NEW d, d \in UNION {{[b EXCEPT !.clusters = Append(SubSeq(b.clusters, 1, i - 1), cl)] :
                 cl \in CutCluster(b.clusters[i])} : i \in DOMAIN b.clusters}
        PROVE  d \in Config
    <2>1. PICK i \in DOMAIN b.clusters : \E cl \in CutCluster(b.clusters[i]) :
            d = [b EXCEPT !.clusters = Append(SubSeq(b.clusters, 1, i - 1), cl)]
      BY <1>6
    <2> QED BY <1>2, <1>5, <2>1
  <1>7. ASSUME NEW d, d \in {[b EXCEPT !.clusters = SubSeq(b.clusters, 1, i - 1)] : i \in DOMAIN b.clusters}
        PROVE  d \in Config
    BY <1>2, <1>5, <1>7
  <1> QED BY <1>3, <1>4, <1>6, <1>7 DEF Cut

LEMMA TypeInit == Init => TypeOK
  <1> SUFFICES ASSUME Init
               PROVE  TypeOK
    OBVIOUS
  <1>1. WellFormed(file) /\ cmd \in [Procs -> Commands]
    BY InitialAssumption DEF Init
  <1>2. out \in [Procs -> Config]
    BY EmptyIsConfig DEF Init
  <1>3. pc \in [Procs -> Labels] /\ exit \in [Procs -> Statuses]
    BY DEF Init, Labels, Statuses
  <1>4. runs \in [Procs -> 0..MaxRuns]
    BY MaxRunsAssumption DEF Init
  <1>5. torn \in BOOLEAN /\ spoilt \subseteq Procs
    BY DEF Init
  <1> QED BY <1>1, <1>2, <1>3, <1>4, <1>5 DEF TypeOK

(***************************************************************************)
(* How a step changes a file that is not torn, and the configuration of a  *)
(* process that has not read a torn one.                                   *)
(***************************************************************************)
FileStep ==
  \/ torn'
  \/ torn' = torn /\ (file' = file \/ Decoded(file') = EmptyConfig)
  \/ Decoded(file') = EmptyConfig
  \/ \E p \in Procs \ spoilt : Decoded(file') = out[p]
OutStep ==
  \A p \in Procs \ spoilt' :
    \/ out'[p] = EmptyConfig
    \/ p \notin spoilt /\ out'[p] = out[p]
    \/ /\ ~torn /\ ~Rejects(Decoded(file), cmd[p])
       /\ out'[p] = Modified(Decoded(file), cmd[p])

(***************************************************************************)
(* A command that ends keeps nothing.                                      *)
(***************************************************************************)
LEMMA FinishShape ==
  ASSUME TypeOK, NEW p \in Procs, NEW status \in Statuses, Finish(p, status),
         UNCHANGED <<cmd, runs>>, WellFormed(file'), torn' \in BOOLEAN
  PROVE  TypeOK' /\ OutStep
  <1> USE DEF Finish, Goto
  <1>1. pc' \in [Procs -> Labels] /\ exit' \in [Procs -> Statuses]
    BY DEF TypeOK, Labels
  <1>2. out' \in [Procs -> Config] /\ spoilt' \subseteq Procs
    BY EmptyIsConfig DEF TypeOK
  <1>3. TypeOK'
    BY <1>1, <1>2 DEF TypeOK
  <1>4. OutStep
    BY DEF TypeOK, OutStep
  <1> QED BY <1>3, <1>4

(***************************************************************************)
(* Giving up leaves the file as it is.                                     *)
(***************************************************************************)
LEMMA FailsShape ==
  ASSUME TypeOK, NEW p \in Procs, NEW status \in Statuses, Fails(p, status)
  PROVE  TypeOK' /\ FileStep /\ OutStep
  <1>1. FileStep
    BY DEF Fails, FileStep
  <1>2. Finish(p, status) /\ UNCHANGED <<file, cmd, runs, torn>>
    BY DEF Fails
  <1>3. WellFormed(file') /\ torn' \in BOOLEAN
    BY <1>2 DEF TypeOK
  <1> QED BY <1>1, <1>2, <1>3, FinishShape

LEMMA MovesShape ==
  ASSUME TypeOK, NEW p \in Procs, NEW l \in Labels, Moves(p, l)
  PROVE  TypeOK' /\ FileStep /\ OutStep
  BY DEF Moves, Goto, TypeOK, FileStep, OutStep

LEMMA AskShape ==
  ASSUME TypeOK, NEW p \in Procs, NEW now, NEW create \in Labels, NEW next \in Labels,
         NEW declined \in Statuses, Ask(p, now, create, next, declined)
  PROVE  TypeOK' /\ FileStep /\ OutStep
  <1>1. "error" \in Statuses
    BY DEF Statuses
  <1> QED BY <1>1, MovesShape, FailsShape DEF Ask

LEMMA CreateShape ==
  ASSUME TypeOK, NEW p \in Procs, NEW now, NEW next \in Labels, Create(p, now, next)
  PROVE  TypeOK' /\ FileStep /\ OutStep
  <1>1. file' \in {file, Blank}
    BY DEF Create
  <1>2. UNCHANGED <<cmd, out, exit, runs, torn, spoilt>>
    BY DEF Create
  <1>3. WellFormed(file')
    BY <1>1, BlankFormed DEF TypeOK
  <1>4. FileStep /\ OutStep
    BY <1>1, <1>2, DecodedBlank DEF FileStep, OutStep
  <1>5. pc' \in [Procs -> Labels]
    BY DEF Create, Goto, TypeOK
  <1> QED BY <1>2, <1>3, <1>4, <1>5 DEF TypeOK

LEMMA StepShape ==
  ASSUME TypeOK, [Next]_vars
  PROVE  TypeOK' /\ FileStep /\ OutStep
  <1>1. ASSUME NEW p \in Procs, NEW c \in Commands, Start(p, c)
        PROVE  TypeOK' /\ FileStep /\ OutStep
    <2>1. pc' \in [Procs -> Labels]
      BY <1>1 DEF Start, Goto, TypeOK, Labels
    <2>2. runs' \in [Procs -> 0..MaxRuns]
      <3>1. runs \in [Procs -> 0..MaxRuns] /\ runs[p] < MaxRuns
        BY <1>1 DEF Start, TypeOK
      <3>2. runs[p] + 1 \in 0..MaxRuns
        BY <3>1, MaxRunsAssumption
      <3> QED BY <1>1, <3>1, <3>2 DEF Start
    <2>3. cmd' \in [Procs -> Commands] /\ exit' \in [Procs -> Statuses]
      BY <1>1 DEF Start, TypeOK, Statuses
    <2> QED BY <1>1, <2>1, <2>2, <2>3 DEF Start, TypeOK, FileStep, OutStep
  <1>2. ASSUME NEW p \in Procs, AskFirst(p) \/ AskToCreate(p)
        PROVE  TypeOK' /\ FileStep /\ OutStep
    <2>1. /\ {"createFirst", "create", "load", "read"} \subseteq Labels
          /\ {"error", "declined"} \subseteq Statuses
      BY DEF Labels, Statuses
    <2> QED BY <1>2, <2>1, AskShape DEF AskFirst, AskToCreate
  <1>3. ASSUME NEW p \in Procs, CreateFirst(p) \/ CreateIfNotExists(p)
        PROVE  TypeOK' /\ FileStep /\ OutStep
    <2>1. {"load", "read"} \subseteq Labels
      BY DEF Labels
    <2> QED BY <1>3, <2>1, CreateShape DEF CreateFirst, CreateIfNotExists
  <1>4. ASSUME NEW p \in Procs, Load(p)
        PROVE  TypeOK' /\ FileStep /\ OutStep
    <2>1. {"ask", "reload", "read"} \subseteq Labels /\ "error" \in Statuses
      BY DEF Labels, Statuses
    <2>2. Fails(p, "error") \/ \E l \in Labels : Moves(p, l)
      BY <1>4, <2>1 DEF Load
    <2> QED BY <2>1, <2>2, MovesShape, FailsShape
  <1>5. ASSUME NEW p \in Procs, Read(p)
        PROVE  TypeOK' /\ FileStep /\ OutStep
    <2>1. CASE \E status \in {"error", "panic"} : Fails(p, status)
      BY <2>1, FailsShape DEF Statuses
    <2>2. CASE /\ ~Rejects(Decoded(file), cmd[p])
               /\ out' = [out EXCEPT ![p] = Modified(Decoded(file), cmd[p])]
               /\ spoilt' = IF torn THEN spoilt \cup {p} ELSE spoilt
               /\ Goto(p, "truncate")
               /\ UNCHANGED <<file, cmd, exit, runs, torn>>
      <3>1. Modified(Decoded(file), cmd[p]) \in Config
        BY <2>2, DecodedType, ModifiedType DEF TypeOK, WellFormed
      <3>2. pc' \in [Procs -> Labels] /\ spoilt' \subseteq Procs
        BY <2>2 DEF Goto, TypeOK, Labels
      <3>3. TypeOK'
        BY <2>2, <3>1, <3>2 DEF TypeOK
      <3>4. FileStep
        BY <2>2 DEF FileStep
      <3>5. OutStep
        BY <2>2 DEF TypeOK, OutStep
      <3> QED BY <3>3, <3>4, <3>5
    <2> QED BY <1>5, <2>1, <2>2 DEF Read
  <1>6. ASSUME NEW p \in Procs, Truncate(p)
        PROVE  TypeOK' /\ FileStep /\ OutStep
    <2>1. file' = Blank /\ torn' = FALSE /\ UNCHANGED <<cmd, out, exit, runs, spoilt>>
      BY <1>6 DEF Truncate
    <2>2. pc' \in [Procs -> Labels]
      BY <1>6 DEF Truncate, Goto, TypeOK, Labels
    <2>3. TypeOK'
      BY <2>1, <2>2, BlankFormed DEF TypeOK
    <2> QED BY <2>1, <2>3, DecodedBlank DEF FileStep, OutStep
  <1>7. ASSUME NEW p \in Procs, WriteAll(p)
        PROVE  TypeOK' /\ FileStep /\ OutStep
    <2>1. /\ file' = Text(out[p]) /\ torn' = (p \in spoilt)
          /\ Finish(p, "ok") /\ UNCHANGED <<cmd, runs>>
      BY <1>7 DEF WriteAll
    <2>2. "ok" \in Statuses
      BY DEF Statuses
    <2>3. WellFormed(file')
      BY <2>1, TextFormed DEF TypeOK
    <2>4. FileStep
      BY <2>1, DecodedText DEF FileStep
    <2> QED BY <2>1, <2>2, <2>3, <2>4, FinishShape
  <1>8. ASSUME NEW p \in Procs, WriteOver(p)
        PROVE  TypeOK' /\ FileStep /\ OutStep
    <2>1. /\ file' \in Mixed(out[p], file) /\ torn' = TRUE
          /\ Finish(p, "ok") /\ UNCHANGED <<cmd, runs>>
      BY <1>8 DEF WriteOver
    <2>2. "ok" \in Statuses
      BY DEF Statuses
    <2>3. WellFormed(file')
      BY <2>1, MixedType DEF TypeOK, WellFormed
    <2> QED BY <2>1, <2>2, <2>3, FinishShape DEF FileStep
  <1>9. ASSUME NEW p \in Procs, WritePart(p)
        PROVE  TypeOK' /\ FileStep /\ OutStep
    <2>1. /\ torn' = TRUE
          /\ Finish(p, "fault") /\ UNCHANGED <<cmd, runs>>
      BY <1>9 DEF WritePart
    <2>2. PICK b \in Cut(out[p]) : file' \in {Text(b), Garbled(b)} \cup Mixed(b, file)
      BY <1>9 DEF WritePart
    <2>3. b \in Config
      BY CutType DEF TypeOK
    <2>4. WellFormed(file')
      BY <2>2, <2>3, TextFormed, MixedType DEF TypeOK, WellFormed
    <2>5. "fault" \in Statuses
      BY DEF Statuses
    <2> QED BY <2>1, <2>4, <2>5, FinishShape DEF FileStep
  <1>10. ASSUME NEW p \in Procs, Fault(p)
        PROVE  TypeOK' /\ FileStep /\ OutStep
    BY <1>10, FailsShape DEF Fault, Statuses
  <1>11. CASE UNCHANGED vars
    BY <1>11 DEF vars, TypeOK, FileStep, OutStep
  <1> QED
    BY <1>1, <1>2, <1>3, <1>4, <1>5, <1>6, <1>7, <1>8, <1>9, <1>10, <1>11 DEF Next, Ended

(***************************************************************************)
(* The file and the configurations in memory keep their types, wherever    *)
(* commands interleave, fail or die, and what a torn text decodes to does. *)
(***************************************************************************)
THEOREM TypeCorrect == Spec => []TypeOK
  <1>1. TypeOK /\ [Next]_vars => TypeOK'
    BY StepShape
  <1> QED BY TypeInit, <1>1, PTL DEF Spec

(***************************************************************************)
(* A file never has two clusters of one name, unless it is torn, or was    *)
(* made by a command that had read a torn one.                             *)
(***************************************************************************)
THEOREM NamesStayUnique == Spec => []ClusterNamesUnique
  <1>1. Init => ClusterNamesUnique
    BY EmptyIsConfig, InitialAssumption DEF Init, ClusterNamesUnique
  <1>2. TypeOK /\ ClusterNamesUnique /\ [Next]_vars => ClusterNamesUnique'
    <2> SUFFICES ASSUME TypeOK, ClusterNamesUnique, [Next]_vars
                 PROVE  ClusterNamesUnique'
      OBVIOUS
    <2>1. FileStep /\ OutStep
      BY StepShape
    <2>2. ~torn' => UniqueNames(Decoded(file'))
      BY <2>1, EmptyIsConfig DEF FileStep, ClusterNamesUnique
    <2>3. ASSUME NEW p \in Procs \ spoilt'
          PROVE  UniqueNames(out'[p])
      <3>1. Decoded(file) \in Config /\ cmd[p] \in Commands
        BY DecodedType DEF TypeOK, WellFormed
      <3> QED BY <2>1, <3>1, EmptyIsConfig, ModifiedUnique
              DEF OutStep, ClusterNamesUnique
    <2> QED BY <2>2, <2>3 DEF ClusterNamesUnique
  <1> QED BY <1>1, <1>2, TypeCorrect, PTL DEF Spec

(***************************************************************************)
(* default-cluster resolves unless somebody sets it by hand.  That names   *)
(* are unique is part of the induction.                                    *)
(***************************************************************************)
THEOREM DefaultAlwaysResolves == Spec => []DefaultResolves
  <1>1. Init => DefaultResolves
    BY EmptyIsConfig, InitialAssumption DEF Init, DefaultResolves
  <1>2. TypeOK /\ ClusterNamesUnique /\ DefaultResolves /\ [Next]_vars => DefaultResolves'
    <2> SUFFICES ASSUME TypeOK, ClusterNamesUnique, DefaultResolves, [Next]_vars,
                        \A c \in Commands : c.op # "setDefault"
                 PROVE  /\ ~torn' => Resolves(Decoded(file'))
                        /\ \A p \in Procs \ spoilt' : Resolves(out'[p])
      BY DEF DefaultResolves
    <2>1. FileStep /\ OutStep
      BY StepShape
    <2>2. /\ ~torn => Resolves(Decoded(file))
          /\ \A p \in Procs \ spoilt : Resolves(out[p])
      BY DEF DefaultResolves
    <2>3. ~torn' => Resolves(Decoded(file'))
      BY <2>1, <2>2, EmptyIsConfig DEF FileStep
    <2>4. ASSUME NEW p \in Procs \ spoilt'
          PROVE  Resolves(out'[p])
      <3>1. Decoded(file) \in Config /\ cmd[p] \in Commands
        BY DecodedType DEF TypeOK, WellFormed
      <3> QED BY <2>1, <2>2, <3>1, EmptyIsConfig, ModifiedResolves
              DEF OutStep, ClusterNamesUnique
    <2> QED BY <2>3, <2>4
  <1> QED BY <1>1, <1>2, TypeCorrect, NamesStayUnique, PTL DEF Spec

-----------------------------------------------------------------------------
(* A configuration as the store sees it *)

View(cfg) == [n \in NamesIn(cfg) |-> cfg.clusters[Find(cfg, n)].keys]

(***************************************************************************)
(* With unique names it is enough to know the clusters of the list, in     *)
(* whatever order they are.                                                *)
(***************************************************************************)
LEMMA ViewOfEntry ==
  ASSUME NEW cfg \in Config, UniqueNames(cfg), NEW i \in DOMAIN cfg.clusters
  PROVE  /\ cfg.clusters[i].name \in NamesIn(cfg)
         /\ View(cfg)[cfg.clusters[i].name] = cfg.clusters[i].keys
  <1>1. cfg.clusters[i].name \in NamesIn(cfg)
    BY DEF NamesIn
  <1>2. Find(cfg, cfg.clusters[i].name) = i
    BY <1>1, FindFinds, ClustersType DEF UniqueNames
  <1> QED BY <1>1, <1>2 DEF View

LEMMA ViewDetermined ==
  ASSUME NEW cfg \in Config, UniqueNames(cfg), NEW f,
         f = [n \in DOMAIN f |-> f[n]],
         \A i \in DOMAIN cfg.clusters :
           /\ cfg.clusters[i].name \in DOMAIN f
           /\ f[cfg.clusters[i].name] = cfg.clusters[i].keys,
         \A n \in DOMAIN f : \E i \in DOMAIN cfg.clusters : cfg.clusters[i].name = n
  PROVE  View(cfg) = f
  <1>1. DOMAIN f = NamesIn(cfg)
    BY DEF NamesIn
  <1>2. ASSUME NEW n \in NamesIn(cfg)
        PROVE  View(cfg)[n] = f[n]
    <2>1. PICK i \in DOMAIN cfg.clusters : cfg.clusters[i].name = n
      BY DEF NamesIn
    <2> QED BY <2>1, ViewOfEntry
  <1>3. View(cfg) = [n \in NamesIn(cfg) |-> View(cfg)[n]]
    BY DEF View
  <1> QED BY <1>1, <1>2, <1>3

(***************************************************************************)
(* The entries of the list after a cluster is changed, or deleted.         *)
(***************************************************************************)
LEMMA UpdatedList ==
  ASSUME NEW cfg \in Config, UniqueNames(cfg), NEW n \in Names, NEW cl \in Cluster,
         NEW t, t = Update(cfg, n, cl)
  PROVE  LET s == cfg.clusters
         IN  /\ \A i \in DOMAIN t :
                  t[i] = cl \/ \E j \in 1..Len(s) : t[i] = s[j] /\ s[j].name # n
             /\ \E i \in DOMAIN t : t[i] = cl
             /\ \A j \in 1..Len(s) : s[j].name # n => \E i \in DOMAIN t : t[i] = s[j]
  <1> DEFINE s == cfg.clusters
  <1>1. /\ Len(s) \in Nat /\ DOMAIN s = 1..Len(s)
        /\ \A i, j \in 1..Len(s) : s[i].name = s[j].name => i = j
        /\ \A i \in 1..Len(s) : s[i].name \in NamesIn(cfg)
    BY ClustersType DEF UniqueNames, NamesIn
  <1> SUFFICES /\ \A i \in DOMAIN t :
                    t[i] = cl \/ \E j \in 1..Len(s) : t[i] = s[j] /\ s[j].name # n
               /\ \E i \in DOMAIN t : t[i] = cl
               /\ \A j \in 1..Len(s) : s[j].name # n => \E i \in DOMAIN t : t[i] = s[j]
    OBVIOUS
  <1>2. CASE n \in NamesIn(cfg)
    <2>1. /\ DOMAIN t = 1..Len(s)
          /\ \A i \in 1..Len(s) : t[i] = IF i = Find(cfg, n) THEN cl ELSE s[i]
          /\ Find(cfg, n) \in 1..Len(s)
          /\ s[Find(cfg, n)].name = n
      BY <1>1, <1>2, UpdateInPlace, FindFinds
    <2> HIDE DEF s
    <2> QED BY <1>1, <2>1
  <1>3. CASE n \notin NamesIn(cfg)
    <2>1. /\ DOMAIN t = 1..(Len(s) + 1)
          /\ \A i \in 1..Len(s) : t[i] = s[i]
          /\ t[Len(s) + 1] = cl
      BY <1>1, <1>3, UpdateAppends
    <2>2. \A i \in 1..Len(s) : s[i].name # n
      BY <1>1, <1>3
    <2>3. \A i \in 1..(Len(s) + 1) : i \in 1..Len(s) \/ i = Len(s) + 1
      BY <1>1
    <2>4. \A i \in 1..Len(s) : i \in 1..(Len(s) + 1)
      BY <1>1
    <2>5. Len(s) + 1 \in 1..(Len(s) + 1)
      BY <1>1
    <2> HIDE DEF s
    <2> QED BY <2>1, <2>2, <2>3, <2>4, <2>5
  <1> QED BY <1>2, <1>3

LEMMA ShortenedList ==
  ASSUME NEW cfg \in Config, UniqueNames(cfg), NEW n \in NamesIn(cfg),
         NEW t, t = RemoveFromSlice(cfg.clusters, Find(cfg, n))
  PROVE  LET s == cfg.clusters
         IN  /\ \A i \in DOMAIN t : \E j \in 1..Len(s) : t[i] = s[j] /\ s[j].name # n
             /\ \A j \in 1..Len(s) : s[j].name # n => \E i \in DOMAIN t : t[i] = s[j]
  <1> DEFINE s == cfg.clusters
             k == Find(cfg, n)
  <1>1. /\ Len(s) \in Nat
        /\ \A i, j \in 1..Len(s) : s[i].name = s[j].name => i = j
    BY ClustersType DEF UniqueNames
  <1>2. k \in 1..Len(s) /\ s[k].name = n
    BY FindFinds
  <1>3. /\ DOMAIN t = 1..(Len(s) - 1)
        /\ \A j \in 1..(Len(s) - 1) : t[j] = IF j = k THEN s[Len(s)] ELSE s[j]
    BY <1>2, ClustersType, Removal
  <1>4. Len(s) \in Nat
    BY <1>1
  <1> HIDE DEF s, k
  <1>5. \A i \in 1..(Len(s) - 1) : i \in 1..Len(s) /\ i # Len(s) /\ Len(s) \in 1..Len(s)
    BY <1>4
  <1>6. \A j \in 1..Len(s) : j # Len(s) => j \in 1..(Len(s) - 1)
    BY <1>4
  <1>7. ASSUME NEW i \in DOMAIN t
        PROVE  \E j \in 1..Len(s) : t[i] = s[j] /\ s[j].name # n
    BY <1>1, <1>2, <1>3, <1>5
  <1>8. ASSUME NEW j \in 1..Len(s), s[j].name # n
        PROVE  \E i \in DOMAIN t : t[i] = s[j]
    BY <1>2, <1>3, <1>6, <1>8
  <1> QED BY <1>7, <1>8 DEF s

(***************************************************************************)
(* ModifyConfigCluster and DeleteConfigCluster: one cluster is new or      *)
(* changed, perhaps under a new name, and the others stay.                 *)
(***************************************************************************)
LEMMA ViewOfUpdate ==
  ASSUME NEW cfg \in Config, UniqueNames(cfg), NEW n \in Names,
         NEW cl \in Cluster, cl.name = n \/ cl.name \notin NamesIn(cfg),
         NEW new \in Config, UniqueNames(new), new.clusters = Update(cfg, n, cl)
  PROVE  View(new) = [m \in (NamesIn(cfg) \ {n}) \cup {cl.name} |->
                        IF m = cl.name THEN cl.keys ELSE View(cfg)[m]]
  <1> DEFINE s == cfg.clusters
             t == new.clusters
             f == [m \in (NamesIn(cfg) \ {n}) \cup {cl.name} |->
                     IF m = cl.name THEN cl.keys ELSE View(cfg)[m]]
  <1>1. /\ Len(s) \in Nat /\ DOMAIN s = 1..Len(s)
        /\ \A i, j \in 1..Len(s) : s[i].name = s[j].name => i = j
        /\ \A i \in 1..Len(s) : s[i].name \in NamesIn(cfg)
                                /\ View(cfg)[s[i].name] = s[i].keys
        /\ \A m \in NamesIn(cfg) : \E i \in 1..Len(s) : s[i].name = m
    BY ClustersType, ViewOfEntry DEF UniqueNames, NamesIn
  <1>2. /\ \A i \in DOMAIN t : t[i] = cl \/ \E j \in 1..Len(s) : t[i] = s[j] /\ s[j].name # n
        /\ \E i \in DOMAIN t : t[i] = cl
        /\ \A j \in 1..Len(s) : s[j].name # n => \E i \in DOMAIN t : t[i] = s[j]
    BY <1>1, UpdatedList
  <1>3. ASSUME NEW i \in DOMAIN t
        PROVE  t[i].name \in DOMAIN f /\ f[t[i].name] = t[i].keys
    <2>1. CASE t[i] = cl
      BY <2>1
    <2>2. CASE \E j \in 1..Len(s) : t[i] = s[j] /\ s[j].name # n
      BY <1>1, <2>2
    <2> QED BY <1>2, <2>1, <2>2
  <1>4. ASSUME NEW m \in DOMAIN f
        PROVE  \E i \in DOMAIN t : t[i].name = m
    <2>1. CASE m = cl.name
      BY <1>2, <2>1
    <2>2. CASE m \in NamesIn(cfg) \ {n}
      BY <1>1, <1>2, <2>2
    <2> QED BY <2>1, <2>2
  <1>5. f = [m \in DOMAIN f |-> f[m]]
    OBVIOUS
  <1> HIDE DEF f
  <1>6. View(new) = f
    BY <1>3, <1>4, <1>5, ViewDetermined
  <1> QED BY <1>6 DEF f

(***************************************************************************)
(* `config cluster delete`: one cluster is gone, and the others stay.      *)
(***************************************************************************)
LEMMA ViewOfRemoval ==
  ASSUME NEW cfg \in Config, UniqueNames(cfg), NEW n \in NamesIn(cfg),
         NEW new \in Config, UniqueNames(new),
         new.clusters = RemoveFromSlice(cfg.clusters, Find(cfg, n))
  PROVE  View(new) = [m \in NamesIn(cfg) \ {n} |-> View(cfg)[m]]
  <1> DEFINE s == cfg.clusters
             t == new.clusters
             f == [m \in NamesIn(cfg) \ {n} |-> View(cfg)[m]]
  <1>1. /\ Len(s) \in Nat /\ DOMAIN s = 1..Len(s)
        /\ \A i, j \in 1..Len(s) : s[i].name = s[j].name => i = j
        /\ \A i \in 1..Len(s) : s[i].name \in NamesIn(cfg)
                                /\ View(cfg)[s[i].name] = s[i].keys
        /\ \A m \in NamesIn(cfg) : \E i \in 1..Len(s) : s[i].name = m
    BY ClustersType, ViewOfEntry DEF UniqueNames, NamesIn
  <1>2. /\ \A i \in DOMAIN t : \E j \in 1..Len(s) : t[i] = s[j] /\ s[j].name # n
        /\ \A j \in 1..Len(s) : s[j].name # n => \E i \in DOMAIN t : t[i] = s[j]
    BY ShortenedList
  <1>3. ASSUME NEW i \in DOMAIN t
        PROVE  t[i].name \in DOMAIN f /\ f[t[i].name] = t[i].keys
    BY <1>1, <1>2
  <1>4. ASSUME NEW m \in DOMAIN f
        PROVE  \E i \in DOMAIN t : t[i].name = m
    BY <1>1, <1>2
  <1>5. f = [m \in DOMAIN f |-> f[m]]
    OBVIOUS
  <1> HIDE DEF f
  <1>6. View(new) = f
    BY <1>3, <1>4, <1>5, ViewDetermined
  <1> QED BY <1>6 DEF f

-----------------------------------------------------------------------------
(* A command is a step of the store *)

LEMMA SameList ==
  ASSUME NEW cfg, NEW new, new.clusters = cfg.clusters
  PROVE  View(new) = View(cfg)
  <1>1. NamesIn(new) = NamesIn(cfg) /\ \A n : Find(new, n) = Find(cfg, n)
    BY DEF NamesIn, Find
  <1> QED BY <1>1 DEF View

(***************************************************************************)
(* ModifyConfig, DeleteConfig: an option or the default changes.           *)
(***************************************************************************)
LEMMA OptionCommand ==
  ASSUME NEW c \in Commands, c.op \in {"set", "unset", "setDefault", "unsetDefault"},
         Committed \in Config, Committed' = Modified(Committed, c)
  PROVE  Store!Next
  <1> DEFINE cfg == Committed
             new == Committed'
  <1>1. /\ cfg \in Config
        /\ new.clusters = cfg.clusters
        /\ View(new) = View(cfg)
    BY ModifiedFields, SameList
  <1>2. ASSUME NEW o \in Options, NEW v \in Values \cup {NoValue},
               new.settings = [cfg.settings EXCEPT ![o] = v], new.default = cfg.default
        PROVE  Store!Next
    <2>1. Store!SetOption(o, v)
      BY <1>1, <1>2 DEF Store!SetOption, View
    <2> QED BY <2>1 DEF Store!Next
  <1>3. ASSUME NEW n \in Names \cup {NoValue}, new.settings = cfg.settings, new.default = n
        PROVE  Store!Next
    <2>1. Store!SetDefault(n)
      BY <1>1, <1>3 DEF Store!SetDefault, View
    <2> QED BY <2>1 DEF Store!Next
  <1>4. CASE c.op = "set"
    <2>1. c.key \in Options /\ c.value \in Values
      BY <1>4, CommandAssumption
    <2>2. new = [cfg EXCEPT !.settings[c.key] = c.value]
      BY <1>4 DEF Modified
    <2> QED BY <1>2, <2>1, <2>2 DEF Config
  <1>5. CASE c.op = "unset"
    <2>1. c.key \in Options /\ Defaults[c.key] \in Values \cup {NoValue}
      BY <1>5, CommandAssumption, DefaultsAssumption
    <2>2. new = [cfg EXCEPT !.settings[c.key] = Defaults[c.key]]
      BY <1>5 DEF Modified
    <2> QED BY <1>2, <2>1, <2>2 DEF Config
  <1>6. CASE c.op = "setDefault"
    <2>1. c.value \in Names
      BY <1>6, CommandAssumption
    <2>2. new = [cfg EXCEPT !.default = c.value]
      BY <1>6 DEF Modified
    <2> QED BY <1>3, <2>1, <2>2 DEF Config
  <1>7. CASE c.op = "unsetDefault"
    <2>1. new = [cfg EXCEPT !.default = NoValue]
      BY <1>7 DEF Modified
    <2> QED BY <1>3, <2>1 DEF Config
  <1> QED BY <1>4, <1>5, <1>6, <1>7

(***************************************************************************)
(* What the commands on a section do to the view.                          *)
(***************************************************************************)
LEMMA SectionView ==
  ASSUME NEW cfg \in Config, UniqueNames(cfg), NEW c \in Commands, ~Rejects(cfg, c),
         c.op \in SectionOps
  PROVE  LET cl == ModifiedCluster(ClusterNamed(cfg, c.name), c)
             new == Modified(cfg, c)
         IN  /\ c.name \in Names
             /\ cl \in Cluster
             /\ cl.name = IF c.op = "clusterRename" THEN c.value ELSE c.name
             /\ c.op = "clusterRename" => cl.name \notin NamesIn(cfg)
             /\ new.settings = cfg.settings
             /\ new.default = DefaultAfterSet(cfg, c, cl.name)
             /\ View(new) = [m \in (NamesIn(cfg) \ {c.name}) \cup {cl.name} |->
                               IF m = cl.name THEN cl.keys ELSE View(cfg)[m]]
  <1> DEFINE cl == ModifiedCluster(ClusterNamed(cfg, c.name), c)
             new == Modified(cfg, c)
  <1>1. /\ c.name \in Names /\ cl \in Cluster
        /\ cl.name = IF c.op = "clusterRename" THEN c.value ELSE c.name
    BY SectionCommand
  <1>2. c.op = "clusterRename" => cl.name \notin NamesIn(cfg)
    BY <1>1 DEF Rejects
  <1>3. new \in Config /\ UniqueNames(new)
    BY ModifiedType, ModifiedUnique
  <1>4. new.clusters = Update(cfg, c.name, cl) /\ new.default = DefaultAfterSet(cfg, c, cl.name)
    BY ModifiedFields
  <1>5. new.settings = cfg.settings
    BY DEF Modified, SectionOps, Config
  <1>6. View(new) = [m \in (NamesIn(cfg) \ {c.name}) \cup {cl.name} |->
                       IF m = cl.name THEN cl.keys ELSE View(cfg)[m]]
    <2> HIDE DEF cl, new
    <2> QED BY <1>1, <1>2, <1>3, <1>4, ViewOfUpdate
  <1> QED BY <1>1, <1>2, <1>4, <1>5, <1>6

(***************************************************************************)
(* The keys a section had, of a cluster of the file or of a new one.       *)
(***************************************************************************)
LEMMA SectionBefore ==
  ASSUME NEW cfg \in Config, NEW n \in Names
  PROVE  ClusterNamed(cfg, n).keys = IF n \in NamesIn(cfg) THEN View(cfg)[n] ELSE BlankKeys
  BY DEF ClusterNamed, View, NewCluster

(***************************************************************************)
(* ModifyConfigCluster, DeleteConfigCluster: one cluster changes.          *)
(***************************************************************************)
LEMMA SectionStep ==
  ASSUME NEW c \in Commands, c.op \in SectionOps, ~Rejects(Committed, c),
         Committed \in Config, UniqueNames(Committed), Committed' = Modified(Committed, c)
  PROVE  [Store!Next]_Store!vars
  <1> DEFINE cfg == Committed
             new == Committed'
             n == c.name
             old == ClusterNamed(cfg, n)
             cl == ModifiedCluster(old, c)
             known == NamesIn(cfg)
  <1>1. /\ n \in Names
        /\ cl \in Cluster
        /\ cl.name = IF c.op = "clusterRename" THEN c.value ELSE n
        /\ c.op = "clusterRename" => cl.name \notin known
        /\ new.settings = cfg.settings
        /\ new.default = DefaultAfterSet(cfg, c, cl.name)
        /\ View(new) = [m \in (known \ {n}) \cup {cl.name} |->
                          IF m = cl.name THEN cl.keys ELSE View(cfg)[m]]
    BY SectionView
  <1>2. old \in Cluster /\ old.keys = IF n \in known THEN View(cfg)[n] ELSE BlankKeys
    BY <1>1, ClusterNamedType, SectionBefore
  <1>3. DOMAIN View(cfg) = known
    BY DEF View
  <1>4. View(cfg) = [m \in known |-> View(cfg)[m]]
    BY DEF View
  <1>5. Store!OptionsOf(n) = old.keys
    BY <1>2, <1>3 DEF Store!OptionsOf, Store!Known, Store!Unset, BlankKeys, View
  <1>6. CASE c.op = "clusterSet"
    <2>1. c.key \in Keys /\ c.value \in Values /\ c.dflt \in BOOLEAN
      BY <1>6, CommandAssumption DEF Command
    <2>2. cl.keys = [old.keys EXCEPT ![c.key] = c.value]
      BY <1>2, <1>6 DEF ModifiedCluster, WithKey, Cluster
    <2>3. new.default = IF c.dflt THEN n ELSE cfg.default
      BY <1>1, <1>6 DEF DefaultAfterSet
    <2>4. View(new) = [m \in known \cup {n} |-> IF m = n THEN cl.keys ELSE View(cfg)[m]]
      BY <1>1, <1>6
    <2>5. Store!SetKey(n, c.key, c.value, c.dflt)
      BY <1>1, <1>3, <1>5, <2>2, <2>3, <2>4 DEF Store!SetKey, Store!With, Store!Known, View
    <2> QED BY <1>1, <2>1, <2>5 DEF Store!Next
  <1>7. CASE c.op = "clusterAuth"
    <2>1. c.dflt \in BOOLEAN
      BY CommandAssumption DEF Command
    <2>2. cl.keys = old.keys
      BY <1>2, <1>7 DEF ModifiedCluster, WithAuth, Cluster
    <2>3. new.default = IF c.dflt THEN n ELSE cfg.default
      BY <1>1, <1>7 DEF DefaultAfterSet
    <2>4. View(new) = [m \in known \cup {n} |-> IF m = n THEN cl.keys ELSE View(cfg)[m]]
      BY <1>1, <1>7
    <2>5. Store!Touch(n, c.dflt)
      BY <1>1, <1>3, <1>5, <2>2, <2>3, <2>4 DEF Store!Touch, Store!With, Store!Known, View
    <2> QED BY <1>1, <2>1, <2>5 DEF Store!Next
  <1>8. CASE c.op = "clusterRename"
    <2>1. c.dflt \in BOOLEAN /\ c.value \in Names
      BY <1>8, CommandAssumption DEF Command
    <2>2. cl.keys = old.keys /\ cl.name = c.value
      BY <1>1, <1>2, <1>8 DEF ModifiedCluster, WithName, Cluster
    <2>3. new.default = IF c.dflt \/ cfg.default = n THEN c.value ELSE cfg.default
      BY <1>1, <1>8 DEF DefaultAfterSet
    <2>4. View(new) = [m \in (known \ {n}) \cup {c.value} |->
                         IF m = c.value THEN old.keys ELSE View(cfg)[m]]
      BY <1>1, <2>2
    <2>5. Store!Rename(n, c.value, c.dflt)
      BY <1>1, <1>3, <1>5, <1>8, <2>2, <2>3, <2>4 DEF Store!Rename, Store!Known, View
    <2> QED BY <1>1, <2>1, <2>5 DEF Store!Next
  <1>9. CASE c.op \in {"clusterUnset", "clusterUnsetAuth", "clusterClear"}
    <2>1. n \in known /\ new.default = cfg.default
      <3>1. ~c.dflt
        BY <1>9, CommandAssumption
      <3> QED BY <1>1, <1>9, <3>1 DEF Rejects, DefaultAfterSet
    <2>2. View(new) = [m \in known |-> IF m = n THEN cl.keys ELSE View(cfg)[m]]
      BY <1>1, <1>9, <2>1
    <2>3. ASSUME NEW ks \in SUBSET Keys,
                 cl.keys = [k \in Keys |-> IF k \in ks THEN NoValue ELSE old.keys[k]]
          PROVE  Store!ClearKeys(n, ks)
      <3>1. View(new) = [View(cfg) EXCEPT ![n] = [k \in Keys |-> IF k \in ks THEN NoValue ELSE @[k]]]
        BY <1>2, <1>4, <2>1, <2>2, <2>3
      <3> QED BY <1>1, <1>3, <2>1, <3>1 DEF Store!ClearKeys, Store!Known, View
    <2>4. CASE c.op = "clusterUnset"
      <3>1. c.key \in Keys
        BY <2>4, CommandAssumption
      <3>2. cl.keys = [k \in Keys |-> IF k \in {c.key} THEN NoValue ELSE old.keys[k]]
        BY <1>2, <2>4, <3>1 DEF ModifiedCluster, WithoutKey, Cluster
      <3>3. Store!ClearKeys(n, {c.key})
        BY <2>3, <3>1, <3>2
      <3> QED BY <1>1, <3>1, <3>3 DEF Store!Next
    <2>5. CASE c.op = "clusterUnsetAuth"
      <3>1. cl.keys = old.keys
        BY <1>2, <2>5 DEF ModifiedCluster, WithoutAuth, Cluster
      <3>2. View(new) = View(cfg)
        BY <1>2, <1>4, <2>1, <2>2, <3>1
      <3> QED BY <1>1, <2>1, <3>2 DEF Store!vars, View
    <2>6. CASE c.op = "clusterClear"
      <3>1. cl.keys = [k \in Keys |-> IF k \in Keys THEN NoValue ELSE old.keys[k]]
        BY <2>6 DEF ModifiedCluster, WithoutSection, NewCluster, BlankKeys
      <3>2. Store!ClearKeys(n, Keys)
        BY <2>3, <3>1
      <3> QED BY <1>1, <3>2 DEF Store!Next
    <2> QED BY <1>9, <2>4, <2>5, <2>6
  <1> QED BY <1>6, <1>7, <1>8, <1>9 DEF SectionOps

(***************************************************************************)
(* `config cluster delete`: a cluster goes, and the default with it.       *)
(***************************************************************************)
LEMMA DeleteStep ==
  ASSUME NEW c \in Commands, c.op = "clusterDelete", ~Rejects(Committed, c),
         Committed \in Config, UniqueNames(Committed), Committed' = Modified(Committed, c)
  PROVE  Store!Next
  <1>1. c.name \in NamesIn(Committed) /\ c.name \in Names
    BY CommandAssumption DEF Rejects
  <1>2. Committed' \in Config /\ UniqueNames(Committed')
    BY ModifiedType, ModifiedUnique
  <1>3. /\ Committed'.clusters = RemoveFromSlice(Committed.clusters, Find(Committed, c.name))
        /\ Committed'.default = IF Committed.default = c.name THEN NoValue ELSE Committed.default
    BY ModifiedFields
  <1>4. Committed'.settings = Committed.settings
    BY DEF Modified, Config
  <1>5. View(Committed') = [m \in NamesIn(Committed) \ {c.name} |-> View(Committed)[m]]
    BY <1>1, <1>2, <1>3, ViewOfRemoval
  <1>6. Store!Remove(c.name)
    BY <1>1, <1>3, <1>4, <1>5 DEF Store!Remove, Store!Without, Store!Known, View
  <1> QED BY <1>1, <1>6 DEF Store!Next

LEMMA CommandStep ==
  ASSUME NEW c \in Commands, ~Rejects(Committed, c),
         Committed \in Config, UniqueNames(Committed), Committed' = Modified(Committed, c)
  PROVE  [Store!Next]_Store!vars
  <1>1. \/ c.op \in {"set", "unset", "setDefault", "unsetDefault"}
        \/ c.op \in SectionOps
        \/ c.op = "clusterDelete"
    BY CommandAssumption DEF Command, SectionOps
  <1> QED BY <1>1, OptionCommand, SectionStep, DeleteStep

-----------------------------------------------------------------------------
(* Refinement *)

(***************************************************************************)
(* What a process is about to write is still the command's change of what  *)
(* is in the file.  With a second process it need not be.                  *)
(***************************************************************************)
UpToDate ==
  \A p \in Procs : pc[p] = "truncate" =>
    /\ ~Rejects(Decoded(file), cmd[p])
    /\ out[p] = Modified(Decoded(file), cmd[p])

(***************************************************************************)
(* A process alone finds the file as it has left it, and never tears it.   *)
(***************************************************************************)
Alone ==
  /\ ~torn /\ spoilt = {}
  /\ \A p \in Procs : pc[p] = "write" => file = Blank

(***************************************************************************)
(* Most steps neither change what the file decodes to nor write it.        *)
(***************************************************************************)
LEMMA Quiet ==
  ASSUME NEW solo, Procs = {solo}, Decoded(file') = Decoded(file),
         pc[solo] # "write", pc'[solo] \notin {"truncate", "write"}
  PROVE  UpToDate' /\ UNCHANGED Committed
  BY DEF Committed, UpToDate

(***************************************************************************)
(* That a process alone tears nothing.                                     *)
(***************************************************************************)
LEMMA AloneStep ==
  ASSUME NEW solo, Procs = {solo}, ~Faults, TypeOK, Alone, [Next]_vars
  PROVE  Alone'
  <1>0. pc \in [Procs -> Labels] /\ solo \in Procs
    BY DEF TypeOK
  <1>1. ASSUME NEW l \in Labels \ {"write"}, Goto(solo, l), ~torn', spoilt' = {}
        PROVE  Alone'
    BY <1>0, <1>1 DEF Alone, Goto
  <1>2. ASSUME NEW c \in Commands, Start(solo, c)
        PROVE  Alone'
    <2>1. ~torn' /\ spoilt' = {}
      BY <1>2 DEF Start, Alone
    <2>2. \E l \in {"askFirst", "load", "ask", "read"} : Goto(solo, l)
      BY <1>2 DEF Start
    <2> QED BY <1>1, <2>1, <2>2 DEF Labels
  <1>3. ASSUME NEW status, Fails(solo, status)
        PROVE  Alone'
    BY <1>1, <1>3 DEF Fails, Finish, Labels, Alone
  <1>4. ASSUME NEW l \in Labels \ {"write"}, Moves(solo, l)
        PROVE  Alone'
    BY <1>1, <1>4 DEF Moves, Alone
  <1>5. ASSUME AskFirst(solo) \/ AskToCreate(solo) \/ Load(solo)
        PROVE  Alone'
    BY <1>3, <1>4, <1>5 DEF AskFirst, AskToCreate, Load, Ask, Labels
  <1>6. ASSUME CreateFirst(solo) \/ CreateIfNotExists(solo)
        PROVE  Alone'
    BY <1>1, <1>6 DEF CreateFirst, CreateIfNotExists, Create, Labels, Alone
  <1>7. ASSUME Read(solo)
        PROVE  Alone'
    <2>1. CASE \E status : Fails(solo, status)
      BY <1>3, <2>1
    <2>2. CASE Goto(solo, "truncate") /\ torn' = torn /\ spoilt' = IF torn THEN spoilt \cup {solo} ELSE spoilt
      BY <1>1, <2>2 DEF Labels, Alone
    <2> QED BY <1>7, <2>1, <2>2 DEF Read
  <1>8. ASSUME Truncate(solo)
        PROVE  Alone'
    BY <1>0, <1>8 DEF Truncate, Alone, Goto
  <1>9. ASSUME WriteAll(solo)
        PROVE  Alone'
    BY <1>1, <1>9 DEF WriteAll, Finish, Labels, Alone
  <1>10. ~WriteOver(solo) /\ ~WritePart(solo) /\ ~Fault(solo)
    BY DEF WriteOver, WritePart, Fault, Alone
  <1>11. CASE UNCHANGED vars
    BY <1>11 DEF vars, Alone
  <1> QED
    BY <1>2, <1>5, <1>6, <1>7, <1>8, <1>9, <1>10, <1>11 DEF Next, Ended

(***************************************************************************)
(* A command changes what is committed when it truncates the file, by what *)
(* it is for, and at no other step.                                        *)
(***************************************************************************)
CommitStep(p) ==
  /\ pc[p] = "truncate"
  /\ cmd[p] \in Commands /\ ~Rejects(Committed, cmd[p])
  /\ Committed \in Config /\ UniqueNames(Committed)
  /\ Committed' = Modified(Committed, cmd[p])

LEMMA SoloStep ==
  ASSUME NEW solo, Procs = {solo}, ~Faults, TypeOK, ClusterNamesUnique, Alone, UpToDate,
         [Next]_vars
  PROVE  UpToDate' /\ (CommitStep(solo) \/ UNCHANGED Committed)
  <1>0. /\ pc \in [Procs -> Labels] /\ solo \in Procs
        /\ cmd[solo] \in Commands /\ out[solo] \in Config /\ Decoded(file) \in Config
    BY DecodedType DEF TypeOK, WellFormed
  <1>1. ASSUME NEW c \in Commands, Start(solo, c)
        PROVE  UpToDate' /\ UNCHANGED Committed
    <2>1. pc[solo] = "idle" /\ file' = file /\ pc'[solo] \in {"askFirst", "load", "ask", "read"}
      BY <1>0, <1>1 DEF Start, Goto
    <2> QED BY <2>1, Quiet
  <1>2. ASSUME AskFirst(solo) \/ AskToCreate(solo) \/ Load(solo)
        PROVE  UpToDate' /\ UNCHANGED Committed
    <2>1. pc[solo] \notin {"truncate", "write"} /\ file' = file
      BY <1>2 DEF AskFirst, AskToCreate, Load, Ask, Moves, Fails
    <2>2. pc'[solo] \in {"createFirst", "load", "create", "ask", "read", "reload", "idle"}
      BY <1>0, <1>2 DEF AskFirst, AskToCreate, Load, Ask, Moves, Fails, Finish, Goto
    <2> QED BY <2>1, <2>2, Quiet
  <1>3. ASSUME CreateFirst(solo) \/ CreateIfNotExists(solo)
        PROVE  UpToDate' /\ UNCHANGED Committed
    <2>1. pc[solo] # "write" /\ pc'[solo] \in {"load", "read"}
      BY <1>0, <1>3 DEF CreateFirst, CreateIfNotExists, Create, Goto
    <2>2. Decoded(file') = Decoded(file)
      BY <1>3 DEF CreateFirst, CreateIfNotExists, Create, Decoded, Absent, Blank
    <2> QED BY <2>1, <2>2, Quiet
  <1>4. ASSUME Read(solo)
        PROVE  UpToDate' /\ UNCHANGED Committed
    <2>1. CASE \E status \in Statuses : Fails(solo, status)
      <3>1. pc[solo] = "read" /\ file' = file /\ pc'[solo] = "idle"
        BY <1>0, <1>4, <2>1 DEF Read, Fails, Finish, Goto
      <3> QED BY <3>1, Quiet
    <2>2. CASE /\ ~Rejects(Decoded(file), cmd[solo])
               /\ out' = [out EXCEPT ![solo] = Modified(Decoded(file), cmd[solo])]
               /\ Goto(solo, "truncate")
               /\ UNCHANGED <<file, cmd, exit, runs, torn>>
      <3>1. pc[solo] = "read" /\ pc'[solo] = "truncate" /\ file' = file /\ cmd' = cmd
        BY <1>0, <1>4, <2>2 DEF Read, Goto
      <3>2. Committed' = Committed
        BY <3>1 DEF Committed
      <3>3. out'[solo] = Modified(Decoded(file), cmd[solo])
        BY <2>2 DEF TypeOK
      <3>4. UpToDate'
        BY <2>2, <3>1, <3>3 DEF UpToDate
      <3> QED BY <3>2, <3>4
    <2>3. {"error", "panic"} \subseteq Statuses
      BY DEF Statuses
    <2> QED BY <1>4, <2>1, <2>2, <2>3 DEF Read
  <1>5. ASSUME Truncate(solo)
        PROVE  UpToDate' /\ (CommitStep(solo) \/ UNCHANGED Committed)
    <2>1. pc[solo] = "truncate" /\ pc'[solo] = "write" /\ out' = out
      BY <1>0, <1>5 DEF Truncate, Goto
    <2>2. Committed = Decoded(file) /\ Committed' = out[solo]
      BY <2>1 DEF Committed
    <2>3. /\ ~Rejects(Committed, cmd[solo])
          /\ Committed' = Modified(Committed, cmd[solo])
          /\ Committed \in Config
          /\ UniqueNames(Committed)
      BY <1>0, <2>1, <2>2 DEF UpToDate, ClusterNamesUnique, Alone
    <2>4. CommitStep(solo)
      BY <1>0, <2>1, <2>3 DEF CommitStep
    <2>5. UpToDate'
      BY <2>1 DEF UpToDate
    <2> QED BY <2>4, <2>5
  <1>6. ASSUME WriteAll(solo)
        PROVE  UpToDate' /\ UNCHANGED Committed
    <2>1. pc[solo] = "write" /\ pc'[solo] = "idle" /\ file' = Text(out[solo])
      BY <1>0, <1>6 DEF WriteAll, Finish, Goto
    <2>2. Committed = out[solo] /\ Committed' = Decoded(file')
      BY <2>1 DEF Committed
    <2>3. Committed' = Committed
      BY <1>0, <2>1, <2>2, DecodedText
    <2>4. UpToDate'
      BY <2>1 DEF UpToDate
    <2> QED BY <2>3, <2>4
  <1>7. CASE UNCHANGED vars
    <2>1. UpToDate'
      BY <1>7 DEF vars, UpToDate
    <2>2. Committed' = Committed
      BY <1>7 DEF vars, Committed
    <2> QED BY <2>1, <2>2
  <1>8. ~WriteOver(solo) /\ ~WritePart(solo) /\ ~Fault(solo)
    BY DEF WriteOver, WritePart, Fault, Alone
  <1> QED
    BY <1>1, <1>2, <1>3, <1>4, <1>5, <1>6, <1>7, <1>8 DEF Next, Ended

LEMMA EmptyStore ==
  ASSUME Initial \subseteq {Absent, Blank}, Init
  PROVE  Store!Init
  <1>1. Committed = EmptyConfig
    BY DEF Init, Committed, Decoded, Absent, Blank
  <1>2. NamesIn(EmptyConfig) = {}
    BY DEF NamesIn, EmptyConfig
  <1>3. [n \in {} |-> EmptyConfig.clusters[Find(EmptyConfig, n)].keys] = <<>>
    OBVIOUS
  <1> QED BY <1>1, <1>2, <1>3 DEF Store!Init, EmptyConfig

(***************************************************************************)
(* One process alone, which no fault stops, changes the file as the store  *)
(* does: one key in one step, or nothing.  The step is the truncation of   *)
(* the file; everything else stutters.  Names are unique in the file,      *)
(* which makes its list a map.                                             *)
(***************************************************************************)
THEOREM FileImplementsStore ==
  ASSUME NEW solo, Procs = {solo}, ~Faults, Initial \subseteq {Absent, Blank}
  PROVE  Spec => ImplementsStore
  <1>1. Init => Store!Init /\ UpToDate /\ Alone
    BY EmptyStore DEF Init, UpToDate, Alone
  <1>2. UNCHANGED Committed => UNCHANGED Store!vars
    BY DEF Store!vars
  <1>3. CommitStep(solo) => [Store!Next]_Store!vars
    BY CommandStep DEF CommitStep
  <1>4. TypeOK /\ ClusterNamesUnique /\ Alone /\ UpToDate /\ [Next]_vars
          => Alone' /\ UpToDate' /\ [Store!Next]_Store!vars
    BY <1>2, <1>3, AloneStep, SoloStep
  <1> QED BY <1>1, <1>4, TypeCorrect, NamesStayUnique, PTL
          DEF Spec, ImplementsStore, Store!Spec

-----------------------------------------------------------------------------
(* enable-auth *)

LEMMA AuthOfEntry ==
  ASSUME NEW cfg \in Config, UniqueNames(cfg), NEW i \in DOMAIN cfg.clusters
  PROVE  AuthOf(cfg, cfg.clusters[i].name) <=> cfg.clusters[i].auth
  <1>1. cfg.clusters[i].name \in NamesIn(cfg) /\ cfg.clusters[i] \in Cluster
    BY ClustersType DEF NamesIn
  <1>2. Find(cfg, cfg.clusters[i].name) = i
    BY <1>1, FindFinds, ClustersType DEF UniqueNames
  <1> QED BY <1>1, <1>2 DEF AuthOf

(***************************************************************************)
(* A cluster that is not the one a command is on keeps its entry.          *)
(***************************************************************************)
LEMMA OthersKeepAuth ==
  ASSUME NEW cfg \in Config, UniqueNames(cfg), NEW c \in Commands, ~Rejects(cfg, c),
         NEW n \in Names, AuthOf(cfg, n),
         \/ c.op \in {"set", "unset", "setDefault", "unsetDefault"}
         \/ n # c.name
  PROVE  AuthOf(Modified(cfg, c), n)
  <1> DEFINE s == cfg.clusters
             new == Modified(cfg, c)
             t == new.clusters
  <1>1. new \in Config /\ UniqueNames(new)
    BY ModifiedType, ModifiedUnique
  <1>2. PICK j \in 1..Len(s) : s[j].name = n /\ s[j].auth /\ j \in DOMAIN s
    BY FindFinds, ClustersType DEF AuthOf
  <1>3. \E i \in DOMAIN t : t[i] = s[j]
    <2>1. CASE c.op \in {"set", "unset", "setDefault", "unsetDefault"}
      BY <1>2, <2>1, ModifiedFields
    <2>2. CASE c.op = "clusterDelete" /\ n # c.name
      <3>1. c.name \in NamesIn(cfg) /\ t = RemoveFromSlice(s, Find(cfg, c.name))
        BY <2>2, ModifiedFields DEF Rejects
      <3> QED BY <1>2, <2>2, <3>1, ShortenedList
    <2>3. CASE c.op \in SectionOps /\ n # c.name
      <3> DEFINE cl == ModifiedCluster(ClusterNamed(cfg, c.name), c)
      <3>1. c.name \in Names /\ cl \in Cluster /\ t = Update(cfg, c.name, cl)
        BY <2>3, SectionCommand, ModifiedFields
      <3> HIDE DEF cl
      <3> QED BY <1>2, <2>3, <3>1, UpdatedList
    <2> QED BY <2>1, <2>2, <2>3, CommandAssumption DEF Command, SectionOps
  <1>4. PICK i \in DOMAIN t : t[i].name = n /\ t[i].auth
    BY <1>2, <1>3
  <1> HIDE DEF new
  <1>5. AuthOf(new, n)
    BY <1>1, <1>4, AuthOfEntry
  <1> QED BY <1>5 DEF new

(***************************************************************************)
(* A command on a section that asks for tokens leaves one that does,       *)
(* unless it is one of those that turn enable-auth off.                    *)
(***************************************************************************)
LEMMA SectionKeepsAuth ==
  ASSUME NEW cfg \in Config, UniqueNames(cfg), NEW c \in Commands, ~Rejects(cfg, c),
         c.op \in SectionOps, AuthOf(cfg, c.name), ~TurnsAuthOff(c)
  PROVE  AuthOf(Modified(cfg, c), IF c.op = "clusterRename" THEN c.value ELSE c.name)
  <1> DEFINE old == ClusterNamed(cfg, c.name)
             cl == ModifiedCluster(old, c)
             new == Modified(cfg, c)
  <1>1. new \in Config /\ UniqueNames(new)
    BY ModifiedType, ModifiedUnique
  <1>2. /\ c.name \in Names /\ cl \in Cluster
        /\ cl.name = IF c.op = "clusterRename" THEN c.value ELSE c.name
        /\ new.clusters = Update(cfg, c.name, cl)
    BY SectionCommand, ModifiedFields
  <1>3. old \in Cluster /\ old.auth
    BY <1>2, ClusterNamedType DEF AuthOf, ClusterNamed
  <1>4. cl.auth
    <2>1. CASE c.op = "clusterSet"
      BY <1>3, <2>1 DEF ModifiedCluster, WithKey, Cluster
    <2>2. CASE c.op = "clusterAuth"
      BY <1>3, <2>2 DEF TurnsAuthOff, ModifiedCluster, WithAuth, Cluster
    <2>3. CASE c.op = "clusterRename"
      BY <1>3, <2>3 DEF ModifiedCluster, WithName, Cluster
    <2>4. CASE c.op = "clusterUnset"
      BY <1>3, <2>4 DEF ModifiedCluster, WithoutKey, Cluster
    <2> QED BY <2>1, <2>2, <2>3, <2>4 DEF TurnsAuthOff, SectionOps
  <1> HIDE DEF cl
  <1>5. \E i \in DOMAIN new.clusters : new.clusters[i] = cl
    BY <1>2, UpdatedList
  <1> HIDE DEF new
  <1>6. AuthOf(new, cl.name)
    BY <1>1, <1>4, <1>5, AuthOfEntry
  <1> QED BY <1>2, <1>6 DEF new

LEMMA AuthStep ==
  ASSUME NEW p \in Procs, CommitStep(p), NEW n \in Names,
         AuthOf(Committed, n), ~AuthOf(Committed', n)
  PROVE  /\ pc[p] = "truncate" /\ cmd[p].name = n
         /\ \/ TurnsAuthOff(cmd[p])
            \/ cmd[p].op = "clusterRename" /\ AuthOf(Committed', cmd[p].value)
  <1> DEFINE c == cmd[p]
  <1>1. /\ pc[p] = "truncate" /\ c \in Commands /\ ~Rejects(Committed, c)
        /\ Committed \in Config /\ UniqueNames(Committed)
        /\ Committed' = Modified(Committed, c)
    BY DEF CommitStep
  <1>2. c.name = n /\ c.op \notin {"set", "unset", "setDefault", "unsetDefault"}
    BY <1>1, OthersKeepAuth
  <1>3. c.op \in SectionOps \/ c.op = "clusterDelete"
    BY <1>1, <1>2, CommandAssumption DEF Command, SectionOps
  <1>4. c.op = "clusterDelete" => TurnsAuthOff(c)
    BY DEF TurnsAuthOff
  <1>5. c.op \in SectionOps /\ ~TurnsAuthOff(c) =>
          AuthOf(Committed', IF c.op = "clusterRename" THEN c.value ELSE c.name)
    BY <1>1, <1>2, SectionKeepsAuth
  <1> QED BY <1>1, <1>2, <1>3, <1>4, <1>5

(***************************************************************************)
(* Under the same assumptions, no cluster stops asking for tokens unless a *)
(* command on that cluster says so.                                        *)
(***************************************************************************)
THEOREM AuthStaysOn ==
  ASSUME NEW solo, Procs = {solo}, ~Faults
  PROVE  Spec => AuthTurnedOffOnDemand
  <1> DEFINE OnDemand ==
        \A n \in Names : AuthOf(Committed, n) /\ ~AuthOf(Committed', n) =>
          \E p \in Procs :
            /\ pc[p] = "truncate" /\ cmd[p].name = n
            /\ \/ TurnsAuthOff(cmd[p])
               \/ cmd[p].op = "clusterRename" /\ AuthOf(Committed', cmd[p].value)
  <1>1. Init => Alone /\ UpToDate
    BY DEF Init, Alone, UpToDate
  <1>2. CommitStep(solo) => OnDemand
    BY AuthStep
  <1>3. UNCHANGED Committed => OnDemand
    OBVIOUS
  <1>4. TypeOK /\ ClusterNamesUnique /\ Alone /\ UpToDate /\ [Next]_vars
          => Alone' /\ UpToDate' /\ [OnDemand]_vars
    BY <1>2, <1>3, AloneStep, SoloStep
  <1> QED BY <1>1, <1>4, TypeCorrect, NamesStayUnique, PTL
          DEF Spec, AuthTurnedOffOnDemand

=============================================================================
