------------------------------- MODULE ConfigFile -------------------------------
(***************************************************************************)
(* `ochami config` commands on one configuration file.                     *)
(*                                                                         *)
(* Every command is a process of its own.  It reads the whole file         *)
(* (ReadConfig), changes the configuration in memory and writes the whole  *)
(* file back (WriteConfig), which truncates the file before it fills it.   *)
(* Nothing locks the file.                                                 *)
(*                                                                         *)
(* A file holds its decoded configuration; an empty file decodes to the    *)
(* empty one.  What YAML and koanf do to a configuration on the way is     *)
(* kept: timeout has a default, a key of a Go type of its own cannot be    *)
(* replaced by a string (StrictMerge), a cluster section whose fields are  *)
(* all zero is left out (omitempty), and a section without enable-auth     *)
(* decodes to enable-auth true.                                            *)
(*                                                                         *)
(* The text itself matters where it is torn: a process writes at its own   *)
(* offset, so that a text another process wrote in the meantime sticks out *)
(* behind a shorter one, and a full disk ends a text early.                *)
(***************************************************************************)
EXTENDS Naturals, Sequences, SequencesExt

CONSTANTS
  Procs,       \* processes that run commands
  Names,       \* names of clusters
  NonStrings,  \* the names StringToType makes a bool, an int or a float
  Options,     \* global keys, such as log.level and timeout
  LogOptions,  \* the ones log.Init needs: log.level and log.format
  Typed,       \* the ones whose type is not string: timeout (time.Duration)
               \* and the default formats (format.DataFormat)
  Defaults,    \* what Config.UnmarshalYAML gives a key that is not in the file
  Keys,        \* keys of a cluster section, such as cluster.uri
  Values,      \* their values
  NoValue,     \* a key that is not set
  Commands,    \* the commands a process may run
  MaxRuns,     \* bound: commands run by one process
  Initial,     \* what may be at the path before the first command
  Explicit,    \* do the commands name the file with --config
  Faults       \* may a process die, or a system call fail, at any step

Cluster == [name : Names, keys : [Keys -> Values \cup {NoValue}], auth : BOOLEAN]
Config == [settings : [Options -> Values \cup {NoValue}],
           default : Names \cup {NoValue},
           clusters : Seq(Cluster)]
Command == [op : {"set", "setDefault", "unset", "unsetDefault", "clusterSet",
                  "clusterAuth", "clusterRename", "clusterUnset",
                  "clusterUnsetAuth", "clusterClear", "clusterDelete"},
            name : Names \cup {NoValue},
            key : Options \cup Keys \cup {NoValue},
            value : Values \cup Names \cup BOOLEAN \cup {NoValue},
            dflt : BOOLEAN]

ASSUME NoValueAssumption == NoValue \notin Values \cup Names
ASSUME DefaultsAssumption == Defaults \in [Options -> Values \cup {NoValue}]
ASSUME MaxRunsAssumption == MaxRuns \in Nat
ASSUME CommandAssumption ==
  /\ Commands \subseteq Command
  /\ \A c \in Commands :
       /\ c.op \in {"set", "unset"} => c.key \in Options
       /\ c.op \in {"clusterSet", "clusterUnset"} => c.key \in Keys
       /\ c.op \in {"set", "clusterSet"} => c.value \in Values
       /\ c.op = "clusterAuth" => c.value \in BOOLEAN
       /\ c.op \in {"setDefault", "clusterRename"} => c.value \in Names
       /\ c.op \in {"clusterSet", "clusterAuth", "clusterRename", "clusterUnset",
                    "clusterUnsetAuth", "clusterClear", "clusterDelete"}
            => c.name \in Names
       /\ c.dflt => c.op \in {"clusterSet", "clusterAuth", "clusterRename"}

VARIABLES
  file,   \* what is at the path
  pc,     \* where each process is
  cmd,    \* the command it runs
  out,    \* the configuration it has changed in memory and is to write
  exit,   \* how its last command ended
  runs,   \* commands it has started
  torn,   \* history: the file is not, or not from, a text that one write left whole
  spoilt  \* history: the processes that have read a torn file

vars == <<file, pc, cmd, out, exit, runs, torn, spoilt>>

EmptyConfig == [settings |-> Defaults, default |-> NoValue, clusters |-> <<>>]

(***************************************************************************)
(* No file, a file of no bytes, a text and one that is no configuration,   *)
(* with what its pieces are pieces of.                                     *)
(***************************************************************************)
Absent == [kind |-> "absent", cfg |-> EmptyConfig]
Blank == [kind |-> "blank", cfg |-> EmptyConfig]
Text(b) == [kind |-> "text", cfg |-> b]
Garbled(b) == [kind |-> "garbled", cfg |-> b]

(***************************************************************************)
(* What ReadConfig makes of a file, unless it fails.                       *)
(***************************************************************************)
Decoded(f) == f.cfg
Readable(f) == f.kind \in {"blank", "text"}

(***************************************************************************)
(* LoadGlobalConfigFromFile and log.Init accept the file.  The default     *)
(* configuration stands in for a blank file only: Config.UnmarshalYAML     *)
(* overwrites it when there is anything to decode.                         *)
(***************************************************************************)
Loadable(f) ==
  /\ Readable(f)
  /\ f = Blank \/ \A o \in LogOptions : f.cfg.settings[o] # NoValue

Files == [kind : {"absent", "blank", "text", "garbled"}, cfg : Config]

WellFormed(f) == f \in Files /\ (f.kind \in {"absent", "blank"} => f.cfg = EmptyConfig)

-----------------------------------------------------------------------------
(* A cluster through koanf and YAML *)

BlankKeys == [k \in Keys |-> NoValue]

(***************************************************************************)
(* A zero cluster section is omitted when a cluster is encoded.            *)
(***************************************************************************)
HasSection(cl) == cl.auth \/ cl.keys # BlankKeys

(***************************************************************************)
(* New clusters are a name and nothing else.                               *)
(***************************************************************************)
NewCluster(n) == [name |-> n, keys |-> BlankKeys, auth |-> FALSE]

(***************************************************************************)
(* Setting a key in an omitted section makes one without enable-auth,      *)
(* which decodes to true.                                                  *)
(***************************************************************************)
WithKey_Fault(cl, k, v) == [cl EXCEPT !.keys[k] = v, !.auth = FALSE]  \* seeded fault

WithKey(cl, k, v) ==
  [cl EXCEPT !.keys[k] = v, !.auth = HasSection(cl) => cl.auth]

WithAuth(cl, b) == [cl EXCEPT !.auth = b]

WithName(cl, n) == [cl EXCEPT !.name = n]

(***************************************************************************)
(* enable-auth has no omitempty, so it stays in a section that loses its   *)
(* other keys; koanf prunes a section that becomes empty.                  *)
(***************************************************************************)
WithoutKey(cl, k) == [cl EXCEPT !.keys[k] = NoValue]

WithoutAuth(cl) == [cl EXCEPT !.auth = cl.keys # BlankKeys]

WithoutSection(cl) == NewCluster(cl.name)

-----------------------------------------------------------------------------
(* A configuration in memory *)

NamesIn(cfg) == {cfg.clusters[i].name : i \in DOMAIN cfg.clusters}

(***************************************************************************)
(* The first cluster of the list with the name.                            *)
(***************************************************************************)
Find(cfg, n) ==
  CHOOSE i \in DOMAIN cfg.clusters :
    /\ cfg.clusters[i].name = n
    /\ \A j \in 1..(i - 1) : cfg.clusters[j].name # n

ClusterNamed(cfg, n) ==
  IF n \in NamesIn(cfg) THEN cfg.clusters[Find(cfg, n)] ELSE NewCluster(n)

(***************************************************************************)
(* ModifyConfigCluster changes the cluster in place or appends a new one.  *)
(***************************************************************************)
Update(cfg, n, new) ==
  IF n \in NamesIn(cfg)
  THEN [cfg.clusters EXCEPT ![Find(cfg, n)] = new]
  ELSE Append(cfg.clusters, new)

(***************************************************************************)
(* RemoveFromSlice puts the last element in the place of the removed one.  *)
(***************************************************************************)
RemoveFromSlice_Fault(s, i) ==  \* seeded fault
  [j \in 1..(Len(s) - 1) |-> s[j]]

RemoveFromSlice(s, i) == [j \in 1..(Len(s) - 1) |-> IF j = i THEN s[Len(s)] ELSE s[j]]

DefaultAfterSet_Fault(cfg, c, newName) ==  \* seeded fault
  IF c.dflt THEN newName ELSE cfg.default

DefaultAfterSet_Fault2(cfg, c, newName) ==  \* seeded fault
  IF c.dflt THEN c.value ELSE cfg.default

(***************************************************************************)
(* --default makes a cluster the default under its new name, and the       *)
(* default follows a cluster that is renamed.                              *)
(***************************************************************************)
DefaultAfterSet(cfg, c, newName) ==
  IF c.dflt \/ (c.op = "clusterRename" /\ cfg.default = c.name)
  THEN newName
  ELSE cfg.default

(***************************************************************************)
(* value.(string) of a name that is not a string panics, at the first      *)
(* cluster it is compared with.                                            *)
(***************************************************************************)
Panics(cfg, c) ==
  /\ c.op = "clusterRename"
  /\ c.value \in NonStrings
  /\ cfg.clusters # <<>>

(***************************************************************************)
(* koanf.Set merges strictly: a value replaces one of its own type only.   *)
(* The name of a new cluster is a string; without any cluster there is     *)
(* nothing for a name that is none to panic at before.                     *)
(***************************************************************************)
WrongType(cfg, c) ==
  \/ c.op = "set" /\ c.key \in Typed /\ cfg.settings[c.key] # NoValue
  \/ c.op = "setDefault" /\ c.value \in NonStrings /\ cfg.default # NoValue
  \/ c.op = "clusterRename" /\ c.value \in NonStrings /\ cfg.clusters = <<>>

Rejects_Fault(cfg, c) ==  \* seeded fault
  \/ Panics(cfg, c) \/ WrongType(cfg, c)
  \/ c.op \in {"clusterUnset", "clusterUnsetAuth", "clusterClear", "clusterDelete"}
       /\ c.name \notin NamesIn(cfg)

Rejects(cfg, c) ==
  \/ Panics(cfg, c) \/ WrongType(cfg, c)
  \/ c.op = "clusterRename" /\ c.value \in NamesIn(cfg)
  \/ c.op \in {"clusterUnset", "clusterUnsetAuth", "clusterClear", "clusterDelete"}
       /\ c.name \notin NamesIn(cfg)

(***************************************************************************)
(* The cluster section a cluster command leaves.                           *)
(***************************************************************************)
ModifiedCluster(cl, c) ==
  CASE c.op = "clusterSet" -> WithKey(cl, c.key, c.value)
    [] c.op = "clusterAuth" -> WithAuth(cl, c.value)
    [] c.op = "clusterRename" -> WithName(cl, c.value)
    [] c.op = "clusterUnset" -> WithoutKey(cl, c.key)
    [] c.op = "clusterUnsetAuth" -> WithoutAuth(cl)
    [] c.op = "clusterClear" -> WithoutSection(cl)

(***************************************************************************)
(* The configuration a command leaves in memory.                           *)
(***************************************************************************)
Modified(cfg, c) ==
  CASE c.op = "set" -> [cfg EXCEPT !.settings[c.key] = c.value]
    [] c.op = "unset" -> [cfg EXCEPT !.settings[c.key] = Defaults[c.key]]
    [] c.op = "setDefault" -> [cfg EXCEPT !.default = c.value]
    [] c.op = "unsetDefault" -> [cfg EXCEPT !.default = NoValue]
    [] c.op = "clusterDelete" ->
         [cfg EXCEPT !.clusters = RemoveFromSlice(cfg.clusters, Find(cfg, c.name)),
                     !.default = IF cfg.default = c.name THEN NoValue ELSE cfg.default]
    [] OTHER ->
         LET cl == ModifiedCluster(ClusterNamed(cfg, c.name), c)
         IN  [cfg EXCEPT !.clusters = Update(cfg, c.name, cl),
                         !.default = DefaultAfterSet(cfg, c, cl.name)]

-----------------------------------------------------------------------------
(* A text that is torn.  The log section and timeout come first, then      *)
(* default-cluster, the formats and, last, the clusters; enable-auth is    *)
(* the last line of a section.                                             *)

(***************************************************************************)
(* The list of a whole text, with the last lines of another behind it:     *)
(* whole clusters, before which a section may follow a cluster that has    *)
(* none.                                                                   *)
(***************************************************************************)
ClustersBehind(s, t) ==
  {s \o u : u \in Suffixes(t)}
    \cup {Front(s) \o [u EXCEPT ![1].name = Last(s).name] :
            u \in IF HasSection(Last(s)) THEN {} ELSE Suffixes(t) \ {<<>>}}

(***************************************************************************)
(* Without clusters the keys may follow that the text does not have.       *)
(***************************************************************************)
KeysBehind(b, r) ==
  {[settings |-> [o \in Options |-> IF o \in os THEN r.settings[o] ELSE b.settings[o]],
    default |-> d, clusters |-> r.clusters] :
      os \in SUBSET {o \in Typed \cap Options : b.settings[o] = NoValue},
      d \in IF b.default = NoValue THEN {NoValue, r.default} ELSE {b.default}}

(***************************************************************************)
(* What the text of b leaves of a longer one it is written over.  Most     *)
(* ends of a text are no YAML behind it: they start within a line, or      *)
(* repeat a key.                                                           *)
(***************************************************************************)
Mixed(b, f) ==
  LET r == Decoded(f)
  IN  {Garbled([b EXCEPT !.clusters = b.clusters \o r.clusters])}
        \cup {Text(m) : m \in IF b.clusters = <<>> THEN KeysBehind(b, r)
                               ELSE {[b EXCEPT !.clusters = s] :
                                       s \in ClustersBehind(b.clusters, r.clusters)}}

(***************************************************************************)
(* What a first part of a section decodes to: a name may be cut to another *)
(* one, and a value that is cut is as good as missing.                     *)
(***************************************************************************)
CutCluster(cl) ==
  {NewCluster(n) : n \in Names}
    \cup {[cl EXCEPT !.keys = [k \in Keys |-> IF k \in ks THEN cl.keys[k] ELSE NoValue],
                     !.auth = TRUE] : ks \in SUBSET Keys}

(***************************************************************************)
(* What a first part of the text of b decodes to.                          *)
(***************************************************************************)
Cut(b) ==
  {[settings |-> [o \in Options |-> IF o \in os THEN b.settings[o] ELSE Defaults[o]],
    default |-> NoValue, clusters |-> <<>>] : os \in SUBSET Options}
    \cup {[b EXCEPT !.default = IF b.default = NoValue THEN NoValue ELSE n,
                    !.clusters = <<>>] : n \in Names}
    \cup {[b EXCEPT !.clusters = SubSeq(b.clusters, 1, i - 1)] : i \in DOMAIN b.clusters}
    \cup UNION {{[b EXCEPT !.clusters = Append(SubSeq(b.clusters, 1, i - 1), cl)] :
                   cl \in CutCluster(b.clusters[i])} : i \in DOMAIN b.clusters}

-----------------------------------------------------------------------------
(* The commands *)

(***************************************************************************)
(* `config set` and `config cluster set` offer to create the file; the     *)
(* commands that take something away do not.                               *)
(***************************************************************************)
Creates(c) == c.op \in {"set", "setDefault", "clusterSet", "clusterAuth", "clusterRename"}

Goto(p, l) == pc' = [pc EXCEPT ![p] = l]
Finish(p, status) == Goto(p, "idle") /\ exit' = [exit EXCEPT ![p] = status]
                     /\ out' = [out EXCEPT ![p] = EmptyConfig]
                     /\ spoilt' = spoilt \ {p}
Moves(p, l) == Goto(p, l) /\ UNCHANGED <<file, cmd, out, exit, runs, torn, spoilt>>
Fails(p, status) == Finish(p, status) /\ UNCHANGED <<file, cmd, runs, torn>>

UniqueNames(cfg) ==
  \A i, j \in DOMAIN cfg.clusters :
    cfg.clusters[i].name = cfg.clusters[j].name => i = j

Resolves(cfg) == cfg.default \in NamesIn(cfg) \cup {NoValue}

ASSUME InitialAssumption ==
  \A f \in Initial : WellFormed(f) /\ UniqueNames(Decoded(f)) /\ Resolves(Decoded(f))

Init ==
  /\ file \in Initial
  /\ pc = [p \in Procs |-> "idle"]
  /\ cmd \in {[p \in Procs |-> c] : c \in Commands}
  /\ out = [p \in Procs |-> EmptyConfig]
  /\ exit = [p \in Procs |-> "none"]
  /\ runs = [p \in Procs |-> 0]
  /\ torn = FALSE
  /\ spoilt = {}

Start(p, c) ==
  /\ pc[p] = "idle"
  /\ runs[p] < MaxRuns
  /\ cmd' = [cmd EXCEPT ![p] = c]
  /\ exit' = [exit EXCEPT ![p] = "none"]
  /\ runs' = [runs EXCEPT ![p] = @ + 1]
  /\ Goto(p, CASE Explicit /\ Creates(c) -> "askFirst"
                [] Explicit -> "load"
                [] ~Explicit /\ Creates(c) -> "ask"
                [] OTHER -> "read")
  /\ UNCHANGED <<file, out, torn, spoilt>>

(***************************************************************************)
(* AskToCreate, in InitConfig (which fails when the user declines) and     *)
(* again in the command (which then exits with status 0).                  *)
(***************************************************************************)
Ask(p, now, create, next, declined) ==
  /\ pc[p] = now
  /\ IF file # Absent
     THEN Moves(p, next)
     ELSE Moves(p, create) \/ Fails(p, declined) \/ Fails(p, "error")

Create(p, now, next) ==
  /\ pc[p] = now
  /\ file' = IF file = Absent THEN Blank ELSE file
  /\ Goto(p, next)
  /\ UNCHANGED <<cmd, out, exit, runs, torn, spoilt>>

AskFirst(p) == Ask(p, "askFirst", "createFirst", "load", "error")
CreateFirst(p) == Create(p, "createFirst", "load")
AskToCreate(p) == Ask(p, "ask", "create", "read", "declined")
CreateIfNotExists(p) == Create(p, "create", "read")

(***************************************************************************)
(* InitConfigAndLogging of a file named by --config.  `cluster delete`     *)
(* does it twice.                                                          *)
(***************************************************************************)
Load(p) ==
  /\ pc[p] \in {"load", "reload"}
  /\ IF ~Loadable(file) THEN Fails(p, "error")
     ELSE Moves(p, IF Creates(cmd[p]) THEN "ask"
                   ELSE IF cmd[p].op = "clusterDelete" /\ pc[p] = "load" THEN "reload"
                   ELSE "read")

(***************************************************************************)
(* ReadConfig and the change in memory.                                    *)
(***************************************************************************)
Read(p) ==
  /\ pc[p] = "read"
  /\ LET cfg == Decoded(file)
         c == cmd[p]
     IN  \/ /\ ~Readable(file) \/ Rejects(cfg, c)
            /\ Fails(p, IF Readable(file) /\ Panics(cfg, c) THEN "panic" ELSE "error")
         \/ /\ Readable(file) /\ ~Rejects(cfg, c)
            /\ out' = [out EXCEPT ![p] = Modified(cfg, c)]
            /\ spoilt' = IF torn THEN spoilt \cup {p} ELSE spoilt
            /\ Goto(p, "truncate")
            /\ UNCHANGED <<file, cmd, exit, runs, torn>>

(***************************************************************************)
(* os.WriteFile opens the file with O_TRUNC, then fills it with one write  *)
(* at the start, whatever others have written since.                       *)
(***************************************************************************)
Truncate(p) ==
  /\ pc[p] = "truncate"
  /\ file' = Blank
  /\ torn' = FALSE
  /\ Goto(p, "write")
  /\ UNCHANGED <<cmd, out, exit, runs, spoilt>>

WriteAll(p) ==
  /\ pc[p] = "write"
  /\ file' = Text(out[p])
  /\ torn' = (p \in spoilt)
  /\ Finish(p, "ok")
  /\ UNCHANGED <<cmd, runs>>

(***************************************************************************)
(* The text is shorter than the one another process wrote after the file   *)
(* was truncated.                                                          *)
(***************************************************************************)
WriteOver(p) ==
  /\ pc[p] = "write"
  /\ file # Blank
  /\ file' \in Mixed(out[p], file)
  /\ torn' = TRUE
  /\ Finish(p, "ok")
  /\ UNCHANGED <<cmd, runs>>

(***************************************************************************)
(* The disk is full, or the process dies, in the middle of the write.      *)
(***************************************************************************)
WritePart(p) ==
  /\ Faults
  /\ pc[p] = "write"
  /\ \E b \in Cut(out[p]) :
       file' \in {Text(b), Garbled(b)} \cup IF file = Blank THEN {} ELSE Mixed(b, file)
  /\ torn' = TRUE
  /\ Finish(p, "fault")
  /\ UNCHANGED <<cmd, runs>>

(***************************************************************************)
(* The process dies, or a system call fails and it gives up.               *)
(***************************************************************************)
Fault(p) ==
  /\ Faults
  /\ pc[p] # "idle"
  /\ Fails(p, "fault")

AllDone == \A p \in Procs : pc[p] = "idle" /\ runs[p] = MaxRuns
Ended == AllDone /\ UNCHANGED vars

Next ==
  \/ \E p \in Procs :
       \/ \E c \in Commands : Start(p, c)
       \/ AskFirst(p) \/ CreateFirst(p) \/ Load(p)
       \/ AskToCreate(p) \/ CreateIfNotExists(p)
       \/ Read(p) \/ Truncate(p)
       \/ WriteAll(p) \/ WriteOver(p) \/ WritePart(p) \/ Fault(p)
  \/ Ended

Spec == Init /\ [][Next]_vars

-----------------------------------------------------------------------------
(* Properties *)

Labels == {"idle", "askFirst", "createFirst", "load", "reload", "ask", "create",
           "read", "truncate", "write"}
Statuses == {"none", "ok", "declined", "error", "panic", "fault"}

(***************************************************************************)
(* The variables keep their types.                                         *)
(***************************************************************************)
TypeOK ==
  /\ WellFormed(file)
  /\ pc \in [Procs -> Labels]
  /\ cmd \in [Procs -> Commands]
  /\ out \in [Procs -> Config]
  /\ exit \in [Procs -> Statuses]
  /\ runs \in [Procs -> 0..MaxRuns]
  /\ torn \in BOOLEAN
  /\ spoilt \subseteq Procs

(***************************************************************************)
(* No two clusters of a file share a name, whatever commands run side by   *)
(* side, overwrite each other's changes and die, wherever they do:         *)
(* --cluster and default-cluster name one cluster.  It is why              *)
(* ModifyConfigCluster refuses to rename a cluster to a name in use.  The  *)
(* only way out is a torn text: one that a write did not finish, or that   *)
(* was written between another process's truncation of the file and its    *)
(* write, and what a command makes of such a text.                         *)
(***************************************************************************)
ClusterNamesUnique ==
  /\ ~torn => UniqueNames(Decoded(file))
  /\ \A p \in Procs \ spoilt : UniqueNames(out[p])

(***************************************************************************)
(* default-cluster names a cluster of the file as long as nobody sets it   *)
(* by hand: it follows a rename and goes with the cluster it names, in     *)
(* every interleaving.  With a dangling default-cluster every later        *)
(* command fails.  Again only a torn text can break it: the clusters are   *)
(* the last lines of a text, and the first to be missing.                  *)
(***************************************************************************)
DefaultResolves ==
  (\A c \in Commands : c.op # "setDefault") =>
    /\ ~torn => Resolves(Decoded(file))
    /\ \A p \in Procs \ spoilt : Resolves(out[p])

(***************************************************************************)
(* The configuration the commands have committed to: a command has made    *)
(* its change when it empties the file to write it anew.                   *)
(***************************************************************************)
Committed ==
  LET Writing == {p \in Procs : pc[p] = "write"}
  IN  IF Writing = {} THEN Decoded(file) ELSE out[CHOOSE p \in Writing : TRUE]

Store == INSTANCE ConfigStore WITH
  settings <- Committed.settings,
  dflt <- Committed.default,
  clusters <- [n \in NamesIn(Committed) |-> Committed.clusters[Find(Committed, n)].keys]

(***************************************************************************)
(* One process alone, and no fault: every command changes the one key it   *)
(* names, in one step, and a command that fails changes nothing (whatever  *)
(* the order of the cluster list and the encoding of its sections).        *)
(***************************************************************************)
ImplementsStore == Store!Spec

AuthOf(cfg, n) == n \in NamesIn(cfg) /\ cfg.clusters[Find(cfg, n)].auth

TurnsAuthOff(c) ==
  \/ c.op \in {"clusterUnsetAuth", "clusterClear", "clusterDelete"}
  \/ c.op = "clusterAuth" /\ ~c.value

(***************************************************************************)
(* A cluster that asks for tokens goes on asking for them, under its new   *)
(* name when it is renamed, until a command on that very cluster turns     *)
(* enable-auth off or takes the section away: false and "not set" look     *)
(* alike in the file, and every command decodes and encodes every cluster. *)
(* (In the other direction, setting a key may turn it on.)                 *)
(***************************************************************************)
AuthTurnedOffOnDemand ==
  [][\A n \in Names : AuthOf(Committed, n) /\ ~AuthOf(Committed', n) =>
       \E p \in Procs :
         /\ pc[p] = "truncate" /\ cmd[p].name = n
         /\ \/ TurnsAuthOff(cmd[p])
            \/ cmd[p].op = "clusterRename" /\ AuthOf(Committed', cmd[p].value)]_vars
=============================================================================
