# A TLA+ model of ochami

`ochami` is the command line client of OpenCHAMI.  One process is one command:
it loads its configuration, finds out which cluster, URI and token to use, talks
to one or more HTTP services (SMD, BSS, PCS, cloud-init, boot, metadata, remote
console), prints and exits.  What outlives a process is in two places: the YAML
configuration files and the services.

These modules model the parts of the program where the order of steps, a second
actor, a failure half-way or a repeated run decides whether the result is right.
Formatting, logging, the wording of errors and the syntax of YAML, JSON and
flags are left out, except where a conversion changes what is stored.

## The system

| component | state it keeps | operations | talks to | correct if |
|---|---|---|---|---|
| configuration commands (`internal/config/config.go`, `cmd/config`) | one YAML file per level (system, user, `--config`) | set, unset, cluster set / unset / delete, show | other `ochami` processes, through the file | a command changes the key it names; cluster names stay unique; default-cluster resolves; the next command can load the file |
| configuration loading (`LoadGlobalConfigMerged`, `merge.go`) | `GlobalConfig`, koanf | read, merge, decode | file system | the documented file wins, key by key; no cluster lost or doubled |
| cluster, URI and token (`internal/cli/cli.go`, `GetServiceBaseURI`) | `Token`, the chosen cluster | GetBaseURI, GetAPIVersion, HandleToken, SetToken, CheckToken | `GlobalConfig`, flags, environment | URI, API version and token are of one cluster; a cluster that wants a token gets a checked one |
| remote console (`pkg/client/rcs`) | three goroutines, three channels, terminal mode, a websocket | ConnectConsole; show, list, status | RCS, terminal, signals | the session ends, the terminal is restored, nobody blocks, no two writers |
| static discovery (`cmd/discover/static`, `pkg/discover`) | what is left to send, four error flags | build the structures, send them in phases, overwrite on conflict | SMD | exit status 0 means done; a rerun repairs; nothing is overwritten unasked |
| SMD commands (`cmd/smd`, `pkg/client/smd`) | envelope and error per item | add, get, update, delete, batch by batch | SMD | every error reaches the exit status; a deletion asks, and deletes what it was given |
| PCS commands (`cmd/pcs`) | a poll loop | start, abort, list, show, monitor | PCS | monitor ends when the transition does |
| BSS commands (`cmd/bss`) | boot parameters read and put back | get, add, set, update, delete, boot image set | BSS | an edit keeps what it does not name |
| cloud-init, boot and metadata commands | none | one request, or one per item | the service | every error reaches the exit status; each answer goes under its name |
| HTTP client (`pkg/client`) | headers, last envelope | GET, POST, PUT, PATCH, DELETE; patches from `--set`, `--unset`, `--add`, `--remove` | all services | a failure is told from success |
| formats, xnames, prompts, logging, version | none | conversion, questions | the user | |

A command calls down this list: configuration, then cluster and token, then a
client, whose requests go out one after the other.  Only the console runs
goroutines.  Two processes never talk to each other, but share the configuration
file and the services, without any lock.

### What is hard

* `config` commands read, change and write back a file that `os.WriteFile`
  truncates first; other processes do the same meanwhile, or die in between.
* A zero-valued structure disappears from YAML, and a default comes back with
  the next read.
* Three levels of configuration, two ways to name a cluster, four sources of a
  URI, two of a token: two functions that rank them differently disagree.
* Console: three goroutines share channels, a terminal and a connection that
  allows one writer, and signals arrive at any time.
* About 100 commands repeat one pattern (question, connection, payload, requests,
  report) by hand, with differences nobody intended.  The question and the
  payload share stdin.
* Discovery: a hand-written file of which the entries refer to each other by
  name, MAC address or xname, in two formats; then dozens of requests that each
  may fail, or be carried out with the answer lost, and a command that goes on;
  then it is run again.
* Boot parameters are read, edited and put back whole, without a version.
* A power transition goes on in PCS while a command watches it by polls, another
  one aborts it, and PCS forgets it in the end.

`PROJECT.json` lists these hazards at the lines where they bite.

## Modules

A definition has the name of the function or variable it models where it can.
A definition `Name_Suffix` marked "seeded fault" is a bug on purpose: putting it
in the place of `Name` breaks a property, which shows that the property depends
on the code.

### ConfigFile, ConfigStore: the configuration commands

`ConfigFile` has one action for every system call of a command, per process:
`AskFirst`, `CreateFirst` and `Load` (InitConfigAndLogging with `--config`),
`AskToCreate`, `CreateIfNotExists`, `Read` (ReadConfig and the change in memory:
ModifyConfig, ModifyConfigCluster, DeleteConfig, DeleteConfigCluster, or the
swap-and-shrink of `cluster delete`), `Truncate` and the write (os.WriteFile), and
`Fault` (the process dies or a call fails, wherever it is).  `out[p]` is what
process p has in memory, `file` what is at the path: nothing, no bytes, a text (as
the configuration it decodes to) or a text that is no configuration.
os.WriteFile writes at its own offset, hence three actions: `WriteAll` leaves the
whole text, `WriteOver` the text with the end of a longer one behind it, which
another process wrote since the truncation, and `WritePart` a first part (a full
disk, a process that dies).  `Mixed` and `Cut` are what such texts decode to, if
they do, which follows from the order of the keys: the clusters are the last lines,
and enable-auth the last of a section.  `torn` and `spoilt` are history: the file
is such a text or made from one; a process has read one.
Kept of the conversions: omitempty of a zero section, the default of enable-auth,
StrictMerge on options with a Go type of their own, StringToType on names.

`ConfigStore` is the abstract specification: a map of options, a map of clusters
and a default, changed in one step by every command.  `ConfigFile!Store` is the
refinement mapping: a command takes effect when it truncates the file.

### ConfigMerge: the configuration of a service command

`LoadInit` chooses the contents of both files.  `ReadSystem` and `ReadUser` read
them into `loaded`; then each of `loaded` is merged into what koanf holds (`ko`):
`Merge` is mergeConfig, `MergeCluster` one turn of the loop of MergeSlices,
`NextConfig` the end of one configuration; `Decode` turns `ko` into
`GlobalConfig`.  `MergeMaps` has the name of the function.  The specification and
the type have names that begin with Load, since a service command goes on with
`ClusterSession`, and one module has the proofs of both.

### ClusterSession: cluster, URI, token

`GetBaseURI`, `GetAPIVersion`, `HandleToken`, `SetToken`, `CheckToken` and `Send`
are actions in the order of a command; `Init` chooses configuration, flags,
environment and the kind of command: one that calls HandleToken, one that calls
SetToken and CheckToken itself (`smd component get`, `smd iface get`), one that
sends no token.  URIs are classes by what url.Parse makes of them.

### RcsConsole: a console session

`main`, `input` and `output` are the control points of ConnectConsole and of its
two goroutines; `interrupt`, `errChan` and `done` the channels with their
capacities; `defers` the deferred calls registered; `conn` the websocket with
the flag gorilla/websocket detects a second writer by; `tty` the terminal.  A
write is two actions, so that writes can overlap.  `PeerLeaves`, `Signal` and
`Cancel` are the outside world.

### DiscoveryInfo: from the discovery file to what is sent

`file` is a file of either format, and `phase` and `at` say which loop of
DiscoveryInfoV2 or DiscoveryInfoV2Deprecated is at which entry.  `keys` and
`endpoints` are the maps and slices `bmcs` and `bmcsInOrder`; `comps`, `ifaces`
and `groups` what is built.  `AddBMC`, `AddNode`, `AddUnresolvedNode`,
`AddDeprecatedNode`, `AddToGroups` are one turn of a loop each, `PanicOnNode` and
`PanicOnDeprecatedNode` the turns that index an empty list of addresses.
`Convert` is the conversion script, after which the new file is read; `before`
remembers what came of the old one.  `StringToXname` keeps what Sscanf makes of
part of an xname.  An interface is a list of addresses, and of an address the model
has the two keys for its network: `network` (IfaceIPDeprecated) and `name`
(IfaceIP), of which each format reads one and passes over the other (`Networks`).
What an entry says besides that and its keys is its position.

### DiscoverStatic: discovery from a file

`pc` is the phase (components, NIDs, endpoints, interfaces, groups), `todo` what
is left of it, `updating` the resource whose POST was answered 409.  `Brings` is what
SMD adds by itself when it is sent an endpoint: components, and interfaces unless it
is of an earlier version (the components of BMCs, which no request is about, are
left out).  A request
succeeds, is refused, or goes unanswered, with or without having been carried
out.  `Start` chooses `--overwrite` and the discovery version; `Killed` and
`OtherClient` happen at any time, and the command may be run again and again.
The four flags of the code (`compErrorsOccurred` and so on) are one, `errors`,
since only their disjunction decides the exit status.  `acked`, `fresh`, `calm`
and `alone` are history: what the properties are about.

### CommandTable, ServiceCommand: the commands of the services

`CommandTable` has one record per command of SMD, BSS, PCS, RCS, cloud-init, the
boot and the metadata service: in what order it asks, connects and reads; what it
makes of `--no-confirm`, of arguments next to `--data` or `--all`, of a payload
and of an empty list; one request per item or one for all; which error decides
the exit status; what it prints under which name.  Commands that do the same
have equal records, and the map of `PROJECT.json` leads from each to its
`newCmd` function.

`ServiceCommand` carries out one of them: `Validate`, `Refuse` (Args and
PreRunE); `SkipQuestion`, `AnswerYes`, `AnswerNo`, `AskAgain`, `AskFails`
(LoopYesNo); `Connect`, `ConnectFails` (GetClient and HandleToken, which
`ClusterSession` has in detail); `ReadNothing`, `ReadPayload`, `ReadEmpty`,
`ReadFails` (HandlePayload and its variants); `FirstRequest`, `RequestSucceeds`,
`RequestFails`, `RefuseEmpty` (the client methods); `Report`, `ReportFailure`;
`Interrupt` at any time.  `done` is on the side of the service: a request that
failed may have been carried out.  `stdin` is a sequence of lines of answers and
a payload, of which the scanner of LoopYesNo may swallow more than it uses.
What a resource is made of, how a patch is built and how output is formatted
are left out.  Of PCS the table has list and show of transitions and of status,
of RCS list and service status, of cloud-init also service status.  Not in the
table are `cloud-init group render`, `pcs service status` and the output of `rcs
console show`, which only read; the rest of PCS is `PcsTransition`, and `bss boot
image set` is `BootImage`.

### BootImage: bss boot image set

`Get` is GetBootParams for the names given, `Put` one turn of the loop (SetKarg,
PutBootParams), which may be carried out, refused or lost, and `Finish` the exit
status.  `bps` is what the command has read, `todo` what it has not put back.
`OtherClient` makes, changes or deletes an entry at any time.  `theirs`, `stale`,
`over`, `raced` and `asked` are history: who came between a read and a write.
Without names the query is empty, and BSS answers with every entry.

### PcsTransition: start, monitor, abort

`CreateTransition`, `GetTransition`, `DeleteTransition` are the requests, each
of which may be carried out with the answer lost (`RequestFails`).  `monitor` is
the loop `GetTransition`, `Update` (bars, and whether to leave), `Wake`.  An answer
may be without what the code looks for: `start` then prints an empty ID and
succeeds, and `monitor` takes it for a state that does not end its loop (`Blank`).
The steps of PCS (`Launch`, `TaskMoves`, `Complete`, `Aborts`, `Expires`) are external
and never have to happen.  `answer` is what the last poll said, possibly long
ago; `maker` is history: which command each transition is from.  The operations
are a set, of which some are valid, not the seven of the code.

### The services

SMD is not part of this repository and is modelled by what this code relies on:
a POST of what exists is refused (409; `man/ochami-smd.1.sc` says so of
components), PUT and PATCH store what they are given and need a resource that
exists, except a PUT of a component; PUT leaves the NID alone (comment in
`static.go`); an endpoint brings components with it, with NIDs of SMD (same), and
the EthernetInterfaces of its systems and managers (`smd.go`, at RedfishEndpointV2;
`man/ochami-discover.1.sc`, at `--discovery-version`).  PATCH of a group stores its
description and tags (`smd group update`); whether also its members is up to SMD, and
the model has both.
`ServiceCommand` relies on nothing but that a request is carried out or not.
BSS answers a query with the entries that have one of its names (all, without
any), and stores what it is given.  PCS keeps a transition that is over as it is
until it forgets it, and one that is signalled to abort ends as aborted.

## What is checked

Each run is exhaustive within its bounds.  Runs that pass:

| run | instance | shows |
|---|---|---|
| `config_commands` | 1 process, 4 commands, 3 cluster names (one that is not a string), every command, the default path | every command does what the store does, in one step, and a failing one nothing; enable-auth goes off for no cluster but the one a command names |
| `config_race` | 2 processes, 2 commands each, 2 clusters, `--config`, no file or one with both clusters; faults anywhere, also in the middle of a write | names stay unique and default-cluster resolves in every interleaving, until a text is torn |
| `config_merge` | 2 files of every kind, up to 2 clusters in any order and with any section | the first that sets a key decides; clusters are all there, once; default-cluster resolves |
| `cluster_session` | 2 clusters, every kind of URI, all flags, 2 tokens of which one is stale | URI, version and token of one cluster; a checked token to a cluster that asks for one, unless `--cluster` names another that does not |
| `rcs_session` | terminal and pipe, outside signals and cancellation | errChan has room, the terminal is restored, an interrupt or a lost peer ends the session, Ctrl+C alone never makes two writers meet |
| `service_commands` | every command of the table, every combination of its flags, lists of up to 2 of 2 resources, 7 kinds of stdin | success means everything wanted was done and nothing else; no deletion without consent; a payload and a yes do not both come from stdin; all answers are printed under their names |
| `discovery_info` | every file of up to 2 BMCs and 2 nodes, of either format or mixed, with keys missing, shared or of the wrong kind; conversion in every order of BMCs | nothing is sent twice; what is lost is lost for a reason; a well-formed file arrives whole; a converted file means the same, but for the networks of its addresses |
| `discover_static` | 2 nodes (one without a BMC in the file), 1 endpoint, 1 interface, 1 group, any number of runs | exit status 0 means done; a rerun with `--overwrite` repairs; one without succeeds on an empty SMD, but with version 1 meets the interfaces the endpoint has brought; nothing is overwritten without |
| `boot_image` | 2 terminals with 1 command each, 2 entries, 1 change by another client; names may be missing or of no entry | exit status 0 means set; nothing but root= of what was asked for changes, except over another client's change |
| `pcs_transition` | 2 terminals, 3 commands in all, 2 transitions of 1 task, valid and invalid operations | exit status 0 tells the truth, also of `abort`; as long as PCS answers, `monitor` ends when its transition has |

Why the bounds are enough: two processes are the smallest race, and two
commands each, on a file that has the clusters already, are enough to rename and
delete a cluster, and to read and change a torn text, under the other's hands.  Three
clusters tell the one that moves into the hole of a deleted one from the last and the
first.  Two clusters are all that one session can confuse.
Two files are all the program merges.  In discovery the requests of one phase do
not depend on each other, except through the set of components, of which there
are two.  A batch of two requests has one before and one after a failure, which
is what the reports may confuse; stdin has a yes, a no and noise before, after
and without a payload.  Two BMCs and two nodes are what it takes for entries to
share a key, to precede each other or to be missing.  For boot parameters two terminals and
one change of a third client give every order of three writers on one entry, and
the second entry tells the one that was asked for from the other.  Of the two
transitions one may be the one whose answer was lost; three commands start, watch
and abort it.  `RcsConsole`, `ServiceCommand`, `DiscoverStatic` and
`DiscoveryInfo` have no bound but their sets, and none needs one: their state is
finite.  `MaxRuns` bounds `ConfigFile` and, with `MaxOthers`, `BootImage`;
`MaxRuns` and `MaxTasks` bound `PcsTransition`.

Runs that end in a violation show where the program does not do what its
documentation says; each finding in `PROJECT.json` quotes the line.

| run | the program |
|---|---|
| `merge_precedence` | lets the system file win over the user file, and the default over both |
| `service_failures` | exits with 0 after a deletion from SMD of which a request failed: the loop over the errors tests another one |

### Fairness

`RcsConsole` and `PcsTransition` claim liveness.  The fairness of the first is
what Go guarantees: a goroutine that can run does, the one second timer fires, a
write returns.  None is assumed of the user, the peer or signals, and none of a
blocked read.  The second has weak fairness of the steps `monitor` takes by itself:
an answer is used, a sleep ends.  A request need not end, and PCS may stand still for
ever.  That PCS answers every request of a terminal in some way, and from some point
on with a status, is a premise of MonitorsEnd (`PcsAnswers`); what is shown is that
then `monitor` ends once the transition has.

For discovery nothing of the kind is claimed.  The clients of SMD, BSS, PCS and
cloud-init use `http.DefaultClient`, which has no timeout, and the `timeout` option
is not applied to them: a server that accepts and never answers keeps the command
waiting.  (With `--cacert` the wait for the header of an answer is bounded, that for
the rest is not.)

### Divergences noticed without a run

* Two `config` commands at the same time: the later write undoes the earlier.
  Nothing promises otherwise.  If both have truncated the file before either
  writes, the shorter text may get the end of the longer one behind it: a cluster is
  in the file twice, or the file is no YAML any more.
* A full disk, or a process that dies in the middle of its write, leaves a first
  part of the file: clusters are missing, and default-cluster may name one of them.
* `config cluster set` of a name that is not a string (`true`, `1`) panics if there
  is any cluster, and is refused, by StrictMerge, if there is none.
* `enable-auth` defaults to true only in a section that has another key: setting
  the first URI of a cluster turns it on, after the user has turned it off.
* A file that `ochami --config f config set` has made and filled cannot be loaded
  by the next command with `--config f`: any content replaces the default log
  section.
* `--cluster` is ignored in a command when there is a default-cluster, which it is
  documented to override.
* In a discovery file part of an xname has a BMC too (the numbers not read are 0),
  and so has the xname of a BMC.
* The conversion script gives BMCs no names, although its comment speaks of
  deterministic ones; of two BMCs without a MAC address the second vanishes.  Nodes
  of the older format that have only a bmc_ip share one endpoint.
* The conversion script does not rename `network` of an address to `name`, so the
  interfaces of a converted file have no networks.  The example of the older format
  in `man/ochami-discover.1.sc` has `name` already, which is passed over when that
  file is read as it is, and counts after its conversion.
* `discover static --discovery-version 1` without `--overwrite` on an empty SMD that
  adds interfaces with the endpoints ends with exit status 1: its own request for the
  interfaces is answered with 409.
* `discover static --overwrite` patches a group that exists, which may leave its
  members as they were, with exit status 0.
* `pcs transition start` accepts `reinit`; its manual page says `init`, which is
  refused.
* `pcs transition start` prints an empty ID, with exit status 0, for an answer
  without one.
* `bss boot image set -x ""` changes every entry of BSS.
* `pcs transition monitor` ends with status 0 for aborted transitions and failed
  tasks, and has no bar for un-supported ones.  Its long help is that of abort.
* When the answer to `pcs transition start` is lost, power changes and nobody has
  been told the ID of the transition.
* The first cluster added does not become the default unless `-d` is given.
* `config set timeout` fails: StrictMerge refuses the string for the duration.
* With `--cluster b` and default-cluster a, the token of b goes to a; and if b does
  not ask for tokens, a request to a, which does, leaves without one.
* `errors.Is(err, ErrUnknownCluster)` in `cli.go` never matches, for the error
  is wrapped as another type.
* `smd component get` and `smd iface get` ignore `--no-token` and enable-auth.
* A service URI without a host is accepted (`https:///path`).
* After a SIGTERM or SIGINT from outside, the close frame of `main` may meet the
  write of a keystroke.  gorilla/websocket panics on a second writer; in the
  goroutine of the input that ends the process, and the terminal stays raw,
  although `rcs.go` says "Restore the terminal when the console session ends,
  even if there are errors or interrupts."
* Deletions from SMD with `-d` decode the payload and delete nothing: what to
  delete is taken from the arguments, which are ignored next to `-d`.  For `smd
  rfe delete -d` the payload cannot be decoded at all.
* Deletions whose payload comes from stdin (`bss boot params`, `cloud-init
  group`) never delete without `--no-confirm`, and end in success.  The examples
  in the help pipe a payload without it; for `cloud-init group delete` one of
  them has no `-d` either, which PreRunE refuses.
* The flags of `bss boot params` go over the payload, although the code says
  "-d/--data trumps all, ignore values of other flags if specified" and warns
  that it ignores them.
* `smd compep get` drops answers after a failed request, and exits with 0.
* `cloud-init node get group` labels what follows an empty answer with the name
  of another group.
* `--no-confirm=false` skips the question of the metadata service.
* Patches of the metadata service cannot be RFC 6902, a list: the client takes a
  map.
* A malformed system or user file ends the command; an unreadable one is skipped.
* `timeout` of the configuration reaches the boot and metadata clients only.

## What is proved

The proofs hold for every value of the constants that satisfies the assumptions
next to them, and for any number of steps.

**RcsConsoleProofs**: TypeCorrect, ErrChanNeverFull, TerminalAlwaysRestored,
CtrlCIsSafe.  The inductive invariant is `IInv` = types, `ErrorsAccounted` (a
goroutine sends at most one error, when it is done), `DefersMatch` (the control
point determines the deferred calls, they the mode of the terminal),
`OneWriter` (the flag of the websocket is up exactly while one writer is in a
write) and `InterruptFromInput` (until a signal comes from outside an interrupt
means that `input` has stopped).  None of the properties is inductive without
these: that errChan has room now says nothing of who is still to send.

**ConfigFileProofs**: TypeCorrect, NamesStayUnique, DefaultAlwaysResolves, for
any number of processes, with faults.  The work is in lemmas on `Modified`, the
change in memory: it preserves the type, the uniqueness of names and that the
default resolves, the last two for the file, unless it is torn, and for `out[p]` of
every process that has not read a torn file, together, since either is the origin
of the other.  Uniqueness is needed for the default.  Of torn texts only the type is
proved (`MixedType`, `CutType`); more is not true.

Its second part has FileImplementsStore (`ConfigFile` implements `ConfigStore`) and
AuthStaysOn, for one process without faults, as the run has it; with two the
later write undoes the earlier, and neither is true.  The first starts without a
file or with an empty one.  `Alone` says that the process finds the file as it has
left it, and so tears nothing.  `View` is the list of
clusters as a map; `ViewOfUpdate` and `ViewOfRemoval` say what changing a list
does to it, whatever its order, which needs unique names.  `UpToDate` says that
what is about to be written is still the change of what is in the file, so that
the truncation is the step of the store (`CommitStep`) and every other one
stutters.

**StartupProofs**, on what every service command does first.  Of `ConfigMerge`:
LoadTypeCorrect, FirstLoadedAlwaysDecides, ClustersAlwaysMerged and
DefaultAlwaysResolves, for any contents of the files, clusters in any number and
any order, a name repeated within a file included.  The properties speak of the
end only; the invariant `LoadInv` says after each cluster what `ko` holds in terms
of what has been taken so far, of which `Taken` are the positions:
 * `OptionsSoFar` and `SectionsSoFar`: every option and every section is the
   `FirstDecides` of what is taken.  `DecidesNext` is why: merging one more map
   behind the others keeps that.  Sections need unique names in each file, under
   which no cluster is in `ko` twice; `NamesSoFar`, that the clusters of `ko` are
   those taken, needs nothing.
 * `KoSettled`: every section of `ko` is one that decoding leaves as it is.  Reading
   a file makes sections such (`ReadSettles`), and merging keeps them so
   (`MergedSettled`).  Without it `Decode` might bring enable-auth back or drop a
   section, and what held of `ko` would not hold of `GlobalConfig` (`DecodedAsItIs`).
 * default-cluster of the result is that of the first configuration that sets it
   (the least index), which resolves there, and no cluster is lost.

Of `ClusterSession`: TypeCorrect, AuthAlwaysEnforced (of the cluster the request
goes to, default-cluster before `--cluster`, with the one exception that the two
disagree and `--cluster` does not ask for a token), TokenAlwaysMatches,
VersionAlwaysMatches.  The invariant `Resolved` says at each control point what
base, version and token already are in terms of the inputs, which no step
changes.

**DiscoverStaticProofs**: TypeCorrect, NothingEverOverwritten, SuccessIsDone,
RerunAlwaysRepairs, for any number of resources, runs and other clients.  `IInv`
is `DoneAcked` (without errors, what is not to be done has succeeded),
`AckedShows` (undisturbed, what has succeeded shows in SMD; NIDs need the
components), `NothingAhead` (on an SMD that was empty, what is still to come
does not exist, unless an endpoint has brought it), `ErrorsExplained`, and `Met` (if
the endpoints bring interfaces that are requested too, they are there when the
requests come, so that one fails).  `Answered` is what all requests have in
common; one lemma shows that it keeps `IInv`, one per kind of request that it is
such a one.

**ServiceCommandProofs**: TypeCorrect, DeletionsHaveConsent, SuccessIsDone,
OnlyWantedTouched, PipedDeletesAreWaived and AllIsPrinted, for every table of
commands that satisfies four assumptions, which TLC evaluates for the table of the
program: `DeletesAsk` (every deletion asks), `PayloadsAreRead` (a command that takes
a payload reads it before its requests, and an empty list means everything only in
commands without payloads), `PayloadsAreIntact` (the commands that look at the error
of each request make something of a payload, and ask only after reading it) and
`DeletionsRead` (a deletion reads before it asks, or asks in vain).  `ConsentInv`
says where the consent is: in a question still to come, in `agreed`, or on the
command line.  `FoundInv` says that what a command acts upon is what it makes of the
payload, or of nothing where stdin was exhausted, and `IntactInv` that those which
look at each error never meet the second case; the proof of SuccessMeansDone failed
without that.  `WantedInv` bounds what is done and what is still requested by what is
wanted, from above for every command, from below until a request fails.  That
answers keep their names when some are dropped is a lemma on the ascending
enumeration of the answers kept (`Ascending`).

**DiscoveryInfoProofs**: TypeCorrect, NothingIsTwice, ReferencesAlwaysResolve,
LossesAreExplained, WellFormedArrivesWhole and ConversionIsFaithful, for files of any
length.
 * NothingIsTwice needs only to know where each thing built comes from (`OnceInv`).
 * `LossInv` says of the BMCs read so far that each has an endpoint or a key with an
   earlier one, and that the map of BMCs leads from every key to an endpoint with
   that key.  Which one is not determined, for a later BMC may take a key over.
 * `WholeInv` describes what is built from the first `at - 1` entries of a
   well-formed file exactly; `ApartInv` says that its BMCs do not share keys, so that
   the map is a function of the file.
 * `RefInv` says that the nodes passed have components and that whatever names a
   node names one of these.  It is what `DiscoverStatic` assumes of `Brings`: the
   systems behind an endpoint are nodes with components.
 * The conversion relates two readings.  What the script keeps of a BMC or a node is
   determined by the first entry with its xname or MAC address, so `BuiltFrom` and
   `NamesFrom` state what a reading has built in terms of first entries only, for
   either format.  `OldInv` is that for the older format, `NewInv` for the converted
   file, `GroupsInv` for the groups, and `BeforeInv` keeps of the first reading that
   its `meaning` is that of its file.  Two lists of which the entries are the
   same first entries in the same order are equal.  That is an induction over their
   length; it is proved by taking the least position where they differ
   (`LeastExists`).  Networks are apart from that, since the two formats read
   different keys: `Bare` leaves them out, and `NetworksInv` says that they are those
   of the file (`Renamed`).

`Consistent` is the hypothesis of the last theorem, and the proof is why it says more
than that MAC addresses and xnames match: a bmc_mac that spells the xname of another
BMC would, in the map of the new format, take the place of that BMC.

**BootImageProofs**: TypeCorrect, SuccessIsSet, OnlyImagesEverChange, for any
number of terminals, entries and changes of others.  `ReadInv` says of what is
still to be put that it has the parameters others have given the entry, unless
they gave it new ones since (`stale`) or lost them before (`raced`); `PutInv` of
what has been put that it is there, unless there was an error or somebody came
later (`stale`, `over`).

**PcsTransitionProofs**: TypeCorrect and ExitIsTrue, for any number of terminals
and transitions.  An answer that a poll still holds may be old, but what it says
of a transition that is over stays true, since that stays as it is (`AnswerInv`),
and one that is to be aborted can end in no other way;
`TasksInv` bounds the tasks, which are never more than they were.

Every invariant and action property that the passing runs check is stated by one
of these theorems.  Only model-checked is the liveness of the console
(InterruptEndsSession, LostPeerEndsSession) and of `monitor` (MonitorsEnd), which
rests on fairness and so on ENABLED, about which the provers cannot reason.

## What is not modelled, and the plan

In this order:

1. `KeyValPatch`: JSON patches from `--set`, `--unset`, `--add` and `--remove`
   against what they mean (in RFC 6902 an index of `--remove` counts what the ones
   before it have left, and `--unset` of a missing key fails, which it does not in
   a merge patch).
2. Refinement of an atomic "push the file" specification by `DiscoverStatic`.
3. `DiscoverStatic` on what `DiscoveryInfo` has built, in place of constants.  The
   constants name every resource once, which a file need not: two BMCs with one
   xname and different MAC addresses are two endpoints with one ID.

Left out for good: formatting, redaction and logging, completion, manual pages,
packaging, and the generated clients of the boot and metadata services, which
have no state of their own.  `cloud-init group render`, `pcs service status` and
`rcs console show` only read and print.
