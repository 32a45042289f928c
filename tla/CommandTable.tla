----------------------------- MODULE CommandTable -----------------------------
(***************************************************************************)
(* The commands of ochami that send requests to SMD, BSS, cloud-init, PCS, *)
(* the remote console service, the boot service and the metadata service,  *)
(* each as a record of what its newCmd function makes of the command line  *)
(* and of the answers (BootImage, PcsTransition and RcsConsole have the    *)
(* commands that do something else).                                       *)
(* ServiceCommand says what a command does with its record.  Commands that *)
(* do the same thing to different resources have equal records.            *)
(***************************************************************************)
EXTENDS Sequences

Verbs == {"get", "write", "delete"}
Steps == {"ask", "connect", "read"}
Counts == {"none", "one", "optional", "some", "any"}

CommandType == [
  verb    : Verbs,
  order   : Seq(Steps),    \* what comes before the first request
  confirm : {"never", "value", "changed"},  \* how --no-confirm is looked at
  args    : Counts,        \* how many resources the command line names
  with    : Counts,        \* ... and how many next to --data or --all
  flags   : SUBSET {"data", "all", "stdin"},
  targets : {"args", "data", "neither", "undecodable", "args over data"},
  batch   : {"each", "whole"},   \* one request per resource, or one for all
  empty   : {"nothing", "everything", "refused"},  \* what an empty list means
  report  : {"errs", "outer"},   \* the error that decides the exit status
  prints  : {"nothing", "body", "in order", "nonempty", "unshifted"}]

-----------------------------------------------------------------------------
(* The common shapes. *)

(***************************************************************************)
(* One GET and its body; flags that filter count as arguments.             *)
(***************************************************************************)
Fetch ==
  [verb |-> "get", order |-> <<"connect">>, confirm |-> "never",
   args |-> "any", with |-> "any", flags |-> {}, targets |-> "args",
   batch |-> "whole", empty |-> "everything", report |-> "errs", prints |-> "body"]

FetchAll == [Fetch EXCEPT !.args = "none"]
FetchOne == [Fetch EXCEPT !.args = "one"]

(***************************************************************************)
(* A GET per argument, printed in the order of the arguments.              *)
(***************************************************************************)
FetchEach ==
  [Fetch EXCEPT !.args = "some", !.batch = "each", !.empty = "refused", !.prints = "in order"]

(***************************************************************************)
(* Resources from the command line or, with --data, from a payload.        *)
(***************************************************************************)
Write ==
  [verb |-> "write", order |-> <<"connect", "read">>, confirm |-> "never",
   args |-> "one", with |-> "any", flags |-> {"data"}, targets |-> "data",
   batch |-> "each", empty |-> "nothing", report |-> "errs", prints |-> "nothing"]

(***************************************************************************)
(* A payload from --data or else from stdin: of many resources, or of the  *)
(* contents of the one the argument names.  What --set, --unset, --add and *)
(* --remove say of a patch counts as a payload on the command line.        *)
(***************************************************************************)
WritePayload ==
  [Write EXCEPT !.args = "none", !.with = "none", !.flags = {"data", "stdin"}]
WriteOne ==
  [WritePayload EXCEPT !.args = "one", !.with = "one", !.targets = "args", !.batch = "whole"]

(***************************************************************************)
(* Deletion after a question.                                              *)
(***************************************************************************)
Delete ==
  [Write EXCEPT !.verb = "delete", !.order = <<"ask", "connect">>, !.confirm = "value",
                !.args = "some", !.flags = {}, !.targets = "args"]

-----------------------------------------------------------------------------
(* SMD.  The payload of a deletion is decoded, but the xnames to delete    *)
(* are taken from the arguments alone, and the loop over the errors tests  *)
(* the error of the whole call.                                            *)

SmdDelete ==
  [Delete EXCEPT !.order = <<"ask", "connect", "read">>, !.with = "any",
                 !.flags = {"data", "all"}, !.targets = "neither", !.report = "outer"]
SmdComponentDelete == SmdDelete
SmdCompepDelete == SmdDelete
SmdIfaceDelete == SmdDelete
\* the payload is decoded into a slice that is passed by value
SmdRfeDelete == [SmdDelete EXCEPT !.targets = "undecodable"]
SmdGroupDelete == [SmdDelete EXCEPT !.flags = {"data"}]
SmdMemberDelete == [Delete EXCEPT !.report = "outer"]

SmdComponentAdd == [Write EXCEPT !.batch = "whole"]
SmdIfaceAdd == Write
SmdRfeAdd == [Write EXCEPT !.with = "optional"]
SmdGroupAdd == [Write EXCEPT !.with = "optional"]
SmdGroupUpdate == [Write EXCEPT !.with = "optional"]
SmdMemberAdd == [Write EXCEPT !.order = <<"connect">>, !.args = "some",
                              !.flags = {}, !.targets = "args"]
SmdMemberSet == [SmdMemberAdd EXCEPT !.batch = "whole"]

SmdComponentGet == [Fetch EXCEPT !.args = "optional"]
SmdRfeGet == Fetch
SmdIfaceGet == Fetch
SmdGroupGet == Fetch
SmdGroupMembership == Fetch
SmdMemberGet == FetchOne
SmdServiceStatus == FetchAll
SmdStatus == FetchAll

(***************************************************************************)
(* The n-th answer that came is tested against the n-th error there was    *)
(* room for, so an answer after a failure may be dropped.                  *)
(***************************************************************************)
SmdCompepGet ==
  [Fetch EXCEPT !.batch = "each", !.report = "outer", !.prints = "unshifted"]

-----------------------------------------------------------------------------
(* BSS.  Flags that name hosts and parameters count as arguments; they are *)
(* put over what the payload says.                                         *)

BssParamsWrite == [Write EXCEPT !.args = "some", !.batch = "whole", !.targets = "args over data"]
BssParamsAdd == BssParamsWrite
BssParamsSet == BssParamsWrite
BssParamsUpdate == BssParamsWrite
BssParamsDelete ==
  [BssParamsWrite EXCEPT !.verb = "delete", !.order = <<"read", "ask", "connect">>,
                         !.confirm = "value"]
BssParamsGet == Fetch
BssHostsGet == Fetch
BssScriptGet == [Fetch EXCEPT !.args = "some"]
BssHistory == Fetch
BssDumpstate == FetchAll
BssServiceStatus == FetchAll
BssServiceVersion == FetchAll
BssStatus == FetchAll

-----------------------------------------------------------------------------
(* cloud-init *)

CloudInitGroupAdd == WritePayload
CloudInitGroupSet == WritePayload
CloudInitNodeSet == [WritePayload EXCEPT !.empty = "refused"]
CloudInitDefaultsSet == [WritePayload EXCEPT !.batch = "whole"]
CloudInitGroupDelete ==
  [Delete EXCEPT !.order = <<"read", "ask", "connect">>, !.with = "none",
                 !.flags = {"data"}, !.targets = "data"]

CloudInitDefaultsGet == FetchAll
CloudInitGetGroupData ==
  [Fetch EXCEPT !.batch = "each", !.prints = "in order"]
CloudInitGroupGetConfig == CloudInitGetGroupData
CloudInitGroupGetMetadata == CloudInitGetGroupData
CloudInitGroupGetRaw == CloudInitGetGroupData
CloudInitNodeGetMetadata == FetchEach
CloudInitNodeGetUserdata == FetchEach
CloudInitNodeGetVendordata == FetchEach
\* empty answers are dropped before the rest is labelled by position
CloudInitNodeGetGroup == [FetchEach EXCEPT !.prints = "nonempty"]
CloudInitServiceVersion == FetchAll
CloudInitServiceStatus == FetchAll

-----------------------------------------------------------------------------
(* PCS and the remote console service: what only reads *)

PcsTransitionList == FetchAll
PcsTransitionShow == FetchOne
PcsStatusList == Fetch
\* an answer without the component counts as a failure
PcsStatusShow == FetchOne

RcsConsoleList == FetchAll
RcsServiceStatus == FetchAll

-----------------------------------------------------------------------------
(* The boot service *)

BootBmcAdd == WritePayload
BootConfigAdd == WritePayload
BootNodeAdd == WritePayload
BootBmcSet == WriteOne
BootConfigSet == WriteOne
BootNodeSet == WriteOne
BootBmcPatch == WriteOne
BootConfigPatch == WriteOne
BootNodePatch == WriteOne
BootBmcDelete == Delete
BootConfigDelete == Delete
BootNodeDelete == Delete
BootBmcGet == FetchOne
BootConfigGet == FetchOne
BootNodeGet == FetchOne
BootBmcList == FetchAll
BootConfigList == FetchAll
BootNodeList == FetchAll
BootServiceStatus == FetchAll

-----------------------------------------------------------------------------
(* The metadata service: --no-confirm counts whatever its value. *)

MetadataDelete == [Delete EXCEPT !.order = <<"connect", "ask">>, !.confirm = "changed"]
MetadataDefaultsDelete == MetadataDelete
MetadataGroupDelete == MetadataDelete
MetadataInstanceDelete == MetadataDelete
MetadataPeerDelete == MetadataDelete
MetadataDefaultsAdd == WritePayload
MetadataGroupAdd == WritePayload
MetadataInstanceAdd == WritePayload
MetadataPeerAdd == WritePayload
MetadataDefaultsSet == WriteOne
MetadataGroupSet == WriteOne
MetadataInstanceSet == WriteOne
MetadataPeerSet == WriteOne
MetadataDefaultsPatch == WriteOne
MetadataGroupPatch == WriteOne
MetadataInstancePatch == WriteOne
MetadataPeerPatch == WriteOne
MetadataDefaultsGet == FetchOne
MetadataGroupGet == FetchOne
MetadataInstanceGet == FetchOne
MetadataPeerGet == FetchOne
MetadataDefaultsList == FetchAll
MetadataGroupList == FetchAll
MetadataInstanceList == FetchAll
MetadataPeerList == FetchAll
MetadataServiceStatus == FetchAll

-----------------------------------------------------------------------------
SmdCommands ==
  {SmdComponentDelete, SmdCompepDelete, SmdIfaceDelete, SmdRfeDelete, SmdGroupDelete,
   SmdMemberDelete, SmdComponentAdd, SmdRfeAdd, SmdIfaceAdd, SmdGroupAdd,
   SmdGroupUpdate, SmdMemberAdd, SmdMemberSet, SmdComponentGet, SmdRfeGet,
   SmdIfaceGet, SmdGroupGet, SmdGroupMembership, SmdMemberGet, SmdServiceStatus,
   SmdStatus, SmdCompepGet}

BssCommands ==
  {BssParamsAdd, BssParamsSet, BssParamsUpdate, BssParamsDelete, BssParamsGet,
   BssHostsGet, BssScriptGet, BssHistory, BssDumpstate, BssServiceStatus,
   BssServiceVersion, BssStatus}

CloudInitCommands ==
  {CloudInitGroupAdd, CloudInitGroupSet, CloudInitNodeSet, CloudInitDefaultsSet,
   CloudInitGroupDelete, CloudInitDefaultsGet, CloudInitGroupGetConfig,
   CloudInitGroupGetMetadata, CloudInitGroupGetRaw, CloudInitNodeGetMetadata,
   CloudInitNodeGetUserdata, CloudInitNodeGetVendordata, CloudInitNodeGetGroup,
   CloudInitServiceVersion, CloudInitServiceStatus}

PcsCommands == {PcsTransitionList, PcsTransitionShow, PcsStatusList, PcsStatusShow}

RcsCommands == {RcsConsoleList, RcsServiceStatus}

BootCommands ==
  {BootBmcAdd, BootConfigAdd, BootNodeAdd, BootBmcSet, BootConfigSet, BootNodeSet,
   BootBmcPatch, BootConfigPatch, BootNodePatch, BootBmcDelete, BootConfigDelete,
   BootNodeDelete, BootBmcGet, BootConfigGet, BootNodeGet, BootBmcList,
   BootConfigList, BootNodeList, BootServiceStatus}

MetadataCommands ==
  {MetadataDefaultsDelete, MetadataGroupDelete, MetadataInstanceDelete,
   MetadataPeerDelete, MetadataDefaultsAdd, MetadataGroupAdd, MetadataInstanceAdd,
   MetadataPeerAdd, MetadataDefaultsSet, MetadataGroupSet, MetadataInstanceSet,
   MetadataPeerSet, MetadataDefaultsPatch, MetadataGroupPatch, MetadataInstancePatch,
   MetadataPeerPatch, MetadataDefaultsGet, MetadataGroupGet, MetadataInstanceGet,
   MetadataPeerGet, MetadataDefaultsList, MetadataGroupList, MetadataInstanceList,
   MetadataPeerList, MetadataServiceStatus}

AllCommands ==
  SmdCommands \cup BssCommands \cup CloudInitCommands \cup PcsCommands
    \cup RcsCommands \cup BootCommands \cup MetadataCommands

=============================================================================
