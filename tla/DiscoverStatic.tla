---------------------------- MODULE DiscoverStatic ----------------------------
(***************************************************************************)
(* `ochami discover static` against SMD: what a file says about nodes and  *)
(* BMCs is pushed to SMD one request after the other, in phases, going on  *)
(* after errors.  Requests and answers get lost, other clients change SMD  *)
(* meanwhile, and the command may be killed and run again, with or without *)
(* --overwrite.                                                            *)
(*                                                                         *)
(* Of a resource only matters whether it exists and whether it is as the   *)
(* file says, and of a node's component also whether it has the node ID    *)
(* (NID) of the file.                                                      *)
(***************************************************************************)
EXTENDS FiniteSets

CONSTANTS
  Nodes,      \* each with a component
  Endpoints,  \* a Redfish endpoint for every BMC
  Interfaces, \* Ethernet interfaces
  Groups,
  Brings      \* what SMD adds by itself when it is sent an endpoint

Resources == Nodes \cup Endpoints \cup Interfaces \cup Groups
NIDs == "nids"  \* the request that sets the NIDs of all components
None == "none"

ASSUME ResourceAssumption ==
  /\ Nodes \cap Endpoints = {} /\ Nodes \cap Interfaces = {} /\ Nodes \cap Groups = {}
  /\ Endpoints \cap Interfaces = {} /\ Endpoints \cap Groups = {}
  /\ Interfaces \cap Groups = {}
  /\ {NIDs, None} \cap Resources = {}
  /\ Brings \in [Endpoints -> SUBSET (Nodes \cup Interfaces)]

VARIABLES
  present,    \* SMD: the resources that exist,
  described,  \* are as the file says,
  numbered,   \* and the components with the NID of the file
  pc,         \* "idle" between runs, or the phase
  overwrite,  \* --overwrite
  version,    \* --discovery-version
  todo,       \* requests left in the phase
  updating,   \* the resource of which the POST was answered with 409
  errors,     \* whether a request has failed
  status,     \* exit status of the last run
  acked,      \* history of a run: the requests that have succeeded,
  fresh,      \* whether SMD was empty when it began,
  calm,       \* whether every request so far has been answered
  alone       \* and no other client has changed SMD

smd == <<present, described, numbered>>
run == <<overwrite, version, fresh>>
vars == <<smd, pc, run, todo, updating, errors, status, acked, calm, alone>>

-----------------------------------------------------------------------------
(* The service: what the code relies on *)

Unchanged == UNCHANGED smd

\* The resources of S are made as the file says.
Store(S) == present' = present \cup S /\ described' = described \cup S

(***************************************************************************)
(* A Redfish endpoint that is added brings with it the components of its   *)
(* systems, with NIDs that SMD makes up, and the Ethernet interfaces of    *)
(* its systems and managers, unless SMD is of an earlier version.          *)
(***************************************************************************)
Create(r) ==
  /\ present' = present \cup {r} \cup (IF r \in Endpoints THEN Brings[r] ELSE {})
  /\ described' = described \cup {r}
  /\ UNCHANGED numbered

(***************************************************************************)
(* PUT of an endpoint and PATCH of an interface store what they are sent.  *)
(* PATCH of a group stores its description and tags, maybe not its members.*)
(***************************************************************************)
Change(r) ==
  \/ Store({r}) /\ UNCHANGED numbered
  \/ r \in Groups /\ Unchanged

(***************************************************************************)
(* Another client adds, changes or deletes a resource.                     *)
(***************************************************************************)
OtherClient ==
  /\ \E r \in Resources :
       /\ present' \in {present \cup {r}, present \ {r}}
       /\ described' = described \ {r}
       /\ numbered' = numbered \ {r}
  /\ alone' = FALSE
  /\ UNCHANGED <<pc, run, todo, updating, errors, status, acked, calm>>

-----------------------------------------------------------------------------
(* The command *)

Phases == {"components", "nids", "endpoints", "interfaces", "groups"}

Requests(phase) ==
  CASE phase = "components" -> Nodes
    [] phase = "nids"       -> {NIDs}
    [] phase = "endpoints"  -> Endpoints
    [] phase = "interfaces" -> Interfaces
    [] phase = "groups"     -> Groups

PhaseAfter_Fault ==  \* seeded fault: interfaces whatever the version
  CASE pc = "components" -> IF overwrite THEN "nids" ELSE "endpoints"
    [] pc = "nids"       -> "endpoints"
    [] pc = "endpoints"  -> "interfaces"
    [] pc = "interfaces" -> "groups"

(***************************************************************************)
(* Components go first, or those that SMD makes for the endpoints would    *)
(* keep the NIDs SMD has given them.                                       *)
(***************************************************************************)
PhaseAfter ==
  CASE pc = "components" -> IF overwrite THEN "nids" ELSE "endpoints"
    [] pc = "nids"       -> "endpoints"
    [] pc = "endpoints"  -> IF version = 1 THEN "interfaces" ELSE "groups"
    [] pc = "interfaces" -> "groups"

Begin(phase) == pc' = phase /\ todo' = Requests(phase)

(***************************************************************************)
(* SMD is empty; other clients may fill it before the first run.           *)
(***************************************************************************)
Init ==
  /\ present = {} /\ described = {} /\ numbered = {}
  /\ pc = "idle" /\ todo = {} /\ updating = None
  /\ overwrite = FALSE /\ version = 2 /\ fresh = TRUE
  /\ errors = FALSE /\ status = "none" /\ acked = {} /\ calm = TRUE /\ alone = TRUE

Start ==
  /\ pc = "idle"
  /\ Begin("components")
  /\ overwrite' \in BOOLEAN
  /\ version' \in {1, 2}
  /\ fresh' = (present = {})
  /\ errors' = FALSE /\ status' = "none" /\ acked' = {} /\ calm' = TRUE /\ alone' = TRUE
  /\ UNCHANGED <<smd, updating>>

(***************************************************************************)
(* How the requests of a set end.  After an error the command goes on.     *)
(***************************************************************************)
Ended(R) == todo' = todo \ R /\ updating' = None /\ UNCHANGED <<pc, run, status, alone>>

Succeeded(R) == Ended(R) /\ acked' = acked \cup R /\ UNCHANGED <<errors, calm>>
Refused(R) == Ended(R) /\ errors' = TRUE /\ UNCHANGED <<acked, calm>>
Unanswered(R) == Ended(R) /\ errors' = TRUE /\ calm' = FALSE /\ UNCHANGED acked

(***************************************************************************)
(* With --overwrite every component is PUT, which leaves the NID alone.    *)
(***************************************************************************)
PutComponent ==
  /\ pc = "components" /\ overwrite
  /\ \E n \in todo :
       \/ Store({n}) /\ UNCHANGED numbered /\ Succeeded({n})
       \/ Store({n}) /\ UNCHANGED numbered /\ Unanswered({n})
       \/ Unchanged /\ Unanswered({n})

PatchComponentsNID_Fault ==  \* seeded fault
  /\ pc = "nids" /\ NIDs \in todo
  /\ Unchanged /\ Succeeded({NIDs})

(***************************************************************************)
(* One request for all NIDs.  If there is a component missing SMD may      *)
(* refuse it or number the others.                                         *)
(***************************************************************************)
PatchComponentsNID ==
  LET Number == numbered' = numbered \cup (Nodes \cap present) /\ UNCHANGED <<present, described>>
  IN  /\ pc = "nids" /\ NIDs \in todo
      /\ \/ Number /\ Succeeded({NIDs})
         \/ ~(Nodes \subseteq present) /\ Unchanged /\ Refused({NIDs})
         \/ (Number \/ Unchanged) /\ Unanswered({NIDs})

(***************************************************************************)
(* Without --overwrite one POST adds all components, or fails if one is    *)
(* there.                                                                  *)
(***************************************************************************)
PostComponents ==
  LET Add == present \cap Nodes = {} /\ Store(Nodes) /\ numbered' = numbered \cup Nodes
  IN  /\ pc = "components" /\ ~overwrite /\ todo # {}
      /\ \/ Add /\ Succeeded(Nodes)
         \/ present \cap Nodes # {} /\ Unchanged /\ Refused(Nodes)
         \/ (Add \/ Unchanged) /\ Unanswered(Nodes)

Conflict(r) ==
  /\ Unchanged
  /\ updating' = r
  /\ UNCHANGED <<pc, run, todo, errors, status, acked, calm, alone>>

Post_Fault ==  \* seeded fault
  /\ pc \in {"endpoints", "interfaces", "groups"} /\ updating = None
  /\ \E r \in todo :
       \/ r \notin present /\ Create(r) /\ Succeeded({r})
       \/ r \in present /\ Conflict(r)
       \/ r \notin present /\ Create(r) /\ Unanswered({r})
       \/ Unchanged /\ Unanswered({r})

Post_Fault2 ==  \* seeded fault
  /\ pc \in {"endpoints", "interfaces", "groups"} /\ updating = None
  /\ \E r \in todo :
       \/ r \notin present /\ Create(r) /\ Succeeded({r})
       \/ r \in present /\ Unchanged /\ Refused({r})
       \/ r \notin present /\ Create(r) /\ Unanswered({r})
       \/ Unchanged /\ Unanswered({r})

(***************************************************************************)
(* PostRedfishEndpointsV2, PostEthernetInterfaces and PostGroups.          *)
(***************************************************************************)
Post ==
  /\ pc \in {"endpoints", "interfaces", "groups"} /\ updating = None
  /\ \E r \in todo :
       \/ r \notin present /\ Create(r) /\ Succeeded({r})
       \/ r \in present /\ overwrite /\ Conflict(r)
       \/ r \in present /\ ~overwrite /\ Unchanged /\ Refused({r})
       \/ r \notin present /\ Create(r) /\ Unanswered({r})
       \/ Unchanged /\ Unanswered({r})

Update_Fault ==  \* seeded fault
  /\ updating # None
  /\ \/ updating \in present /\ Change(updating) /\ Succeeded({updating})
     \/ updating \notin present /\ Unchanged /\ Ended({updating}) /\ UNCHANGED <<errors, acked, calm>>
     \/ updating \in present /\ Change(updating) /\ Unanswered({updating})
     \/ Unchanged /\ Unanswered({updating})

(***************************************************************************)
(* PUT of an endpoint, PATCH of an interface or a group, which must exist. *)
(***************************************************************************)
Update ==
  /\ updating # None
  /\ \/ updating \in present /\ Change(updating) /\ Succeeded({updating})
     \/ updating \notin present /\ Unchanged /\ Refused({updating})
     \/ updating \in present /\ Change(updating) /\ Unanswered({updating})
     \/ Unchanged /\ Unanswered({updating})

NextPhase ==
  /\ pc \in Phases \ {"groups"} /\ todo = {}
  /\ Begin(PhaseAfter)
  /\ UNCHANGED <<smd, run, updating, errors, status, acked, calm, alone>>

Finish ==
  /\ pc = "groups" /\ todo = {}
  /\ pc' = "idle"
  /\ status' = IF errors THEN "1" ELSE "0"
  /\ UNCHANGED <<smd, run, todo, updating, errors, acked, calm, alone>>

(***************************************************************************)
(* The command is killed.  A request under way counts as unanswered before *)
(* it is; one that reaches SMD later is like one of another client.        *)
(***************************************************************************)
Killed ==
  /\ pc # "idle"
  /\ pc' = "idle" /\ status' = "killed" /\ todo' = {} /\ updating' = None
  /\ UNCHANGED <<smd, run, errors, acked, calm, alone>>

Step ==
  \/ PutComponent \/ PatchComponentsNID \/ PostComponents \/ Post \/ Update
  \/ NextPhase \/ Finish

Next == Start \/ Step \/ Killed \/ OtherClient

Spec == Init /\ [][Next]_vars

-----------------------------------------------------------------------------
(* Properties *)

Required ==
  Nodes \cup Endpoints \cup Groups
    \cup (IF overwrite THEN {NIDs} ELSE {})
    \cup (IF version = 1 THEN Interfaces ELSE {})

\* What a run leaves as the file says when it succeeds: not the members of
\* groups, which exist already and are patched.
Settled == Required \ ({NIDs} \cup (IF overwrite THEN Groups ELSE {}))

\* The interfaces of the file that SMD adds by itself.
Brought == Interfaces \cap UNION {Brings[e] : e \in Endpoints}

(***************************************************************************)
(* The variables keep their types; nothing is updated without --overwrite. *)
(***************************************************************************)
TypeOK ==
  /\ present \subseteq Resources /\ described \subseteq present
  /\ numbered \subseteq present \cap Nodes
  /\ pc \in Phases \cup {"idle"}
  /\ overwrite \in BOOLEAN /\ version \in {1, 2}
  /\ todo \subseteq IF pc = "idle" THEN {} ELSE Requests(pc)
  /\ updating \in todo \cup {None} /\ (updating # None => overwrite)
  /\ errors \in BOOLEAN /\ status \in {"none", "0", "1", "killed"}
  /\ acked \subseteq Required
  /\ {fresh, calm, alone} \subseteq BOOLEAN

(***************************************************************************)
(* Exit status 0 means that every request has succeeded, although errors   *)
(* do not stop the command, that all that was to be made exists, and that  *)
(* SMD is as the file says, components with the NIDs of the file, unless   *)
(* another client has changed it since.  Only of a group that was patched  *)
(* the members may be others.                                              *)
(***************************************************************************)
SuccessMeansDone ==
  status = "0" =>
    /\ acked = Required
    /\ alone => /\ Required \ {NIDs} \subseteq present
                /\ Settled \subseteq described /\ Nodes \subseteq numbered

(***************************************************************************)
(* Whatever earlier runs have left half done or other clients have         *)
(* changed, one undisturbed run with --overwrite succeeds.  One without    *)
(* succeeds on an empty SMD, except that with --discovery-version 1 the    *)
(* request for the interfaces of its own meets those the endpoints have    *)
(* brought, is answered with 409, and makes the exit status 1.             *)
(***************************************************************************)
RerunRepairs ==
  status \in {"0", "1"} /\ calm /\ alone =>
    /\ overwrite => status = "0"
    /\ ~overwrite /\ fresh => (status = "0" <=> version = 2 \/ Brought = {})

(***************************************************************************)
(* Without --overwrite a run changes nothing that exists, whichever phase  *)
(* it is in: only another client does.                                     *)
(***************************************************************************)
NothingOverwritten ==
  [][Step /\ ~overwrite => \A r \in present :
       /\ r \in present'
       /\ r \in described' <=> r \in described
       /\ r \in numbered' <=> r \in numbered]_vars
=============================================================================
