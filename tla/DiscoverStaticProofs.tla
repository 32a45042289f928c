------------------------ MODULE DiscoverStaticProofs ------------------------
(***************************************************************************)
(* Proofs about DiscoverStatic, for every set of nodes, endpoints,         *)
(* interfaces and groups, and any number of runs and other clients.        *)
(***************************************************************************)
EXTENDS DiscoverStatic, TLAPS

-----------------------------------------------------------------------------
(* The inductive invariant *)

\* The phases a run passes through, and components all at once or one by one.
PhasesTaken ==
  /\ pc = "nids" => overwrite
  /\ pc = "interfaces" => version = 1
  /\ pc = "components" /\ ~overwrite => todo \in {{}, Nodes}
  /\ updating # None => pc \in {"endpoints", "interfaces", "groups"}

\* The requests of the phases before this one, and of those after it.
Earlier ==
  CASE pc = "components" -> {}
    [] pc = "nids"       -> Nodes
    [] pc = "endpoints"  -> Nodes \cup (IF overwrite THEN {NIDs} ELSE {})
    [] pc = "interfaces" -> Nodes \cup (IF overwrite THEN {NIDs} ELSE {}) \cup Endpoints
    [] pc = "groups"     -> Required \ Groups

Later ==
  CASE pc = "components" -> Endpoints \cup Interfaces \cup Groups
    [] pc = "nids"       -> Endpoints \cup Interfaces \cup Groups
    [] pc = "endpoints"  -> Interfaces \cup Groups
    [] pc = "interfaces" -> Groups
    [] pc = "groups"     -> {}

(***************************************************************************)
(* Without errors, what is not to be done has succeeded.                   *)
(***************************************************************************)
DoneAcked ==
  /\ pc # "idle" => status = "none"
  /\ pc # "idle" /\ ~errors => Earlier \cup (Requests(pc) \ todo) \subseteq acked
  /\ status = "0" => acked = Required /\ ~errors
  /\ status = "1" => errors

(***************************************************************************)
(* What has succeeded shows in SMD, but for the members of patched groups. *)
(* NIDs also need the components.                                          *)
(***************************************************************************)
Patched == {NIDs} \cup (IF overwrite THEN Groups ELSE {})

AckedShows ==
  alone =>
    /\ acked \ {NIDs} \subseteq present /\ acked \ Patched \subseteq described
    /\ ~errors /\ (IF overwrite THEN NIDs \in acked ELSE Nodes \subseteq acked)
         => Nodes \subseteq numbered

(***************************************************************************)
(* Requests that are still to come find nothing on an SMD that was empty   *)
(* but what the endpoints have brought, and what is to be updated exists.  *)
(***************************************************************************)
NothingAhead ==
  /\ pc # "idle" /\ fresh /\ alone /\ ~overwrite => present \cap (todo \cup Later) \subseteq Brought
  /\ updating # None /\ alone => updating \in present

\* Whether the requests for interfaces meet those the endpoints have brought.
Meets == version = 1 /\ Brought # {}

ErrorsExplained == errors /\ calm /\ alone => ~overwrite /\ (~fresh \/ Meets)

(***************************************************************************)
(* If they do, without an error yet, the interfaces are there and still to *)
(* be requested.                                                           *)
(***************************************************************************)
Met ==
  fresh /\ calm /\ alone /\ ~overwrite /\ version = 1 /\ ~errors =>
    /\ pc = "endpoints"  => \A e \in Endpoints \ todo : Brings[e] \subseteq present
    /\ pc = "interfaces" => Brought \subseteq present \cap todo
    /\ pc = "groups" \/ status = "0" => Brought = {}

IInv == DoneAcked /\ AckedShows /\ NothingAhead /\ ErrorsExplained /\ Met

-----------------------------------------------------------------------------
(* Types *)

(***************************************************************************)
(* What a request is about.                                                *)
(***************************************************************************)
LEMMA RequestsOf ==
  /\ Requests("components") = Nodes
  /\ Requests("nids") = {NIDs}
  /\ Requests("endpoints") = Endpoints
  /\ Requests("interfaces") = Interfaces
  /\ Requests("groups") = Groups
BY DEF Requests

(***************************************************************************)
(* Endpoints, interfaces and groups are neither components nor None.       *)
(***************************************************************************)
LEMMA PostedAre ==
  ASSUME TypeOK, NEW r \in todo, pc \in {"endpoints", "interfaces", "groups"}
  PROVE  r \in Resources /\ r \notin Nodes /\ r # NIDs /\ r # None
BY RequestsOf, ResourceAssumption DEF TypeOK, Resources

\* What the types are proved with.
Typed == TypeOK /\ PhasesTaken

(***************************************************************************)
(* What is to be done in a phase is required.                              *)
(***************************************************************************)
LEMMA RequestsRequired ==
  ASSUME Typed, pc # "idle" PROVE todo \subseteq Required
BY RequestsOf DEF Typed, TypeOK, PhasesTaken, Required, Phases

(***************************************************************************)
(* The types of the state of SMD.                                          *)
(***************************************************************************)
SmdOK ==
  /\ present \subseteq Resources /\ described \subseteq present
  /\ numbered \subseteq present \cap Nodes

(***************************************************************************)
(* However the requests of a set end, the types are kept if those of SMD   *)
(* are.                                                                    *)
(***************************************************************************)
LEMMA EndTyped ==
  ASSUME Typed, SmdOK', NEW R, R \subseteq todo, pc # "idle",
         pc = "components" => overwrite \/ R = todo,
         Succeeded(R) \/ Refused(R) \/ Unanswered(R)
  PROVE  Typed'
<1>1. acked' \subseteq Required'
  BY RequestsRequired DEF Typed, TypeOK, Succeeded, Refused, Unanswered, Ended, run, Required
<1>2. errors' \in BOOLEAN /\ calm' \in BOOLEAN
  BY DEF Typed, TypeOK, Succeeded, Refused, Unanswered
<1>3. Ended(R)
  BY DEF Succeeded, Refused, Unanswered
<1> QED BY <1>1, <1>2, <1>3 DEF Typed, TypeOK, PhasesTaken, Ended, run, SmdOK

(***************************************************************************)
(* How SMD answers.                                                        *)
(***************************************************************************)
LEMMA StoreTyped ==
  ASSUME SmdOK, NEW S \in SUBSET Resources, Store(S),
         numbered' \subseteq numbered \cup (S \cap Nodes)
  PROVE  SmdOK'
BY DEF SmdOK, Store

(***************************************************************************)
(* An endpoint brings nothing but components and interfaces with it.       *)
(***************************************************************************)
LEMMA CreateTyped ==
  ASSUME SmdOK, NEW r \in Resources, Create(r)
  PROVE  SmdOK'
<1>1. r \in Endpoints => Brings[r] \subseteq Nodes \cup Interfaces
  BY ResourceAssumption
<1> QED BY <1>1 DEF SmdOK, Create, Resources

(***************************************************************************)
(* It brings nothing that is not brought by some endpoint.                 *)
(***************************************************************************)
LEMMA BringsBrought ==
  ASSUME NEW r \in Endpoints
  PROVE  Brings[r] \subseteq Nodes \cup Brought /\ Brings[r] \cap Interfaces \subseteq Brought
BY ResourceAssumption DEF Brought

(***************************************************************************)
(* A change of a resource keeps the types.                                 *)
(***************************************************************************)
LEMMA ChangeTyped ==
  ASSUME SmdOK, NEW r \in Resources, Change(r) PROVE SmdOK'
BY DEF SmdOK, Change, Store, Unchanged, smd

(***************************************************************************)
(* A request without an effect keeps the types.                            *)
(***************************************************************************)
LEMMA UnchangedTyped == ASSUME SmdOK, Unchanged PROVE SmdOK'
BY DEF SmdOK, Unchanged, smd

(***************************************************************************)
(* The types hold at first.                                                *)
(***************************************************************************)
LEMMA TypeInit == Init => Typed
BY DEF Init, Typed, TypeOK, PhasesTaken, Required

(***************************************************************************)
(* Every step keeps the types.                                             *)
(***************************************************************************)
LEMMA TypeStep == Typed /\ [Next]_vars => Typed'
<1> SUFFICES ASSUME Typed, [Next]_vars PROVE Typed' OBVIOUS
<1>0. SmdOK
  BY DEF Typed, TypeOK, SmdOK
<1>1. CASE Start
  BY <1>1, RequestsOf DEF Start, Begin, Typed, TypeOK, PhasesTaken, Phases, smd, Required
<1>2. CASE PutComponent
  <2>1. PICK n \in todo :
          \/ Store({n}) /\ UNCHANGED numbered /\ (Succeeded({n}) \/ Unanswered({n}))
          \/ Unchanged /\ Unanswered({n})
    BY <1>2 DEF PutComponent
  <2>2. pc = "components" /\ overwrite /\ n \in Resources
    BY <1>2, RequestsOf DEF PutComponent, Typed, TypeOK, Resources
  <2>3. SmdOK'
    BY <1>0, <2>1, <2>2, StoreTyped, UnchangedTyped
  <2> QED BY <2>1, <2>2, <2>3, EndTyped
<1>3. CASE PatchComponentsNID
  <2>1. SmdOK' /\ pc = "nids" /\ NIDs \in todo /\ overwrite
    BY <1>0, <1>3, UnchangedTyped DEF PatchComponentsNID, SmdOK, Typed, PhasesTaken
  <2>2. Succeeded({NIDs}) \/ Refused({NIDs}) \/ Unanswered({NIDs})
    BY <1>3 DEF PatchComponentsNID
  <2> QED BY <2>1, <2>2, EndTyped
<1>4. CASE PostComponents
  <2>1. SmdOK' /\ pc = "components"
    BY <1>0, <1>4, UnchangedTyped, StoreTyped DEF PostComponents, Resources
  <2>2. Nodes = todo
    BY <1>4 DEF PostComponents, Typed, PhasesTaken
  <2>3. Succeeded(Nodes) \/ Refused(Nodes) \/ Unanswered(Nodes)
    BY <1>4 DEF PostComponents
  <2> QED BY <2>1, <2>2, <2>3, EndTyped
<1>5. CASE Post
  <2>1. PICK r \in todo :
          \/ Create(r) /\ (Succeeded({r}) \/ Unanswered({r}))
          \/ Unchanged /\ (Refused({r}) \/ Unanswered({r}))
          \/ overwrite /\ Conflict(r)
    BY <1>5 DEF Post
  <2>2. r \in Resources /\ pc # "idle" /\ pc \in {"endpoints", "interfaces", "groups"}
    BY <1>5, PostedAre DEF Post, Typed
  <2>3. CASE overwrite /\ Conflict(r)
    BY <2>2, <2>3 DEF Conflict, Unchanged, smd, run, Typed, TypeOK, PhasesTaken, Required
  <2>4. CASE Create(r) /\ (Succeeded({r}) \/ Unanswered({r}))
    BY <1>0, <2>2, <2>4, CreateTyped, EndTyped
  <2>5. CASE Unchanged /\ (Refused({r}) \/ Unanswered({r}))
    BY <1>0, <2>2, <2>5, UnchangedTyped, EndTyped
  <2> QED BY <2>1, <2>3, <2>4, <2>5
<1>6. CASE Update
  <2>1. updating \in todo /\ pc # "idle" /\ updating # None /\ overwrite
    BY <1>6 DEF Update, Typed, TypeOK
  <2>2. SmdOK'
    <3>1. updating \in Resources
      BY <2>1, PostedAre DEF Typed, PhasesTaken
    <3>2. Change(updating) \/ Unchanged
      BY <1>6 DEF Update
    <3> QED BY <1>0, <3>1, <3>2, UnchangedTyped, ChangeTyped
  <2>3. Succeeded({updating}) \/ Refused({updating}) \/ Unanswered({updating})
    BY <1>6 DEF Update
  <2> QED BY <2>1, <2>2, <2>3, EndTyped
<1>7. CASE NextPhase
  <2>1. /\ pc \in {"components", "nids", "endpoints", "interfaces"}
        /\ pc' = PhaseAfter /\ todo' = Requests(PhaseAfter)
    BY <1>7 DEF NextPhase, Begin, Phases
  <2>2. /\ pc' \in Phases \ {"components"}
        /\ pc' = "nids" => overwrite
        /\ pc' = "interfaces" => version = 1
    BY <2>1 DEF PhaseAfter, Phases
  <2>3. todo' = Requests(pc')
    BY <2>1
  <2> QED BY <1>7, <2>2, <2>3 DEF NextPhase, Typed, TypeOK, PhasesTaken, smd, run, Required, Phases
<1>8. CASE Finish
  BY <1>8 DEF Finish, Typed, TypeOK, PhasesTaken, smd, run, Required
<1>9. CASE Killed
  BY <1>9 DEF Killed, Typed, TypeOK, PhasesTaken, smd, run, Required
<1>10. CASE OtherClient
  <2>1. SmdOK'
    BY <1>0, <1>10 DEF OtherClient, SmdOK
  <2> QED BY <1>10, <2>1 DEF OtherClient, SmdOK, Typed, TypeOK, PhasesTaken, run, Required
<1>11. CASE UNCHANGED vars
  BY <1>11 DEF vars, Typed, TypeOK, PhasesTaken, smd, run, Required
<1> QED
  BY <1>1, <1>2, <1>3, <1>4, <1>5, <1>6, <1>7, <1>8, <1>9, <1>10, <1>11 DEF Next, Step

(***************************************************************************)
(* The types hold always, and phases are taken as PhasesTaken says.        *)
(***************************************************************************)
LEMMA AlwaysTyped == Spec => []Typed
BY TypeInit, TypeStep, PTL DEF Spec

(***************************************************************************)
(* Every variable keeps its type, and nothing is updated without           *)
(* --overwrite.                                                            *)
(***************************************************************************)
THEOREM TypeCorrect == Spec => []TypeOK
<1>1. Typed => TypeOK
  BY DEF Typed
<1> QED BY <1>1, AlwaysTyped, PTL

(***************************************************************************)
(* Without --overwrite no phase changes anything that exists.              *)
(***************************************************************************)
THEOREM NothingEverOverwritten == Spec => NothingOverwritten
<1> DEFINE Kept == \A r \in present :
                     /\ r \in present'
                     /\ r \in described' <=> r \in described
                     /\ r \in numbered' <=> r \in numbered
<1>1. Typed /\ [Next]_vars => [Step /\ ~overwrite => Kept]_vars
  <2> SUFFICES ASSUME Typed, Step, ~overwrite PROVE Kept OBVIOUS
  <2>1. CASE PutComponent
    BY <2>1 DEF PutComponent
  <2>2. CASE PatchComponentsNID
    BY <2>2 DEF PatchComponentsNID, Typed, PhasesTaken
  <2>3. CASE PostComponents
    <3>1. \/ present \cap Nodes = {} /\ Store(Nodes) /\ numbered' = numbered \cup Nodes
          \/ Unchanged
      BY <2>3 DEF PostComponents
    <3> QED BY <3>1 DEF Store, Unchanged, smd
  <2>4. CASE Post
    <3>1. PICK r : (r \notin present /\ Create(r)) \/ Unchanged
      BY <2>4 DEF Post, Conflict
    <3> QED BY <3>1 DEF Create, Unchanged, smd
  <2>5. CASE Update
    BY <2>5 DEF Update, Typed, TypeOK
  <2>6. CASE NextPhase \/ Finish
    BY <2>6 DEF NextPhase, Finish, smd
  <2> QED BY <2>1, <2>2, <2>3, <2>4, <2>5, <2>6 DEF Step
<1> QED BY <1>1, AlwaysTyped, PTL DEF Spec, NothingOverwritten

-----------------------------------------------------------------------------
(* Exit status *)

(***************************************************************************)
(* A request that ends: what it may do to SMD, and why it may be refused.  *)
(***************************************************************************)
Answered(R) ==
  /\ R \subseteq todo /\ pc # "idle"
  /\ pc = "components" => overwrite \/ R = todo
  /\ present \subseteq present' /\ present' \subseteq present \cup R \cup Nodes \cup Brought
  /\ described \subseteq described' /\ numbered \subseteq numbered'
  /\ \/ /\ Succeeded(R)
        /\ R \ {NIDs} \subseteq present' /\ R \ Patched \subseteq described'
        /\ ~overwrite => R \cap present = {} /\ \A e \in R \cap Endpoints : Brings[e] \subseteq present'
        /\ alone /\ ~errors /\ (IF overwrite THEN NIDs \in R ELSE R \cap Nodes # {})
             => Nodes \subseteq numbered'
     \/ Refused(R) /\ (calm /\ alone => ~overwrite /\ (~fresh \/ Meets))
     \/ Unanswered(R)

(***************************************************************************)
(* What is still to come is neither in this phase nor a component.         *)
(***************************************************************************)
LEMMA LaterDisjoint ==
  ASSUME Typed, pc # "idle"
  PROVE  Later \cap (todo \cup Nodes) = {} /\ (pc \notin {"components", "nids"} => todo \cap Nodes = {})
<1>1. pc \in Phases /\ todo \subseteq Requests(pc)
  BY DEF Typed, TypeOK
<1> QED BY <1>1, RequestsOf, ResourceAssumption DEF Phases, Later, Resources

(***************************************************************************)
(* However a request ends, the invariant is kept.                          *)
(***************************************************************************)
LEMMA AnswerKeeps ==
  ASSUME Typed, IInv, NEW R, Answered(R)
  PROVE  IInv'
<1>1. Ended(R) /\ acked' \in {acked, acked \cup R} /\ (acked' = acked \cup R \/ errors')
      /\ (errors => errors')
  BY DEF Answered, Succeeded, Refused, Unanswered, Typed, TypeOK
<1>2. DoneAcked'
  <2>1. Earlier' = Earlier /\ Required' = Required /\ pc' = pc /\ status' = status
    BY <1>1 DEF Ended, run, Earlier, Required
  <2>2. status = "none" /\ todo' = todo \ R
    BY <1>1 DEF IInv, DoneAcked, Answered, Ended
  <2>3. ~errors' => Earlier \cup (Requests(pc) \ todo') \subseteq acked'
    BY <1>1, <2>2 DEF IInv, DoneAcked, Answered
  <2> QED BY <2>1, <2>2, <2>3 DEF DoneAcked
<1>3. AckedShows'
  <2>1. alone' = alone /\ overwrite' = overwrite /\ Patched' = Patched
    BY <1>1 DEF Ended, run, Patched
  <2>2. CASE Succeeded(R) /\ R \ {NIDs} \subseteq present' /\ R \ Patched \subseteq described'
             /\ (alone /\ ~errors /\ (IF overwrite THEN NIDs \in R ELSE R \cap Nodes # {})
                   => Nodes \subseteq numbered')
    <3>1. acked' = acked \cup R /\ errors' = errors
      BY <2>2 DEF Succeeded
    <3> QED BY <2>1, <2>2, <3>1 DEF IInv, AckedShows, Answered
  <2>3. CASE acked' = acked /\ errors'
    BY <2>1, <2>3 DEF IInv, AckedShows, Answered
  <2> QED BY <2>2, <2>3 DEF Answered, Refused, Unanswered
<1>4. NothingAhead'
  <2>1. Later' = Later /\ pc' = pc /\ todo' = todo \ R /\ updating' = None
        /\ UNCHANGED <<overwrite, fresh, alone>>
    BY <1>1 DEF Ended, run, Later
  <2>2. ASSUME fresh, alone, ~overwrite
        PROVE  present' \cap (todo' \cup Later) \subseteq Brought
    <3>1. present \cap (todo \cup Later) \subseteq Brought
      BY <2>2 DEF IInv, NothingAhead, Answered
    <3>2. Later \cap (todo \cup Nodes) = {} /\ todo' \cap Nodes = {}
      BY <2>1, <2>2, LaterDisjoint DEF Answered, Typed, PhasesTaken
    <3> QED BY <2>1, <3>1, <3>2 DEF Answered
  <2> QED BY <2>1, <2>2 DEF NothingAhead
<1>5. ErrorsExplained'
  <2>1. alone' = alone /\ overwrite' = overwrite /\ fresh' = fresh /\ Meets' = Meets
    BY <1>1 DEF Ended, run, Meets
  <2> QED BY <2>1 DEF Answered, Succeeded, Refused, Unanswered, IInv, ErrorsExplained
<1>6. Met'
  <2>1. UNCHANGED <<pc, status, alone, overwrite, fresh, version>> /\ todo' = todo \ R
    BY <1>1 DEF Ended, run
  <2>2. CASE errors' \/ overwrite
    BY <2>1, <2>2 DEF Met
  <2>3. CASE ~errors' /\ ~overwrite
    <3>1. /\ ~errors /\ calm' = calm /\ present \subseteq present'
          /\ R \cap present = {} /\ \A e \in R \cap Endpoints : Brings[e] \subseteq present'
      BY <1>1, <2>3 DEF Answered, Succeeded, Refused, Unanswered, Typed, TypeOK
    <3> QED BY <2>1, <3>1 DEF IInv, Met
  <2> QED BY <2>2, <2>3
<1> QED BY <1>2, <1>3, <1>4, <1>5, <1>6 DEF IInv

(***************************************************************************)
(* Every request of the command ends in such a way, or is a POST that is   *)
(* to be followed by an update.                                            *)
(***************************************************************************)
LEMMA PutAnswered ==
  ASSUME Typed, PutComponent PROVE \E R : Answered(R)
<1>1. PICK n \in todo :
        \/ Store({n}) /\ UNCHANGED numbered /\ (Succeeded({n}) \/ Unanswered({n}))
        \/ Unchanged /\ Unanswered({n})
  BY DEF PutComponent
<1>2. pc = "components" /\ overwrite /\ n # NIDs
  BY RequestsOf, ResourceAssumption DEF PutComponent, Typed, TypeOK, Resources
<1>3. Answered({n})
  BY <1>1, <1>2 DEF Answered, Store, Unchanged, smd, Patched
<1> QED BY <1>3

(***************************************************************************)
(* Undisturbed, the request for the NIDs finds all components.             *)
(***************************************************************************)
LEMMA NIDsAnswered ==
  ASSUME Typed, IInv, PatchComponentsNID PROVE \E R : Answered(R)
<1>1. pc = "nids" /\ overwrite /\ NIDs \in todo /\ NIDs \notin Nodes
  BY ResourceAssumption DEF PatchComponentsNID, Typed, PhasesTaken, Resources
<1>2. alone /\ ~errors => Nodes \subseteq present
  <2>1. ~errors => Nodes \subseteq acked
    BY <1>1 DEF IInv, DoneAcked, Earlier
  <2> QED BY <1>1, <2>1 DEF IInv, AckedShows, Typed, TypeOK
<1>3. present' = present /\ described' = described /\ numbered \subseteq numbered'
  BY DEF PatchComponentsNID, Unchanged, smd
<1>4. \/ Succeeded({NIDs}) /\ numbered' = numbered \cup (Nodes \cap present)
      \/ Refused({NIDs}) /\ ~(Nodes \subseteq present)
      \/ Unanswered({NIDs})
  BY DEF PatchComponentsNID
<1>5. calm /\ alone => ~errors
  BY <1>1 DEF IInv, ErrorsExplained, Typed, TypeOK
<1>6. Answered({NIDs})
  BY <1>1, <1>2, <1>3, <1>4, <1>5 DEF Answered, Patched
<1> QED BY <1>6

(***************************************************************************)
(* Undisturbed, the POST of all components finds none on an empty SMD.     *)
(***************************************************************************)
LEMMA ComponentsAnswered ==
  ASSUME Typed, IInv, PostComponents PROVE \E R : Answered(R)
<1>1. /\ pc = "components" /\ ~overwrite /\ todo = Nodes /\ NIDs \notin Nodes
      /\ Nodes \cap (Brought \cup Endpoints) = {}
  BY ResourceAssumption DEF PostComponents, Typed, PhasesTaken, Resources, Brought
<1>2. \/ /\ present \cap Nodes = {} /\ Store(Nodes) /\ numbered' = numbered \cup Nodes
         /\ Succeeded(Nodes) \/ Unanswered(Nodes)
      \/ present \cap Nodes # {} /\ Unchanged /\ Refused(Nodes)
      \/ Unchanged /\ Unanswered(Nodes)
  BY DEF PostComponents
<1>3. present \cap Nodes # {} => ~(fresh /\ alone)
  BY <1>1 DEF IInv, NothingAhead
<1>4. Answered(Nodes)
  BY <1>1, <1>2, <1>3 DEF Answered, Store, Unchanged, smd, Patched
<1> QED BY <1>4

(***************************************************************************)
(* A POST ends the request or finds the resource it is to update.          *)
(***************************************************************************)
LEMMA PostAnswered ==
  ASSUME Typed, IInv, Post
  PROVE  (\E R : Answered(R)) \/ (\E r \in todo \cap present : Conflict(r))
<1>1. PICK r \in todo :
        \/ r \notin present /\ Create(r) /\ (Succeeded({r}) \/ Unanswered({r}))
        \/ r \in present /\ overwrite /\ Conflict(r)
        \/ r \in present /\ ~overwrite /\ Unchanged /\ Refused({r})
        \/ Unchanged /\ Unanswered({r})
  BY DEF Post
<1>2. pc \notin {"idle", "components"} /\ r \in Resources /\ r \notin Nodes /\ r # NIDs
  BY PostedAre DEF Post, Typed
<1>3. CASE r \notin present /\ Create(r) /\ (Succeeded({r}) \/ Unanswered({r}))
  <2>1. r \in Endpoints => Brings[r] \subseteq Nodes \cup Brought
    BY BringsBrought
  <2>2. Answered({r})
    BY <1>2, <1>3, <2>1 DEF Answered, Create, Patched
  <2> QED BY <2>2
<1>4. CASE r \in present /\ ~overwrite /\ Unchanged /\ Refused({r})
  <2>1. ~(fresh /\ alone) \/ Meets
    <3>1. CASE r \notin Brought
      BY <1>2, <1>4, <3>1 DEF IInv, NothingAhead
    <3>2. CASE r \in Brought
      <4>1. r \in Interfaces /\ r \notin Endpoints \cup Groups
        BY <3>2, ResourceAssumption DEF Brought
      <4>2. pc = "interfaces"
        BY <4>1, RequestsOf DEF Post, Typed, TypeOK
      <4> QED BY <3>2, <4>2 DEF Typed, PhasesTaken, Meets
    <3> QED BY <3>1, <3>2
  <2>2. Answered({r})
    BY <1>2, <1>4, <2>1 DEF Answered, Unchanged, smd
  <2> QED BY <2>2
<1>5. CASE Unchanged /\ Unanswered({r})
  <2>1. Answered({r})
    BY <1>2, <1>5 DEF Answered, Unchanged, smd
  <2> QED BY <2>1
<1> QED BY <1>1, <1>3, <1>4, <1>5

(***************************************************************************)
(* Undisturbed, an update finds its resource.                              *)
(***************************************************************************)
LEMMA UpdateAnswered ==
  ASSUME Typed, IInv, Update PROVE \E R : Answered(R)
<1>1. updating \in todo /\ overwrite /\ pc # "idle" /\ updating # None
  BY DEF Update, Typed, TypeOK
<1>2. alone => updating \in present
  BY <1>1 DEF IInv, NothingAhead
<1>3. \/ /\ updating \in present /\ Change(updating)
         /\ Succeeded({updating}) \/ Unanswered({updating})
      \/ updating \notin present /\ Unchanged /\ Refused({updating})
      \/ Unchanged /\ Unanswered({updating})
  BY DEF Update
<1>4. updating # NIDs
  BY <1>1, PostedAre DEF Typed, PhasesTaken
<1>5. Answered({updating})
  BY <1>1, <1>2, <1>3, <1>4 DEF Answered, Change, Store, Unchanged, smd, Patched
<1> QED BY <1>5

(***************************************************************************)
(* The invariant holds at first.                                           *)
(***************************************************************************)
LEMMA InvInit == Init => IInv
BY DEF Init, IInv, DoneAcked, AckedShows, NothingAhead, ErrorsExplained, Met

(***************************************************************************)
(* A phase takes over what has been done and leaves what is to come.       *)
(***************************************************************************)
LEMMA PhasesInOrder ==
  ASSUME Typed, NextPhase
  PROVE  /\ ~overwrite => todo' \cup Later' \subseteq Later
         /\ Earlier' \subseteq Earlier \cup Requests(pc)
         /\ todo' = Requests(pc') /\ todo = {} /\ pc' # "idle"
<1>1. /\ pc \in {"components", "nids", "endpoints", "interfaces"} /\ todo = {}
      /\ pc' = PhaseAfter /\ todo' = Requests(PhaseAfter)
      /\ overwrite' = overwrite /\ version' = version
  BY DEF NextPhase, Begin, Phases, run
<1>2. todo' = Requests(pc')
  BY <1>1
<1>3. CASE pc = "components"
  <2>1. pc' = IF overwrite THEN "nids" ELSE "endpoints"
    BY <1>1, <1>3 DEF PhaseAfter
  <2> QED BY <1>1, <1>2, <1>3, <2>1, RequestsOf DEF Later, Earlier
<1>4. CASE pc = "nids"
  <2>1. pc' = "endpoints" /\ overwrite
    BY <1>1, <1>4 DEF PhaseAfter, Typed, PhasesTaken
  <2> QED BY <1>1, <1>2, <1>4, <2>1, RequestsOf DEF Later, Earlier
<1>5. CASE pc = "endpoints"
  <2>1. pc' = IF version = 1 THEN "interfaces" ELSE "groups"
    BY <1>1, <1>5 DEF PhaseAfter
  <2> QED BY <1>1, <1>2, <1>5, <2>1, RequestsOf DEF Later, Earlier, Required
<1>6. CASE pc = "interfaces"
  <2>1. pc' = "groups"
    BY <1>1, <1>6 DEF PhaseAfter
  <2> QED BY <1>1, <1>2, <1>6, <2>1, RequestsOf DEF Later, Earlier, Required
<1> QED BY <1>1, <1>3, <1>4, <1>5, <1>6

(***************************************************************************)
(* Every step keeps the invariant.                                         *)
(***************************************************************************)
LEMMA InvStep == Typed /\ IInv /\ [Next]_vars => IInv'
<1> SUFFICES ASSUME Typed, IInv, [Next]_vars PROVE IInv' OBVIOUS
<1>1. CASE Start
  <2>1. /\ pc' = "components" /\ todo' = Nodes /\ updating' = None /\ status' = "none"
        /\ errors' = FALSE /\ acked' = {} /\ fresh' = (present = {}) /\ present' = present
    BY <1>1, RequestsOf DEF Start, Begin, Typed, TypeOK, smd
  <2>2. NIDs \notin acked'
    BY <2>1
  <2> QED BY <2>1, <2>2, RequestsOf DEF IInv, DoneAcked, AckedShows, NothingAhead, ErrorsExplained,
                                        Met, Earlier
<1>2. CASE \E R : Answered(R)
  BY <1>2, AnswerKeeps
<1>3. CASE \E r \in todo \cap present : Conflict(r)
  <2>1. PICK r \in todo \cap present : Conflict(r)
    BY <1>3
  <2>2. updating' = r /\ UNCHANGED <<present, described, numbered, pc, overwrite, version, fresh,
                                     todo, errors, status, acked, calm, alone>>
    BY <2>1 DEF Conflict, Unchanged, smd, run
  <2>3. DoneAcked'
    BY <2>2 DEF IInv, DoneAcked, Earlier, Required
  <2>4. NothingAhead'
    BY <2>2 DEF IInv, NothingAhead, Later
  <2>5. Met'
    BY <2>2 DEF IInv, Met
  <2> QED BY <2>2, <2>3, <2>4, <2>5 DEF IInv, AckedShows, ErrorsExplained, Meets, Patched
<1>4. CASE NextPhase
  <2>1. UNCHANGED <<smd, run, updating, errors, status, acked, calm, alone>> /\ pc # "idle"
    BY <1>4 DEF NextPhase, Phases
  <2>2. DoneAcked'
    BY <1>4, <2>1, PhasesInOrder DEF IInv, DoneAcked, run, Required
  <2>3. NothingAhead'
    BY <1>4, <2>1, PhasesInOrder DEF IInv, NothingAhead, run, smd
  <2>4. AckedShows' /\ ErrorsExplained'
    BY <2>1 DEF IInv, AckedShows, ErrorsExplained, run, smd, Meets, Patched
  <2>5. Met'
    <3>1. \/ pc' = "endpoints" /\ todo' = Endpoints
          \/ pc = "endpoints" /\ version = 1 /\ pc' = "interfaces" /\ todo' = Interfaces
          \/ pc = "endpoints" /\ version # 1 /\ pc' = "groups"
          \/ pc = "interfaces" /\ pc' = "groups"
          \/ pc' = "nids"
      BY <1>4, RequestsOf DEF NextPhase, Begin, PhaseAfter, Phases
    <3>2. todo = {} /\ status # "0" /\ Brought \subseteq Interfaces
          /\ ((\A e \in Endpoints : Brings[e] \subseteq present) => Brought \subseteq present)
      BY <1>4, <2>1 DEF NextPhase, IInv, DoneAcked, Brought
    <3> QED BY <2>1, <3>1, <3>2 DEF IInv, Met, run, smd
  <2> QED BY <2>2, <2>3, <2>4, <2>5 DEF IInv
<1>5. CASE Finish
  <2>1. /\ UNCHANGED <<smd, run, todo, updating, errors, acked, calm, alone>>
        /\ pc = "groups" /\ pc' = "idle" /\ todo = {} /\ status' = IF errors THEN "1" ELSE "0"
    BY <1>5 DEF Finish
  <2>2. ~errors => acked = Required
    <3>1. ~errors => (Required \ Groups) \cup Groups \subseteq acked
      BY <2>1, RequestsOf DEF IInv, DoneAcked, Earlier
    <3> QED BY <3>1 DEF Typed, TypeOK
  <2>3. DoneAcked'
    BY <2>1, <2>2 DEF DoneAcked, run, Required
  <2>4. Met'
    BY <2>1 DEF IInv, Met, run, smd
  <2> QED BY <2>1, <2>3, <2>4 DEF IInv, AckedShows, NothingAhead, ErrorsExplained, run, smd, Meets, Patched
<1>6. CASE Killed
  BY <1>6 DEF Killed, IInv, DoneAcked, AckedShows, NothingAhead, ErrorsExplained, Met, run, smd,
              Meets, Patched
<1>7. CASE OtherClient
  <2>1. alone' = FALSE
    BY <1>7 DEF OtherClient
  <2>2. UNCHANGED <<pc, run, todo, updating, errors, status, acked, calm>>
    BY <1>7 DEF OtherClient
  <2> QED BY <2>1, <2>2 DEF IInv, DoneAcked, AckedShows, NothingAhead, ErrorsExplained, Met, run,
                            Earlier, Required
<1>8. CASE UNCHANGED vars
  BY <1>8 DEF vars, IInv, DoneAcked, AckedShows, NothingAhead, ErrorsExplained, Met, run, smd,
              Earlier, Later, Required, Meets, Patched
<1> QED
  BY <1>1, <1>2, <1>3, <1>4, <1>5, <1>6, <1>7, <1>8, PutAnswered, NIDsAnswered,
     ComponentsAnswered, PostAnswered, UpdateAnswered DEF Next, Step

(***************************************************************************)
(* The invariant holds always.                                             *)
(***************************************************************************)
LEMMA InvAlways == Spec => [](Typed /\ IInv)
BY TypeInit, TypeStep, InvInit, InvStep, PTL DEF Spec

(***************************************************************************)
(* Exit status 0 means that every request has succeeded, although errors   *)
(* do not stop the command, and that SMD is as the file says.              *)
(***************************************************************************)
THEOREM SuccessIsDone == Spec => []SuccessMeansDone
<1>1. Typed /\ IInv => SuccessMeansDone
  <2> SUFFICES ASSUME IInv, status = "0"
               PROVE  /\ acked = Required
                      /\ alone => /\ Required \ {NIDs} \subseteq present
                                  /\ Settled \subseteq described /\ Nodes \subseteq numbered
    BY DEF SuccessMeansDone
  <2>1. acked = Required /\ ~errors
    BY DEF IInv, DoneAcked
  <2>2. IF overwrite THEN NIDs \in Required ELSE Nodes \subseteq Required
    BY DEF Required
  <2> QED BY <2>1, <2>2 DEF IInv, AckedShows, Settled, Patched
<1> QED BY <1>1, InvAlways, PTL

(***************************************************************************)
(* An undisturbed run with --overwrite succeeds, whatever it meets; one    *)
(* without succeeds on an empty SMD, unless it requests the interfaces     *)
(* that the endpoints have brought.                                        *)
(***************************************************************************)
THEOREM RerunAlwaysRepairs == Spec => []RerunRepairs
<1>1. Typed /\ IInv => RerunRepairs
  <2> SUFFICES ASSUME Typed, IInv, status \in {"0", "1"}, calm, alone
               PROVE  /\ overwrite => status = "0"
                      /\ ~overwrite /\ fresh => (status = "0" <=> version = 2 \/ Brought = {})
    BY DEF RerunRepairs
  <2>1. version \in {1, 2} /\ (status = "1" => errors) /\ (status = "0" => ~errors)
    BY DEF Typed, TypeOK, IInv, DoneAcked
  <2>2. errors => ~overwrite /\ (~fresh \/ Meets)
    BY DEF IInv, ErrorsExplained
  <2>3. ~overwrite /\ fresh /\ status = "0" /\ version = 1 => Brought = {}
    BY <2>1 DEF IInv, Met
  <2> QED BY <2>1, <2>2, <2>3 DEF Meets
<1> QED BY <1>1, InvAlways, PTL
=============================================================================
