----------------------------- MODULE DiscoveryInfo -----------------------------
(***************************************************************************)
(* What `ochami discover static` makes of its file before it sends         *)
(* anything: DiscoveryInfoV2 reads a list of BMCs and a list of nodes,     *)
(* DiscoveryInfoV2Deprecated the older format, in which each node says     *)
(* what its BMC is.  Both walk the lists once and collect components,      *)
(* Redfish endpoints with their systems and managers, Ethernet interfaces  *)
(* and groups.  A file of the older format may then be converted           *)
(* (ochami-discovery-old2new.py) and read again.                           *)
(*                                                                         *)
(* A text is a model value, None the empty one.  An xname is the sequence  *)
(* of its numbers: <<1, 0, 0, 0, 3>> is the node x1c0s0b0n3,               *)
(* <<1, 0, 0, 0>> its BMC, and <<1, 0>> a chassis.  An interface is the    *)
(* sequence of its addresses, and of an address only matters what names    *)
(* its network; what else an entry says is carried along by its position   *)
(* in the file.                                                            *)
(***************************************************************************)
EXTENDS Naturals, SequencesExt

CONSTANTS
  Files,      \* the files to read
  Texts,      \* texts that are no xname; MAC addresses and names
  Xnames,     \* sequences of numbers
  ValidBMCs,  \* the ones csm.IsValidBMCXName accepts
  Groups,
  None        \* the empty text

Strings == Texts \cup Xnames
BMC == [name : Strings, xname : Strings, mac : Strings]

(***************************************************************************)
(* An address: the older format has its network under network, the new     *)
(* one under name, and each passes over the key of the other.              *)
(***************************************************************************)
Address == [network : Strings, name : Strings]

(***************************************************************************)
(* A node of either format: bmc is a key of the new one, mac (bmc_mac) of  *)
(* the older one; old says whether there is a bmc_mac or a bmc_ip.  The    *)
(* single group of the older format is the first of its groups.            *)
(***************************************************************************)
Node == [xname : Strings, bmc : Strings, mac : Strings, old : BOOLEAN,
         groups : Seq(Groups), ifaces : Seq(Seq(Address))]
File == [bmcs : Seq(BMC), nodes : Seq(Node)]

ASSUME TextAssumption == None \in Texts /\ Texts \cap Xnames = {}
ASSUME XnameAssumption ==
  /\ Xnames \subseteq Seq(Nat)
  /\ \A x \in Xnames : Len(x) >= 5 => SubSeq(x, 1, 4) \in Xnames
  /\ ValidBMCs \subseteq Xnames \cap [1..4 -> Nat]
ASSUME FileAssumption == Files \subseteq File

VARIABLES
  file,       \* the file
  phase,      \* the loop the command is in
  at,         \* the position in its list
  keys,       \* bmcs: MAC addresses, names and xnames, to positions in
  endpoints,  \* bmcsInOrder
  comps,      \* the components; the position of an entry stands for its data
  ifaces,     \* the interfaces
  groups,     \* groupsToAdd
  before      \* history: the file before it was converted, and what came of it

built == <<keys, endpoints, comps, ifaces, groups>>
vars == <<file, phase, at, built, before>>

-----------------------------------------------------------------------------
(* Xnames *)

(***************************************************************************)
(* The numbers Sscanf has read when the text stops being like an xname     *)
(* stay, the others are zero: part of an xname has a BMC as well.          *)
(***************************************************************************)
StringToXname(x) ==
  LET n == IF x \in Texts THEN <<>> ELSE x
  IN  [i \in 1..5 |-> IF i \in DOMAIN n THEN n[i] ELSE 0]

NodeXnameToBMCXname(x) ==
  LET b == SubSeq(StringToXname(x), 1, 4)
  IN  IF b \in ValidBMCs THEN b ELSE None

-----------------------------------------------------------------------------
(* What the maps of the code tell *)

Systems(e) == Range(endpoints[e].systems)
HasComponent(x) == \E c \in Range(comps) : c.xname = x
HasSystem(x) == \E e \in DOMAIN endpoints : \E s \in Systems(e) : s.xname = x
HasManager(x) == \E e \in DOMAIN endpoints : x \in Range(endpoints[e].managers)

Endpoint(id, mac) ==
  [id |-> id, mac |-> mac, of |-> at, systems |-> <<>>, managers |-> <<>>]

MapTo(ks, e) == [k \in DOMAIN keys \cup ks |-> IF k \in ks THEN e ELSE keys[k]]

Init ==
  /\ file \in Files
  /\ phase = "format" /\ at = 1
  /\ keys = [k \in {} |-> 0]
  /\ endpoints = <<>> /\ comps = <<>> /\ ifaces = <<>>
  /\ groups = [g \in Groups |-> <<>>]
  /\ before = <<>>

Enter(p) == phase' = p /\ at' = 1
Advance == at' = at + 1 /\ UNCHANGED <<phase, file, before>>

(***************************************************************************)
(* One node with a key of the older format makes the whole file one of it. *)
(***************************************************************************)
DeprecatedFormat(f) == \E n \in Range(f.nodes) : n.old

ChooseFormat ==
  /\ phase = "format"
  /\ Enter(IF DeprecatedFormat(file) THEN "deprecated" ELSE "bmcs")
  /\ UNCHANGED <<file, built, before>>

-----------------------------------------------------------------------------
(* DiscoveryInfoV2 *)

Found_Fault(b) == {b.mac, b.name} \cap DOMAIN keys # {}   \* seeded fault: by its name as well
Found(b) == b.mac \in DOMAIN keys

KnownAs(b) == {b.mac, b.name, b.xname}

AddBMC_Fault ==   \* seeded fault: positions count from zero
  /\ phase = "bmcs" /\ at \in DOMAIN file.bmcs
  /\ ~Found(file.bmcs[at])
  /\ endpoints' = Append(endpoints, Endpoint(file.bmcs[at].xname, file.bmcs[at].mac))
  /\ keys' = MapTo(KnownAs(file.bmcs[at]), Len(endpoints))
  /\ Advance
  /\ UNCHANGED <<comps, ifaces, groups>>

(***************************************************************************)
(* A BMC is known by its MAC address, name and xname, but only its MAC     *)
(* address is looked up; a name or a MAC address that is missing is a key  *)
(* like any other.                                                         *)
(***************************************************************************)
AddBMC ==
  /\ phase = "bmcs" /\ at \in DOMAIN file.bmcs
  /\ LET b == file.bmcs[at]
     IN  IF Found(b) THEN UNCHANGED <<keys, endpoints>>
         ELSE /\ endpoints' = Append(endpoints,
                   [Endpoint(b.xname, b.mac) EXCEPT !.managers = <<b.xname>>])
              /\ keys' = MapTo(KnownAs(b), Len(endpoints) + 1)
  /\ Advance
  /\ UNCHANGED <<comps, ifaces, groups>>

(***************************************************************************)
(* The BMC a node names, or else the one its xname has, if any.            *)
(***************************************************************************)
ResolveBMC(n) == IF n.bmc # None THEN n.bmc ELSE NodeXnameToBMCXname(n.xname)

Resolves(n) == ResolveBMC(n) # None /\ ResolveBMC(n) \in DOMAIN keys

AddComponent(n) ==
  comps' = IF HasComponent(n.xname) THEN comps
           ELSE Append(comps, [xname |-> n.xname, of |-> at])

System(n) == [xname |-> n.xname, of |-> at]

(***************************************************************************)
(* The networks of the addresses of an interface, in the format the file   *)
(* is read in.                                                             *)
(***************************************************************************)
Networks(iface) ==
  [k \in DOMAIN iface |-> IF DeprecatedFormat(file) THEN iface[k].network ELSE iface[k].name]

Ifaces(n) ==
  [i \in DOMAIN n.ifaces |->
    [xname |-> n.xname, of |-> at, index |-> i, networks |-> Networks(n.ifaces[i])]]

(***************************************************************************)
(* The first address of every interface is looked at.                      *)
(***************************************************************************)
Panics(n) == ~HasSystem(n.xname) /\ <<>> \in Range(n.ifaces)

Panic ==
  /\ phase' = "panic"
  /\ UNCHANGED <<file, at, built, before>>

(***************************************************************************)
(* A node without a BMC keeps its component, and the command goes on.      *)
(***************************************************************************)
AddUnresolvedNode ==
  /\ phase = "nodes" /\ at \in DOMAIN file.nodes
  /\ ~Resolves(file.nodes[at])
  /\ AddComponent(file.nodes[at])
  /\ Advance
  /\ UNCHANGED <<keys, endpoints, ifaces, groups>>

AddNode_Fault ==   \* seeded fault: systems are not told apart
  /\ phase = "nodes" /\ at \in DOMAIN file.nodes
  /\ LET n == file.nodes[at]
     IN  /\ Resolves(n) /\ ~Panics(n)
         /\ AddComponent(n)
         /\ endpoints' = [endpoints EXCEPT ![keys[ResolveBMC(n)]].systems = Append(@, System(n))]
         /\ ifaces' = ifaces \o Ifaces(n)
  /\ Advance
  /\ UNCHANGED <<keys, groups>>

AddNode ==
  /\ phase = "nodes" /\ at \in DOMAIN file.nodes
  /\ LET n == file.nodes[at]
     IN  /\ Resolves(n) /\ ~Panics(n)
         /\ AddComponent(n)
         /\ IF HasSystem(n.xname) THEN UNCHANGED <<endpoints, ifaces>>
            ELSE /\ endpoints' = [endpoints EXCEPT ![keys[ResolveBMC(n)]].systems =
                                    Append(@, System(n))]
                 /\ ifaces' = ifaces \o Ifaces(n)
  /\ Advance
  /\ UNCHANGED <<keys, groups>>

PanicOnNode ==
  /\ phase = "nodes" /\ at \in DOMAIN file.nodes
  /\ Resolves(file.nodes[at]) /\ Panics(file.nodes[at])
  /\ Panic

-----------------------------------------------------------------------------
(* DiscoveryInfoV2Deprecated *)

BMCXname(n) ==
  IF NodeXnameToBMCXname(n.xname) = None THEN n.xname ELSE NodeXnameToBMCXname(n.xname)

(***************************************************************************)
(* The endpoint of a node is found by the MAC address of its BMC and has   *)
(* the xname of the BMC of the first node that has it; its manager is      *)
(* found by the xname.                                                     *)
(***************************************************************************)
AddDeprecatedNode ==
  /\ phase = "deprecated" /\ at \in DOMAIN file.nodes
  /\ LET n == file.nodes[at]
         known == n.mac \in DOMAIN keys
         found == IF known THEN endpoints ELSE Append(endpoints, Endpoint(BMCXname(n), n.mac))
         e == IF known THEN keys[n.mac] ELSE Len(found)
         isNew == ~HasSystem(n.xname)
     IN  /\ ~Panics(n)
         /\ AddComponent(n)
         /\ keys' = MapTo({n.mac}, e)
         /\ endpoints' = [found EXCEPT
              ![e].systems = IF isNew THEN Append(@, System(n)) ELSE @,
              ![e].managers = IF HasManager(BMCXname(n)) THEN @ ELSE Append(@, BMCXname(n))]
         /\ ifaces' = IF isNew THEN ifaces \o Ifaces(n) ELSE ifaces
  /\ Advance
  /\ UNCHANGED groups

PanicOnDeprecatedNode ==
  /\ phase = "deprecated" /\ at \in DOMAIN file.nodes
  /\ Panics(file.nodes[at])
  /\ Panic

-----------------------------------------------------------------------------
(* Groups, and the end *)

AddMemberToGroup_Fault(members, x) ==   \* seeded fault: a new list for each member
  IF x \in Range(members) THEN members ELSE <<x>>
AddMemberToGroup(members, x) == IF x \in Range(members) THEN members ELSE Append(members, x)

(***************************************************************************)
(* A node joins its groups also when it has lost its system.               *)
(***************************************************************************)
AddToGroups ==
  /\ phase = "groups" /\ at \in DOMAIN file.nodes
  /\ groups' = [g \in Groups |->
       IF g \in Range(file.nodes[at].groups)
       THEN AddMemberToGroup(groups[g], file.nodes[at].xname) ELSE groups[g]]
  /\ Advance
  /\ UNCHANGED <<keys, endpoints, comps, ifaces>>

(***************************************************************************)
(* The end of a loop.                                                      *)
(***************************************************************************)
NextLoop ==
  /\ \/ phase = "bmcs" /\ at > Len(file.bmcs) /\ Enter("nodes")
     \/ phase \in {"nodes", "deprecated"} /\ at > Len(file.nodes) /\ Enter("groups")
     \/ phase = "groups" /\ at > Len(file.nodes) /\ Enter("done")
  /\ UNCHANGED <<file, built, before>>

-----------------------------------------------------------------------------
(* ochami-discovery-old2new.py *)

(***************************************************************************)
(* The node part of the xname is cut off, whatever is left.  (A node       *)
(* without an xname, or with the key bmc_xname, which the program ignores, *)
(* is not among the files.)                                                *)
(***************************************************************************)
DeriveBMCXname(x) == IF x \in Texts \/ Len(x) < 5 THEN x ELSE SubSeq(x, 1, 4)

(***************************************************************************)
(* One BMC for each xname that is left, with the first MAC address given   *)
(* and without a name.                                                     *)
(***************************************************************************)
ConvertedBMC(nodes, x) ==
  LET given == {i \in DOMAIN nodes : DeriveBMCXname(nodes[i].xname) = x /\ nodes[i].mac # None}
  IN  [name |-> None, xname |-> x, mac |-> IF given = {} THEN None ELSE nodes[Min(given)].mac]

ConvertedBMCs(nodes) ==
  {ConvertedBMC(nodes, DeriveBMCXname(n.xname)) : n \in Range(nodes)}

ConvertedNode_Fault(n) ==   \* seeded fault: the BMC is looked for by the xname of the node
  [n EXCEPT !.bmc = n.xname, !.mac = None, !.old = FALSE]

(***************************************************************************)
(* The interfaces of a node stay as they are, key by key.                  *)
(***************************************************************************)
ConvertedNode(n) ==
  [n EXCEPT !.bmc = DeriveBMCXname(n.xname), !.mac = None, !.old = FALSE]

(***************************************************************************)
(* What a file says, whatever the order of its BMCs.                       *)
(***************************************************************************)
Meaning ==
  [comps |-> comps, ifaces |-> ifaces, groups |-> groups,
   endpoints |-> {[endpoints[e] EXCEPT !.of = 0] : e \in DOMAIN endpoints}]

(***************************************************************************)
(* A file that has been read is converted and read again.                  *)
(***************************************************************************)
Convert ==
  /\ phase = "done" /\ DeprecatedFormat(file)
  /\ \E bmcs \in SetToSeqs(ConvertedBMCs(file.nodes)) :
       file' = [bmcs |-> bmcs,
                nodes |-> [i \in DOMAIN file.nodes |-> ConvertedNode(file.nodes[i])]]
  /\ before' = <<[nodes |-> file.nodes, meaning |-> Meaning]>>
  /\ Enter("format")
  /\ keys' = [k \in {} |-> 0]
  /\ endpoints' = <<>> /\ comps' = <<>> /\ ifaces' = <<>>
  /\ groups' = [g \in Groups |-> <<>>]

Ended ==
  /\ phase = "panic" \/ (phase = "done" /\ ~DeprecatedFormat(file))
  /\ UNCHANGED vars

Next ==
  \/ ChooseFormat \/ NextLoop
  \/ AddBMC \/ AddUnresolvedNode \/ AddNode \/ PanicOnNode
  \/ AddDeprecatedNode \/ PanicOnDeprecatedNode
  \/ AddToGroups \/ Convert \/ Ended

Spec == Init /\ [][Next]_vars

-----------------------------------------------------------------------------
(* Properties *)

SystemType == [xname : Strings, of : Nat]
Phases == {"format", "bmcs", "nodes", "deprecated", "groups", "done", "panic"}

(***************************************************************************)
(* The variables keep their types, and a key leads to an endpoint.         *)
(***************************************************************************)
TypeOK ==
  /\ file \in File
  /\ phase \in Phases /\ at \in Nat \ {0}
  /\ DOMAIN keys \subseteq Strings
  /\ \A k \in DOMAIN keys : keys[k] \in DOMAIN endpoints
  /\ endpoints \in Seq([id : Strings, mac : Strings, of : Nat,
                        systems : Seq(SystemType), managers : Seq(Strings)])
  /\ comps \in Seq(SystemType)
  /\ ifaces \in Seq([xname : Strings, of : Nat, index : Nat, networks : Seq(Strings)])
  /\ groups \in [Groups -> Seq(Strings)]
  /\ Len(before) \in {0, 1}

NoRepeats(s, F(_)) == \A i, j \in DOMAIN s : F(s[i]) = F(s[j]) => i = j

(***************************************************************************)
(* Whatever the file repeats, SMD is told everything once: one component   *)
(* and one system for an xname (even when two entries of it have different *)
(* BMCs), one endpoint for the MAC address of a BMC, one manager for an    *)
(* xname in the older format, the interfaces of one entry of a node, and   *)
(* every member of a group once.                                           *)
(***************************************************************************)
NothingTwice ==
  LET Xname(r) == r.xname
      Mac(e) == e.mac
      Itself(r) == r
  IN  /\ NoRepeats(comps, Xname)
      /\ NoRepeats(endpoints, Mac)
      /\ \A d, e \in DOMAIN endpoints : \A s \in Systems(d), t \in Systems(e) :
           s.xname = t.xname => d = e /\ s = t
      /\ \A e \in DOMAIN endpoints : NoRepeats(endpoints[e].systems, Itself)
      /\ DeprecatedFormat(file) => \A d, e \in DOMAIN endpoints :
           NoRepeats(endpoints[e].managers, Itself) /\
           (d # e => Range(endpoints[d].managers) \cap Range(endpoints[e].managers) = {})
      /\ NoRepeats(ifaces, Itself)
      /\ \A i, j \in DOMAIN ifaces : ifaces[i].xname = ifaces[j].xname => ifaces[i].of = ifaces[j].of
      /\ \A g \in Groups : NoRepeats(groups[g], Itself)

BMCKeys(b) == {b.mac, b.name, b.xname}

(***************************************************************************)
(* Whatever names a node, a system, an interface or a member of a group,   *)
(* names a component, also when the node was passed over or its entry      *)
(* repeated: nothing that is sent refers to what is not.                   *)
(***************************************************************************)
ReferencesResolve ==
  /\ \A e \in DOMAIN endpoints : \A s \in Systems(e) : HasComponent(s.xname)
  /\ \A i \in DOMAIN ifaces : HasComponent(ifaces[i].xname)
  /\ \A g \in Groups : \A m \in Range(groups[g]) : HasComponent(m)

(***************************************************************************)
(* Nothing is dropped without a reason, whatever the file.  In the older   *)
(* format every node has a system.  In the new one a BMC is left out only  *)
(* if its MAC address, missing ones included, is a MAC address, name or    *)
(* xname of a BMC before it, and a node has no system only if it has no    *)
(* BMC, or its BMC is no MAC address, name or xname of a BMC with an       *)
(* endpoint.  A panic needs an interface without addresses.  And nothing   *)
(* that something else refers to is dropped at all.                        *)
(***************************************************************************)
LossesExplained ==
  LET bmcs == file.bmcs
      nodes == file.nodes
      HasEndpoint(j) == \E e \in DOMAIN endpoints : endpoints[e].of = j
  IN  /\ ReferencesResolve
      /\ phase = "panic" => \E n \in Range(nodes) : <<>> \in Range(n.ifaces)
      /\ phase = "done" /\ DeprecatedFormat(file) => \A n \in Range(nodes) : HasSystem(n.xname)
      /\ phase = "done" /\ ~DeprecatedFormat(file) =>
           /\ \A j \in DOMAIN bmcs : ~HasEndpoint(j) =>
                \E i \in 1..(j - 1) : HasEndpoint(i) /\ bmcs[j].mac \in BMCKeys(bmcs[i])
           /\ \A n \in Range(nodes) : ~HasSystem(n.xname) =>
                \/ ResolveBMC(n) = None
                \/ \A j \in DOMAIN bmcs : HasEndpoint(j) => ResolveBMC(n) \notin BMCKeys(bmcs[j])

(***************************************************************************)
(* What the manual asks of a file of the new format, as the code needs it: *)
(* BMCs with MAC addresses of their own, nodes with xnames of their own,   *)
(* each with one BMC that it names, and interfaces with addresses.         *)
(***************************************************************************)
OneBMC(n) == \E j \in DOMAIN file.bmcs : \A i \in DOMAIN file.bmcs :
               ResolveBMC(n) \in BMCKeys(file.bmcs[i]) <=> i = j
WellFormed ==
  /\ ~DeprecatedFormat(file)
  /\ \A i, j \in DOMAIN file.bmcs : i < j => file.bmcs[j].mac \notin BMCKeys(file.bmcs[i])
  /\ \A i, j \in DOMAIN file.nodes : file.nodes[i].xname = file.nodes[j].xname => i = j
  /\ \A n \in Range(file.nodes) :
       ResolveBMC(n) # None /\ OneBMC(n) /\ <<>> \notin Range(n.ifaces)

(***************************************************************************)
(* A well-formed file arrives whole: a component for every node, in the    *)
(* order of the file, an endpoint with a manager for every BMC, a system   *)
(* for every node under the BMC it names and nowhere else, again in the    *)
(* order of the file, all interfaces with the networks their addresses     *)
(* name, and exactly the members of each group.                            *)
(***************************************************************************)
Names(iface) == [k \in DOMAIN iface |-> iface[k].name]

WellFormedFileIsComplete ==
  LET nodes == file.nodes
      Entry(i) == [xname |-> nodes[i].xname, of |-> i]
      Named(b) == {i \in DOMAIN nodes : ResolveBMC(nodes[i]) \in BMCKeys(b)}
  IN  WellFormed =>
        /\ phase # "panic"
        /\ phase = "done" =>
             /\ comps = [i \in DOMAIN nodes |-> Entry(i)]
             /\ DOMAIN endpoints = DOMAIN file.bmcs
             /\ \A j \in DOMAIN endpoints :
                  LET b == file.bmcs[j]
                      e == endpoints[j]
                  IN  /\ e.id = b.xname /\ e.mac = b.mac /\ e.of = j /\ e.managers = <<b.xname>>
                      /\ Range(e.systems) = {Entry(i) : i \in Named(b)}
                      /\ \A k, l \in DOMAIN e.systems : k < l => e.systems[k].of < e.systems[l].of
             /\ Range(ifaces) = UNION {{[xname |-> nodes[i].xname, of |-> i, index |-> k,
                                          networks |-> Names(nodes[i].ifaces[k])] :
                                          k \in DOMAIN nodes[i].ifaces} : i \in DOMAIN nodes}
             /\ \A g \in Groups : Range(groups[g]) = {n.xname : n \in {n \in Range(nodes) : g \in Range(n.groups)}}

(***************************************************************************)
(* A list of nodes of the older format that the conversion can keep: they  *)
(* have xnames of nodes, and two of them the same BMC exactly if they say  *)
(* the same bmc_mac, which is not itself an xname.                         *)
(***************************************************************************)
Consistent(nodes) ==
  /\ \A n \in Range(nodes) :
       /\ n.mac \in Texts \ {None}
       /\ n.xname \in Xnames \cap [1..5 -> Nat] /\ NodeXnameToBMCXname(n.xname) # None
  /\ \A m, n \in Range(nodes) :
       m.mac = n.mac <=> NodeXnameToBMCXname(m.xname) = NodeXnameToBMCXname(n.xname)

(***************************************************************************)
(* Interfaces whose networks are what the addresses of these nodes have    *)
(* under name.                                                             *)
(***************************************************************************)
Renamed(nodes, list) ==
  [i \in DOMAIN list |->
    [list[i] EXCEPT !.networks = Names(nodes[list[i].of].ifaces[list[i].index])]]

(***************************************************************************)
(* A consistent file that ochami-discovery-old2new.py has converted means  *)
(* what it meant before (the names of endpoints apart), but for the        *)
(* networks of its addresses: what they had under network, the key of the  *)
(* older format, is lost, and what they had under name, which was passed   *)
(* over, counts instead.                                                   *)
(***************************************************************************)
ConversionKeepsMeaning ==
  \A old \in Range(before) : Consistent(old.nodes) =>
    /\ phase # "panic"
    /\ phase = "done" => Meaning = [old.meaning EXCEPT !.ifaces = Renamed(old.nodes, @)]
=============================================================================
