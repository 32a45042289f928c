-------------------------- MODULE DiscoveryInfoProofs --------------------------
(***************************************************************************)
(* Proofs about DiscoveryInfo, for all files of both formats, whatever     *)
(* they repeat, leave out or get wrong.                                    *)
(***************************************************************************)
EXTENDS DiscoveryInfo, SequenceTheorems, FiniteSetTheorems,
        WellFoundedInduction, TLAPS

-----------------------------------------------------------------------------
(* Lists that grow at the end *)

LEMMA Appended ==
  ASSUME NEW T, NEW s \in Seq(T), NEW x \in T
  PROVE  /\ Append(s, x) \in Seq(T) /\ Len(s) \in Nat
         /\ DOMAIN s = 1..Len(s) /\ DOMAIN Append(s, x) = 1..(Len(s) + 1)
         /\ Append(s, x)[Len(s) + 1] = x
         /\ \A i \in DOMAIN s : Append(s, x)[i] = s[i]
         /\ Range(Append(s, x)) = Range(s) \cup {x}
<1>1. /\ Append(s, x) \in Seq(T) /\ Len(s) \in Nat
      /\ DOMAIN s = 1..Len(s) /\ DOMAIN Append(s, x) = 1..(Len(s) + 1)
      /\ Append(s, x)[Len(s) + 1] = x
      /\ \A i \in DOMAIN s : Append(s, x)[i] = s[i]
  OBVIOUS
<1>2. Range(Append(s, x)) = Range(s) \cup {x}
  BY <1>1 DEF Range
<1> QED BY <1>1, <1>2

LEMMA Joined ==
  ASSUME NEW T, NEW s \in Seq(T), NEW t \in Seq(T)
  PROVE  /\ s \o t \in Seq(T) /\ Len(s) \in Nat /\ Len(t) \in Nat
         /\ DOMAIN s = 1..Len(s) /\ DOMAIN t = 1..Len(t)
         /\ DOMAIN (s \o t) = 1..(Len(s) + Len(t))
         /\ \A i \in DOMAIN s : (s \o t)[i] = s[i]
         /\ \A i \in DOMAIN (s \o t) : i \notin DOMAIN s =>
              i - Len(s) \in DOMAIN t /\ (s \o t)[i] = t[i - Len(s)]
OBVIOUS

LEMMA JoinedRange ==
  ASSUME NEW T, NEW s \in Seq(T), NEW t \in Seq(T)
  PROVE  Range(s \o t) = Range(s) \cup Range(t)
<1>1. /\ Len(s) \in Nat /\ Len(t) \in Nat /\ DOMAIN s = 1..Len(s) /\ DOMAIN t = 1..Len(t)
      /\ DOMAIN (s \o t) = 1..(Len(s) + Len(t))
      /\ \A i \in DOMAIN s : (s \o t)[i] = s[i]
      /\ \A i \in DOMAIN (s \o t) : i \notin DOMAIN s =>
           i - Len(s) \in DOMAIN t /\ (s \o t)[i] = t[i - Len(s)]
  BY Joined
<1>2. ASSUME NEW i \in DOMAIN t
      PROVE  i + Len(s) \in DOMAIN (s \o t) /\ (s \o t)[i + Len(s)] = t[i]
  <2>1. i + Len(s) \in DOMAIN (s \o t) /\ i + Len(s) \notin DOMAIN s /\ (i + Len(s)) - Len(s) = i
    BY <1>1
  <2> QED BY <1>1, <2>1
<1>3. DOMAIN s \subseteq DOMAIN (s \o t)
  BY <1>1
<1> DEFINE u == s \o t
<1>4. \A i \in DOMAIN s : i \in DOMAIN u /\ u[i] = s[i]
  BY <1>1, <1>3
<1>5. \A i \in DOMAIN t : i + Len(s) \in DOMAIN u /\ u[i + Len(s)] = t[i]
  BY <1>2
<1>6. \A i \in DOMAIN u : i \notin DOMAIN s => i - Len(s) \in DOMAIN t /\ u[i] = t[i - Len(s)]
  BY <1>1
<1> HIDE DEF u
<1>7. Range(u) \subseteq Range(s) \cup Range(t)
  BY <1>4, <1>6 DEF Range
<1>8. Range(s) \subseteq Range(u)
  BY <1>4 DEF Range
<1>9. Range(t) \subseteq Range(u)
  BY <1>5 DEF Range
<1>10. Range(u) = Range(s) \cup Range(t)
  BY <1>7, <1>8, <1>9
<1> QED BY <1>10 DEF u

-----------------------------------------------------------------------------
(* Types *)

LEMMA EntryTyped ==
  ASSUME file \in File
  PROVE  /\ \A j \in DOMAIN file.bmcs : file.bmcs[j] \in BMC
         /\ \A i \in DOMAIN file.nodes : file.nodes[i] \in Node
BY DEF File

LEMMA XnameTyped ==
  ASSUME NEW x \in Strings
  PROVE  /\ NodeXnameToBMCXname(x) \in Strings
         /\ DeriveBMCXname(x) \in Strings
         /\ None \in Strings
<1>1. None \in Strings
  BY TextAssumption DEF Strings
<1>2. NodeXnameToBMCXname(x) \in ValidBMCs \cup {None}
  BY DEF NodeXnameToBMCXname
<1>3. ValidBMCs \subseteq Strings
  BY XnameAssumption DEF Strings
<1>4. DeriveBMCXname(x) \in Strings
  BY XnameAssumption DEF DeriveBMCXname, Strings
<1> QED BY <1>1, <1>2, <1>3, <1>4

SystemsType == Seq(SystemType)
EndpointType == [id : Strings, mac : Strings, of : Nat,
                 systems : Seq(SystemType), managers : Seq(Strings)]
IfaceType == [xname : Strings, of : Nat, index : Nat, networks : Seq(Strings)]

LEMMA EndpointTyped ==
  ASSUME at \in Nat \ {0}, NEW id \in Strings, NEW mac \in Strings
  PROVE  Endpoint(id, mac) \in EndpointType
BY DEF Endpoint, EndpointType

LEMMA NetworksTyped ==
  ASSUME NEW iface \in Seq(Address)
  PROVE  Networks(iface) \in Seq(Strings)
<1> DEFINE t(k) == IF DeprecatedFormat(file) THEN iface[k].network ELSE iface[k].name
<1>1. DOMAIN iface = 1..Len(iface) /\ Len(iface) \in Nat
  OBVIOUS
<1>2. \A k \in 1..Len(iface) : t(k) \in Strings
  <2>1. TAKE k \in 1..Len(iface)
  <2>2. iface[k] \in Address
    OBVIOUS
  <2>3. iface[k].network \in Strings /\ iface[k].name \in Strings
    BY <2>2 DEF Address
  <2> QED BY <2>3
<1> HIDE DEF t
<1>3. [k \in 1..Len(iface) |-> t(k)] \in Seq(Strings)
  BY <1>1, <1>2
<1> QED BY <1>1, <1>3 DEF Networks, t

LEMMA NodeTyped ==
  ASSUME at \in Nat \ {0}, NEW n \in Node, comps \in Seq(SystemType)
  PROVE  /\ n.xname \in Strings /\ n.mac \in Strings
         /\ System(n) \in SystemType
         /\ Ifaces(n) \in Seq(IfaceType)
         /\ BMCXname(n) \in Strings /\ ResolveBMC(n) \in Strings
         /\ AddComponent(n) => comps' \in Seq(SystemType)
<1>1. n.xname \in Strings /\ n.mac \in Strings /\ n.bmc \in Strings /\ n.ifaces \in Seq(Seq(Address))
  BY DEF Node
<1>2. System(n) \in SystemType
  BY <1>1 DEF System, SystemType
<1>3. Ifaces(n) \in Seq(IfaceType)
  <2>1. ASSUME NEW i \in DOMAIN n.ifaces
        PROVE  [xname |-> n.xname, of |-> at, index |-> i, networks |-> Networks(n.ifaces[i])] \in IfaceType
    <3>1. n.ifaces[i] \in Seq(Address)
      BY <1>1
    <3>2. Networks(n.ifaces[i]) \in Seq(Strings)
      BY <3>1, NetworksTyped
    <3> QED BY <1>1, <3>2 DEF IfaceType
  <2> DEFINE F(i) == [xname |-> n.xname, of |-> at, index |-> i, networks |-> Networks(n.ifaces[i])]
  <2>2. DOMAIN n.ifaces = 1..Len(n.ifaces) /\ Len(n.ifaces) \in Nat
    BY <1>1
  <2>3. \A i \in 1..Len(n.ifaces) : F(i) \in IfaceType
    BY <2>1, <2>2
  <2>4. Ifaces(n) = [i \in 1..Len(n.ifaces) |-> F(i)]
    BY <2>2 DEF Ifaces
  <2> HIDE DEF F
  <2> QED BY <2>2, <2>3, <2>4
<1>4. BMCXname(n) \in Strings /\ ResolveBMC(n) \in Strings
  BY <1>1, XnameTyped DEF BMCXname, ResolveBMC
<1>5. AddComponent(n) => comps' \in Seq(SystemType)
  <2>1. [xname |-> n.xname, of |-> at] \in SystemType
    BY <1>1 DEF SystemType
  <2> QED BY <2>1 DEF AddComponent
<1> QED BY <1>1, <1>2, <1>3, <1>4, <1>5

(***************************************************************************)
(* An endpoint that gains a system, a manager or both is one.              *)
(***************************************************************************)
LEMMA EndpointGrows ==
  ASSUME NEW list \in Seq(EndpointType), NEW e \in DOMAIN list,
         NEW systems \in Seq(SystemType), NEW managers \in Seq(Strings)
  PROVE  /\ [list EXCEPT ![e].systems = systems] \in Seq(EndpointType)
         /\ [list EXCEPT ![e].systems = systems, ![e].managers = managers] \in Seq(EndpointType)
         /\ Len([list EXCEPT ![e].systems = systems]) = Len(list)
<1>1. list[e] \in EndpointType
  OBVIOUS
<1>2. /\ [list[e] EXCEPT !.systems = systems] \in EndpointType
      /\ [list[e] EXCEPT !.systems = systems, !.managers = managers] \in EndpointType
  BY <1>1 DEF EndpointType
<1> QED BY <1>2
LEMMA TypeOKEndpoints ==
  ASSUME TypeOK
  PROVE  /\ endpoints \in Seq(EndpointType) /\ comps \in Seq(SystemType)
         /\ ifaces \in Seq(IfaceType)
         /\ DOMAIN endpoints = 1..Len(endpoints) /\ Len(endpoints) \in Nat
         /\ \A e \in DOMAIN endpoints : endpoints[e] \in EndpointType
<1>1. endpoints \in Seq(EndpointType) /\ comps \in Seq(SystemType) /\ ifaces \in Seq(IfaceType)
  BY DEF TypeOK, EndpointType, IfaceType
<1> QED BY <1>1

(***************************************************************************)
(* A node of the older format touches one endpoint, which may be new.      *)
(***************************************************************************)
Was(e) == IF e \in DOMAIN endpoints THEN endpoints[e]
          ELSE Endpoint(BMCXname(file.nodes[at]), file.nodes[at].mac)

DeprecatedEffect(e) ==
  LET n == file.nodes[at]
      x == BMCXname(n)
  IN  /\ n \in Node /\ x \in Strings
      /\ IF n.mac \in DOMAIN keys THEN e = keys[n.mac] /\ e \in DOMAIN endpoints
         ELSE e = Len(endpoints) + 1 /\ e \notin DOMAIN endpoints
      /\ Was(e) \in EndpointType
      /\ endpoints' \in Seq(EndpointType)
      /\ DOMAIN endpoints' = DOMAIN endpoints \cup {e}
      /\ \A d \in DOMAIN endpoints : d # e => endpoints'[d] = endpoints[d]
      /\ endpoints'[e] = [Was(e) EXCEPT
           !.systems = IF HasSystem(n.xname) THEN @ ELSE Append(@, System(n)),
           !.managers = IF HasManager(x) THEN @ ELSE Append(@, x)]
      /\ keys' = MapTo({n.mac}, e)
      /\ ifaces' = IF HasSystem(n.xname) THEN ifaces ELSE ifaces \o Ifaces(n)
      /\ comps' = IF HasComponent(n.xname) THEN comps
                  ELSE Append(comps, [xname |-> n.xname, of |-> at])

LEMMA DeprecatedStep ==
  ASSUME TypeOK, AddDeprecatedNode
  PROVE  \E e \in Nat : DeprecatedEffect(e)
<1> DEFINE n == file.nodes[at]
           x == BMCXname(n)
           known == n.mac \in DOMAIN keys
           new == Endpoint(x, n.mac)
           found == IF known THEN endpoints ELSE Append(endpoints, new)
           e == IF known THEN keys[n.mac] ELSE Len(found)
           S == IF HasSystem(n.xname) THEN Was(e).systems ELSE Append(Was(e).systems, System(n))
           M == IF HasManager(x) THEN Was(e).managers ELSE Append(Was(e).managers, x)
<1>1. n \in Node /\ at \in Nat \ {0} /\ comps \in Seq(SystemType)
  BY EntryTyped, TypeOKEndpoints DEF AddDeprecatedNode, TypeOK
<1>2. n.mac \in Strings /\ x \in Strings /\ System(n) \in SystemType
  BY <1>1, NodeTyped
<1>3. new \in EndpointType
  BY <1>1, <1>2, EndpointTyped
<1>4. endpoints \in Seq(EndpointType) /\ Len(endpoints) \in Nat /\ DOMAIN endpoints = 1..Len(endpoints)
  BY TypeOKEndpoints
<1> HIDE DEF n, x, new
<1>5. /\ found \in Seq(EndpointType) /\ e \in DOMAIN found /\ e \in Nat
      /\ DOMAIN found = DOMAIN endpoints \cup {e}
      /\ found[e] = Was(e) /\ Was(e) \in EndpointType
      /\ \A d \in DOMAIN endpoints : found[d] = endpoints[d]
  <2>1. CASE known
    <3>1. e \in DOMAIN endpoints
      BY <2>1 DEF TypeOK
    <3>2. endpoints[e] \in EndpointType
      BY <1>4, <3>1
    <3> QED BY <1>4, <2>1, <3>1, <3>2 DEF Was
  <2>2. CASE ~known
    <3>1. Was(Len(endpoints) + 1) = new
      BY <1>4 DEF Was, new, x, n
    <3>2. Len(Append(endpoints, new)) = Len(endpoints) + 1
      BY <1>3, <1>4
    <3> QED BY <1>3, <1>4, <2>2, <3>1, <3>2, Appended
  <2> QED BY <2>1, <2>2
<1>6. IF known THEN e = keys[n.mac] /\ e \in DOMAIN endpoints
      ELSE e = Len(endpoints) + 1 /\ e \notin DOMAIN endpoints
  <2>1. known => e \in DOMAIN endpoints
    BY DEF TypeOK
  <2>2. Len(Append(endpoints, new)) = Len(endpoints) + 1
    BY <1>3, <1>4
  <2> QED BY <1>4, <2>1, <2>2
<1> HIDE DEF found, e
<1>7. S \in Seq(SystemType) /\ M \in Seq(Strings)
  <2>1. Was(e).systems \in Seq(SystemType) /\ Was(e).managers \in Seq(Strings)
    BY <1>5 DEF EndpointType
  <2> QED BY <1>2, <2>1
<1>8. endpoints' = [found EXCEPT ![e].systems = IF ~HasSystem(n.xname) THEN Append(@, System(n)) ELSE @,
                                 ![e].managers = IF HasManager(x) THEN @ ELSE Append(@, x)]
  BY DEF AddDeprecatedNode, found, e, new, x, n
<1>9. endpoints' = [found EXCEPT ![e].systems = S, ![e].managers = M]
  BY <1>5, <1>8 DEF EndpointType
<1>10. endpoints' \in Seq(EndpointType)
  BY <1>5, <1>7, <1>9, EndpointGrows
<1>11. /\ DOMAIN endpoints' = DOMAIN found
       /\ \A d \in DOMAIN found : d # e => endpoints'[d] = found[d]
       /\ endpoints'[e] = [Was(e) EXCEPT !.systems = S, !.managers = M]
  BY <1>5, <1>9
<1>12. /\ keys' = MapTo({n.mac}, e)
       /\ ifaces' = IF HasSystem(n.xname) THEN ifaces ELSE ifaces \o Ifaces(n)
       /\ AddComponent(n)
  BY DEF AddDeprecatedNode, found, e, new, x, n
<1>13. DeprecatedEffect(e)
  BY <1>1, <1>2, <1>5, <1>6, <1>10, <1>11, <1>12 DEF DeprecatedEffect, AddComponent, n, x, EndpointType
<1> QED BY <1>5, <1>13

(***************************************************************************)
(* What a BMC of the new format does: nothing, or a new endpoint.          *)
(***************************************************************************)
BMCEffect ==
  LET b == file.bmcs[at]
      new == [Endpoint(b.xname, b.mac) EXCEPT !.managers = <<b.xname>>]
  IN  /\ b \in BMC
      /\ IF Found(b) THEN keys' = keys /\ endpoints' = endpoints
         ELSE /\ endpoints' = Append(endpoints, new) /\ new \in EndpointType
              /\ keys' = MapTo(BMCKeys(b), Len(endpoints) + 1)

LEMMA BMCStep ==
  ASSUME TypeOK, AddBMC
  PROVE  BMCEffect
<1> DEFINE b == file.bmcs[at]
           new == [Endpoint(b.xname, b.mac) EXCEPT !.managers = <<b.xname>>]
<1>1. b \in BMC /\ at \in Nat \ {0}
  BY EntryTyped DEF TypeOK, AddBMC
<1>2. Endpoint(b.xname, b.mac) \in EndpointType /\ <<b.xname>> \in Seq(Strings)
  BY <1>1, EndpointTyped DEF BMC
<1>3. new \in EndpointType
  BY <1>2 DEF EndpointType
<1> QED BY <1>1, <1>3 DEF AddBMC, BMCEffect, KnownAs, BMCKeys

(***************************************************************************)
(* What a node of the new format with a BMC does.                          *)
(***************************************************************************)
NodeEffect(e) ==
  LET n == file.nodes[at]
  IN  /\ n \in Node /\ e = keys[ResolveBMC(n)] /\ e \in DOMAIN endpoints
      /\ endpoints[e] \in EndpointType
      /\ IF HasSystem(n.xname) THEN endpoints' = endpoints /\ ifaces' = ifaces
         ELSE /\ endpoints' = [endpoints EXCEPT ![e].systems = Append(endpoints[e].systems, System(n))]
              /\ endpoints' \in Seq(EndpointType)
              /\ ifaces' = ifaces \o Ifaces(n)

LEMMA NodeStep ==
  ASSUME TypeOK, AddNode
  PROVE  \E e \in Nat : NodeEffect(e)
<1> DEFINE n == file.nodes[at]
           e == keys[ResolveBMC(n)]
           more == Append(endpoints[e].systems, System(n))
<1>1. n \in Node /\ at \in Nat \ {0} /\ comps \in Seq(SystemType)
  BY EntryTyped, TypeOKEndpoints DEF AddNode, TypeOK
<1>2. System(n) \in SystemType
  BY <1>1, NodeTyped
<1>3. endpoints \in Seq(EndpointType) /\ DOMAIN endpoints = 1..Len(endpoints)
  BY TypeOKEndpoints
<1>4. e \in DOMAIN endpoints
  BY DEF TypeOK, AddNode, Resolves
<1> HIDE DEF n, e
<1>5. endpoints[e] \in EndpointType /\ e \in Nat
  BY <1>3, <1>4
<1>6. more \in Seq(SystemType)
  <2>1. endpoints[e].systems \in Seq(SystemType)
    BY <1>5 DEF EndpointType
  <2> QED BY <1>2, <2>1
<1> HIDE DEF more
<1>7. [endpoints EXCEPT ![e].systems = more] \in Seq(EndpointType)
  <2>1. endpoints[e].managers \in Seq(Strings)
    BY <1>5 DEF EndpointType
  <2> QED BY <1>3, <1>4, <1>6, <2>1, EndpointGrows
<1>8. IF HasSystem(n.xname) THEN endpoints' = endpoints /\ ifaces' = ifaces
      ELSE /\ endpoints' = [endpoints EXCEPT ![e].systems = more]
           /\ ifaces' = ifaces \o Ifaces(n)
  BY DEF AddNode, n, e, more
<1>9. NodeEffect(e)
  BY <1>1, <1>4, <1>5, <1>7, <1>8 DEF NodeEffect, n, e, more
<1> QED BY <1>5, <1>9

(***************************************************************************)
(* A converted file is a file.                                             *)
(***************************************************************************)
LEMMA LeastExists ==
  ASSUME NEW S, S \subseteq Nat, S # {}
  PROVE  /\ Min(S) \in S
         /\ \A y \in S : Min(S) <= y
<1> DEFINE Less == OpToRel(<, Nat)
<1>1. IsWellFoundedOn(Less, Nat)
  BY NatLessThanWellFounded, Zenon
<1>2. \A m, n \in Nat : m < n => <<m, n>> \in Less
  BY Zenon DEF OpToRel
<1> HIDE DEF Less
<1>3. PICK x \in S : \A y \in S : ~(<<y, x>> \in Less)
  BY <1>1, WFMin
<1>4. ASSUME NEW y \in S PROVE x <= y
  <2>1. x \in Nat /\ y \in Nat
    OBVIOUS
  <2>2. ~(y < x)
    BY <1>2, <1>3, <2>1
  <2> QED BY <2>1, <2>2
<1>5. \E m \in S : \A y \in S : m <= y
  BY <1>4
<1> QED BY <1>5 DEF Min

LEMMA ConvertedTyped ==
  ASSUME NEW nodes \in Seq(Node), NEW bmcs \in SetToSeqs(ConvertedBMCs(nodes))
  PROVE  [bmcs |-> bmcs, nodes |-> [i \in DOMAIN nodes |-> ConvertedNode(nodes[i])]] \in File
<1> DEFINE x(i) == DeriveBMCXname(nodes[i].xname)
           S == ConvertedBMCs(nodes)
           f == [i \in 1..Len(nodes) |-> ConvertedBMC(nodes, x(i))]
<1>1. Len(nodes) \in Nat /\ DOMAIN nodes = 1..Len(nodes) /\ \A i \in DOMAIN nodes : nodes[i] \in Node
  OBVIOUS
<1>2. \A i \in DOMAIN nodes : nodes[i].xname \in Strings /\ nodes[i].mac \in Strings /\ x(i) \in Strings
  BY <1>1, XnameTyped DEF Node
<1>3. \A i \in DOMAIN nodes : ConvertedNode(nodes[i]) \in Node
  BY <1>1, <1>2, XnameTyped DEF ConvertedNode, Node
<1>4. S = {ConvertedBMC(nodes, x(i)) : i \in DOMAIN nodes}
  BY DEF ConvertedBMCs, Range
<1>5. \A y \in Strings : ConvertedBMC(nodes, y) \in BMC
  <2> SUFFICES ASSUME NEW y \in Strings PROVE ConvertedBMC(nodes, y) \in BMC
    OBVIOUS
  <2> DEFINE given == {i \in DOMAIN nodes : DeriveBMCXname(nodes[i].xname) = y /\ nodes[i].mac # None}
  <2>1. given \subseteq Nat /\ given \subseteq DOMAIN nodes
    BY <1>1
  <2>2. given # {} => Min(given) \in given
    <3> HIDE DEF given
    <3> QED BY <2>1, LeastExists
  <2>3. (IF given = {} THEN None ELSE nodes[Min(given)].mac) \in Strings
    <3> HIDE DEF given
    <3> QED BY <1>2, <2>1, <2>2, XnameTyped
  <2>4. None \in Strings
    BY XnameTyped
  <2> QED BY <2>3, <2>4 DEF ConvertedBMC, BMC
<1>6. S \subseteq BMC
  <2> HIDE DEF S
  <2> QED BY <1>2, <1>4, <1>5
<1>7. IsFiniteSet(S)
  <2>1. f \in Surjection(1..Len(nodes), S)
    <3> HIDE DEF S, x
    <3> QED BY <1>1, <1>4 DEF Surjection
  <2>2. IsFiniteSet(1..Len(nodes))
    BY <1>1, FS_Interval
  <2> HIDE DEF f, S
  <2> QED BY <2>1, <2>2, FS_Surjection
<1>8. Cardinality(S) \in Nat
  <2> HIDE DEF S
  <2> QED BY <1>7, FS_CardinalityType
<1>9. bmcs \in [1..Cardinality(S) -> S]
  BY DEF SetToSeqs
<1>10. bmcs \in Seq(BMC)
  <2> HIDE DEF S
  <2> QED BY <1>6, <1>8, <1>9
<1>11. [i \in DOMAIN nodes |-> ConvertedNode(nodes[i])] \in Seq(Node)
  BY <1>1, <1>3
<1> QED BY <1>10, <1>11 DEF File

-----------------------------------------------------------------------------
(* The types *)

(***************************************************************************)
(* The parts of the type invariant that steps change together.             *)
(***************************************************************************)
KeysTyped ==
  /\ DOMAIN keys \subseteq Strings
  /\ \A k \in DOMAIN keys : keys[k] \in DOMAIN endpoints
  /\ endpoints \in Seq(EndpointType)

LEMMA TypeParts ==
  TypeOK <=> /\ file \in File
             /\ phase \in Phases /\ at \in Nat \ {0}
             /\ KeysTyped /\ comps \in Seq(SystemType) /\ ifaces \in Seq(IfaceType)
             /\ groups \in [Groups -> Seq(Strings)]
             /\ Len(before) \in {0, 1}
BY DEF TypeOK, KeysTyped, EndpointType, IfaceType

LEMMA KeysMapped ==
  ASSUME TypeOK, NEW ks, ks \subseteq Strings, NEW e, NEW S, DOMAIN endpoints \subseteq S, e \in S
  PROVE  /\ DOMAIN MapTo(ks, e) \subseteq Strings
         /\ \A k \in DOMAIN MapTo(ks, e) : MapTo(ks, e)[k] \in S
<1>1. DOMAIN keys \subseteq Strings /\ \A k \in DOMAIN keys : keys[k] \in DOMAIN endpoints
  BY DEF TypeOK
<1> QED BY <1>1 DEF MapTo

LEMMA NothingBuilt ==
  ASSUME NEW none, none = [k \in {} |-> 0]
  PROVE  /\ DOMAIN none = {} /\ <<>> \in Seq(EndpointType)
         /\ <<>> \in Seq(SystemType) /\ <<>> \in Seq(IfaceType)
         /\ [g \in Groups |-> <<>>] \in [Groups -> Seq(Strings)]
         /\ 1 \in Nat \ {0} /\ Len(<<>>) = 0 /\ \A r : Len(<<r>>) = 1
OBVIOUS

LEMMA AddBMCTyped ==
  ASSUME TypeOK, AddBMC
  PROVE  KeysTyped'
<1> DEFINE b == file.bmcs[at]
           new == [Endpoint(b.xname, b.mac) EXCEPT !.managers = <<b.xname>>]
<1>1. BMCEffect
  BY BMCStep
<1>2. /\ endpoints \in Seq(EndpointType) /\ Len(endpoints) \in Nat
      /\ DOMAIN endpoints = 1..Len(endpoints)
  BY TypeOKEndpoints
<1>3. CASE Found(b)
  <2>1. keys' = keys /\ endpoints' = endpoints
    BY <1>1, <1>3 DEF BMCEffect
  <2> QED BY <2>1, TypeParts DEF KeysTyped
<1>4. CASE ~Found(b)
  <2>1. /\ endpoints' = Append(endpoints, new) /\ new \in EndpointType
        /\ keys' = MapTo(BMCKeys(b), Len(endpoints) + 1)
    BY <1>1, <1>4 DEF BMCEffect
  <2>2. BMCKeys(b) \subseteq Strings
    BY <1>1 DEF BMCEffect, BMCKeys, BMC
  <2> HIDE DEF b, new
  <2>3. endpoints' \in Seq(EndpointType) /\ DOMAIN endpoints' = 1..(Len(endpoints) + 1)
    BY <1>2, <2>1
  <2>4. /\ DOMAIN endpoints \subseteq DOMAIN endpoints'
        /\ Len(endpoints) + 1 \in DOMAIN endpoints'
    BY <1>2, <2>3
  <2>5. /\ DOMAIN keys' \subseteq Strings
        /\ \A k \in DOMAIN keys' : keys'[k] \in DOMAIN endpoints'
    BY <2>1, <2>2, <2>4, KeysMapped
  <2> QED BY <2>3, <2>5 DEF KeysTyped
<1> QED BY <1>3, <1>4

LEMMA AddNodeTyped ==
  ASSUME TypeOK, AddNode
  PROVE  KeysTyped' /\ ifaces' \in Seq(IfaceType)
<1>1. PICK e \in Nat : NodeEffect(e)
  BY NodeStep
<1> DEFINE n == file.nodes[at]
<1>2. n \in Node /\ at \in Nat \ {0} /\ comps \in Seq(SystemType) /\ ifaces \in Seq(IfaceType)
  BY <1>1, TypeOKEndpoints DEF NodeEffect, TypeOK
<1>3. ifaces' \in Seq(IfaceType)
  <2>1. Ifaces(n) \in Seq(IfaceType)
    BY <1>2, NodeTyped
  <2>2. ifaces' = ifaces \/ ifaces' = ifaces \o Ifaces(n)
    BY <1>1 DEF NodeEffect
  <2>3. ifaces \o Ifaces(n) \in Seq(IfaceType)
    <3> HIDE DEF n
    <3> QED BY <1>2, <2>1
  <2> QED BY <1>2, <2>2, <2>3
<1>4. DOMAIN endpoints' = DOMAIN endpoints /\ endpoints' \in Seq(EndpointType)
  BY <1>1, TypeOKEndpoints DEF NodeEffect
<1>5. keys' = keys
  BY DEF AddNode
<1> QED BY <1>3, <1>4, <1>5, TypeParts DEF KeysTyped

LEMMA AddDeprecatedNodeTyped ==
  ASSUME TypeOK, AddDeprecatedNode
  PROVE  KeysTyped' /\ ifaces' \in Seq(IfaceType)
<1>1. PICK e \in Nat : DeprecatedEffect(e)
  BY DeprecatedStep
<1> DEFINE n == file.nodes[at]
<1>2. n \in Node /\ at \in Nat \ {0} /\ comps \in Seq(SystemType) /\ ifaces \in Seq(IfaceType)
  BY <1>1, TypeOKEndpoints DEF DeprecatedEffect, TypeOK
<1>3. ifaces' \in Seq(IfaceType)
  <2>1. Ifaces(n) \in Seq(IfaceType)
    BY <1>2, NodeTyped
  <2>2. ifaces' = ifaces \/ ifaces' = ifaces \o Ifaces(n)
    BY <1>1 DEF DeprecatedEffect
  <2>3. ifaces \o Ifaces(n) \in Seq(IfaceType)
    <3> HIDE DEF n
    <3> QED BY <1>2, <2>1
  <2> QED BY <1>2, <2>2, <2>3
<1>4. /\ endpoints' \in Seq(EndpointType)
      /\ DOMAIN endpoints' = DOMAIN endpoints \cup {e}
      /\ keys' = MapTo({n.mac}, e)
  BY <1>1 DEF DeprecatedEffect
<1>5. {n.mac} \subseteq Strings
  BY <1>2 DEF Node
<1>6. /\ DOMAIN keys' \subseteq Strings
      /\ \A k \in DOMAIN keys' : keys'[k] \in DOMAIN endpoints'
  <2> HIDE DEF n
  <2>1. DOMAIN endpoints \subseteq DOMAIN endpoints' /\ e \in DOMAIN endpoints'
    BY <1>4
  <2> QED BY <1>4, <1>5, <2>1, KeysMapped
<1> QED BY <1>3, <1>4, <1>6 DEF KeysTyped

LEMMA AddToGroupsTyped ==
  ASSUME TypeOK, AddToGroups
  PROVE  groups' \in [Groups -> Seq(Strings)]
<1> DEFINE x == file.nodes[at].xname
<1>1. x \in Strings
  <2>1. file.nodes[at] \in Node
    BY EntryTyped DEF AddToGroups, TypeOK
  <2> QED BY <2>1 DEF Node
<1> HIDE DEF x
<1>2. ASSUME NEW g \in Groups PROVE AddMemberToGroup(groups[g], x) \in Seq(Strings)
  <2>1. groups[g] \in Seq(Strings)
    BY DEF TypeOK
  <2> QED BY <1>1, <2>1 DEF AddMemberToGroup
<1>3. groups' = [g \in Groups |-> IF g \in Range(file.nodes[at].groups)
                                  THEN AddMemberToGroup(groups[g], x) ELSE groups[g]]
  BY DEF AddToGroups, x
<1> QED BY <1>2, <1>3 DEF TypeOK

LEMMA TypeStep ==
  ASSUME TypeOK, [Next]_vars
  PROVE  TypeOK'
<1> USE DEF KeysTyped
<1>1. /\ file \in File /\ phase \in Phases /\ at \in Nat \ {0}
      /\ KeysTyped /\ comps \in Seq(SystemType) /\ ifaces \in Seq(IfaceType)
      /\ groups \in [Groups -> Seq(Strings)] /\ Len(before) \in {0, 1}
  BY TypeParts
<1> SUFFICES /\ file' \in File /\ phase' \in Phases /\ at' \in Nat \ {0}
             /\ KeysTyped' /\ comps' \in Seq(SystemType) /\ ifaces' \in Seq(IfaceType)
             /\ groups' \in [Groups -> Seq(Strings)] /\ Len(before') \in {0, 1}
  BY DEF TypeOK, EndpointType, IfaceType
<1>2. at + 1 \in Nat \ {0}
  BY <1>1
<1>3. at \in DOMAIN file.nodes => (AddComponent(file.nodes[at]) => comps' \in Seq(SystemType))
  <2> SUFFICES ASSUME at \in DOMAIN file.nodes PROVE AddComponent(file.nodes[at]) => comps' \in Seq(SystemType)
    OBVIOUS
  <2>1. file.nodes[at] \in Node
    BY <1>1, EntryTyped
  <2> QED BY <1>1, <2>1, NodeTyped
<1>4. CASE ChooseFormat
  BY <1>1, <1>4 DEF ChooseFormat, Enter, built, Phases
<1>5. CASE NextLoop
  BY <1>1, <1>5 DEF NextLoop, Enter, built, Phases
<1>6. CASE AddBMC
  BY <1>1, <1>2, <1>6, AddBMCTyped DEF AddBMC, Advance
<1>7. CASE AddUnresolvedNode
  BY <1>1, <1>2, <1>3, <1>7 DEF AddUnresolvedNode, Advance
<1>8. CASE AddNode
  <2>1. AddComponent(file.nodes[at]) /\ at \in DOMAIN file.nodes /\ Advance /\ UNCHANGED groups
    BY <1>8 DEF AddNode
  <2> QED BY <1>1, <1>2, <1>3, <1>8, <2>1, AddNodeTyped DEF Advance
<1>9. CASE PanicOnNode
  BY <1>1, <1>9 DEF PanicOnNode, Panic, built, Phases
<1>10. CASE AddDeprecatedNode
  <2>1. AddComponent(file.nodes[at]) /\ at \in DOMAIN file.nodes /\ Advance /\ UNCHANGED groups
    BY <1>10 DEF AddDeprecatedNode
  <2> QED BY <1>1, <1>2, <1>3, <1>10, <2>1, AddDeprecatedNodeTyped DEF Advance
<1>11. CASE PanicOnDeprecatedNode
  BY <1>1, <1>11 DEF PanicOnDeprecatedNode, Panic, built, Phases
<1>12. CASE AddToGroups
  BY <1>1, <1>2, <1>12, AddToGroupsTyped DEF AddToGroups, Advance
<1>13. CASE Convert
  <2>1. file.nodes \in Seq(Node)
    BY <1>1 DEF File
  <2>2. file' \in File
    BY <1>13, <2>1, ConvertedTyped DEF Convert
  <2> QED BY <1>13, <2>2, NothingBuilt DEF Convert, Enter, Phases
<1>14. CASE UNCHANGED vars
  BY <1>1, <1>14 DEF vars, built
<1> QED BY <1>4, <1>5, <1>6, <1>7, <1>8, <1>9, <1>10, <1>11, <1>12, <1>13, <1>14 DEF Next, Ended

LEMMA TypeInit == Init => TypeOK
<1> SUFFICES ASSUME Init PROVE TypeOK
  OBVIOUS
<1>1. file \in File
  BY FileAssumption DEF Init
<1> QED BY <1>1, NothingBuilt, TypeParts DEF Init, KeysTyped, Phases

(***************************************************************************)
(* Reading and converting a file keeps the types, and every key of the map *)
(* of BMCs leads to an endpoint that has been made.                        *)
(***************************************************************************)
THEOREM TypeCorrect == Spec => []TypeOK
BY TypeInit, TypeStep, PTL DEF Spec

-----------------------------------------------------------------------------
(* Everything once *)

(***************************************************************************)
(* Where the command is in the file, and what it has built by then.        *)
(***************************************************************************)
ShapeInv ==
  /\ phase = "format" =>
       /\ DOMAIN keys = {} /\ endpoints = <<>> /\ comps = <<>> /\ ifaces = <<>>
       /\ groups = [g \in Groups |-> <<>>]
  /\ phase \in {"bmcs", "nodes"} => ~DeprecatedFormat(file)
  /\ phase = "deprecated" => DeprecatedFormat(file)

LEMMA ShapeStep ==
  ASSUME ShapeInv, [Next]_vars
  PROVE  ShapeInv'
<1>1. CASE ChooseFormat
  BY <1>1 DEF ChooseFormat, Enter, ShapeInv, DeprecatedFormat
<1>2. CASE NextLoop
  BY <1>2 DEF NextLoop, Enter, ShapeInv, DeprecatedFormat
<1>3. CASE AddBMC
  BY <1>3 DEF AddBMC, Advance, ShapeInv, DeprecatedFormat
<1>4. CASE AddUnresolvedNode
  BY <1>4 DEF AddUnresolvedNode, Advance, ShapeInv, DeprecatedFormat
<1>5. CASE AddNode
  BY <1>5 DEF AddNode, Advance, ShapeInv, DeprecatedFormat
<1>6. CASE PanicOnNode \/ PanicOnDeprecatedNode
  BY <1>6 DEF PanicOnNode, PanicOnDeprecatedNode, Panic, ShapeInv
<1>7. CASE AddDeprecatedNode
  <2>1. phase = "deprecated" /\ UNCHANGED <<phase, file>>
    BY <1>7 DEF AddDeprecatedNode, Advance
  <2> QED BY <2>1 DEF ShapeInv, DeprecatedFormat
<1>8. CASE AddToGroups
  <2>1. phase = "groups" /\ UNCHANGED phase
    BY <1>8 DEF AddToGroups, Advance
  <2> QED BY <2>1 DEF ShapeInv
<1>9. CASE Convert
  BY <1>9 DEF Convert, Enter, ShapeInv
<1>10. CASE UNCHANGED vars
  BY <1>10 DEF vars, built, ShapeInv, DeprecatedFormat
<1> QED BY <1>1, <1>2, <1>3, <1>4, <1>5, <1>6, <1>7, <1>8, <1>9, <1>10 DEF Next, Ended

LEMMA ShapeHolds == Spec => []ShapeInv
<1>1. Init => ShapeInv
  BY DEF Init, ShapeInv
<1> QED BY <1>1, ShapeStep, PTL DEF Spec

CompsOnce == \A i, j \in DOMAIN comps : comps[i].xname = comps[j].xname => i = j

(***************************************************************************)
(* Every endpoint is still found by its MAC address.                       *)
(***************************************************************************)
MacsOnce ==
  /\ \A e \in DOMAIN endpoints : endpoints[e].mac \in DOMAIN keys
  /\ \A d, e \in DOMAIN endpoints : endpoints[d].mac = endpoints[e].mac => d = e

SystemsOnce ==
  \A d, e \in DOMAIN endpoints :
    \A i \in DOMAIN endpoints[d].systems, j \in DOMAIN endpoints[e].systems :
      endpoints[d].systems[i].xname = endpoints[e].systems[j].xname => d = e /\ i = j

ManagersOnce ==
  DeprecatedFormat(file) =>
    \A d, e \in DOMAIN endpoints :
      \A i \in DOMAIN endpoints[d].managers, j \in DOMAIN endpoints[e].managers :
        endpoints[d].managers[i] = endpoints[e].managers[j] => d = e /\ i = j

(***************************************************************************)
(* A list of endpoints has a system for the xname x.                       *)
(***************************************************************************)
HasIn(list, x) ==
  \E e \in DOMAIN list : \E i \in DOMAIN list[e].systems : list[e].systems[i].xname = x

LEMMA HasSystemAt ==
  ASSUME NEW x
  PROVE  /\ HasSystem(x) <=> HasIn(endpoints, x)
         /\ HasSystem(x)' <=> HasIn(endpoints', x)
BY DEF HasSystem, HasIn, Systems, Range

(***************************************************************************)
(* Interfaces come with the system of their node.                          *)
(***************************************************************************)
IfacesOnce ==
  /\ \A i, j \in DOMAIN ifaces : ifaces[i] = ifaces[j] => i = j
  /\ \A i, j \in DOMAIN ifaces : ifaces[i].xname = ifaces[j].xname => ifaces[i].of = ifaces[j].of
  /\ \A i \in DOMAIN ifaces : HasIn(endpoints, ifaces[i].xname)

GroupsOnce ==
  \A g \in Groups : \A i, j \in DOMAIN groups[g] : groups[g][i] = groups[g][j] => i = j

OnceInv == CompsOnce /\ MacsOnce /\ SystemsOnce /\ ManagersOnce /\ IfacesOnce /\ GroupsOnce

(***************************************************************************)
(* A node has a component from now on, and no other xname gets one.        *)
(***************************************************************************)
ComponentIn(list, x) == \E i \in DOMAIN list : list[i].xname = x

LEMMA ComponentAdded ==
  ASSUME TypeOK, at \in DOMAIN file.nodes, AddComponent(file.nodes[at]), NEW x
  PROVE  ComponentIn(comps', x) <=> ComponentIn(comps, x) \/ x = file.nodes[at].xname
<1> DEFINE n == file.nodes[at]
           new == [xname |-> n.xname, of |-> at]
<1>1. n \in Node /\ at \in Nat /\ comps \in Seq(SystemType)
  BY EntryTyped, TypeOKEndpoints DEF TypeOK
<1>2. new \in SystemType /\ new.xname = n.xname
  BY <1>1 DEF SystemType, Node
<1>3. HasComponent(n.xname) <=> ComponentIn(comps, n.xname)
  BY DEF HasComponent, ComponentIn, Range
<1>4. (comps' = comps /\ HasComponent(n.xname)) \/ comps' = Append(comps, new)
  BY DEF AddComponent
<1> HIDE DEF new, n
<1>5. CASE comps' = comps /\ HasComponent(n.xname)
  BY <1>3, <1>5 DEF n
<1>6. CASE comps' = Append(comps, new)
  <2>1. /\ Len(comps) \in Nat /\ DOMAIN comps = 1..Len(comps)
        /\ DOMAIN comps' = 1..(Len(comps) + 1) /\ comps'[Len(comps) + 1] = new
        /\ \A i \in DOMAIN comps : comps'[i] = comps[i]
    BY <1>1, <1>2, <1>6, Appended
  <2>2. DOMAIN comps' = DOMAIN comps \cup {Len(comps) + 1}
    BY <2>1
  <2> QED BY <1>2, <2>1, <2>2 DEF ComponentIn, n
<1> QED BY <1>4, <1>5, <1>6

LEMMA AddComponentOnce ==
  ASSUME NEW n, comps \in Seq(SystemType), [xname |-> n.xname, of |-> at] \in SystemType,
         AddComponent(n), CompsOnce
  PROVE  CompsOnce'
<1> DEFINE new == [xname |-> n.xname, of |-> at]
<1>1. CASE HasComponent(n.xname)
  <2>1. comps' = comps
    BY <1>1 DEF AddComponent
  <2> QED BY <2>1 DEF CompsOnce
<1>2. CASE ~HasComponent(n.xname)
  <2>1. comps' = Append(comps, new)
    BY <1>2 DEF AddComponent
  <2>2. \A i \in DOMAIN comps : comps[i].xname # n.xname
    BY <1>2 DEF HasComponent, Range
  <2>3. new \in SystemType /\ new.xname = n.xname
    OBVIOUS
  <2> HIDE DEF new
  <2>4. /\ Len(comps) \in Nat /\ DOMAIN comps = 1..Len(comps)
        /\ DOMAIN comps' = 1..(Len(comps) + 1) /\ comps'[Len(comps) + 1] = new
        /\ \A i \in DOMAIN comps : comps'[i] = comps[i]
    BY <2>1, <2>3, Appended
  <2>5. \A i \in DOMAIN comps' : i \in DOMAIN comps \/ i = Len(comps) + 1
    BY <2>4
  <2> QED BY <2>2, <2>3, <2>4, <2>5 DEF CompsOnce
<1> QED BY <1>1, <1>2

(***************************************************************************)
(* What a node does to the systems, in either format.                      *)
(***************************************************************************)
Had(e) == IF e \in DOMAIN endpoints THEN endpoints[e].systems ELSE <<>>

Gains(e, n) ==
  /\ System(n) \in SystemType /\ Had(e) \in Seq(SystemType)
  /\ DOMAIN endpoints' = DOMAIN endpoints \cup {e}
  /\ \A d \in DOMAIN endpoints : d # e => endpoints'[d] = endpoints[d]
  /\ endpoints'[e].systems = IF HasSystem(n.xname) THEN Had(e) ELSE Append(Had(e), System(n))
  /\ ifaces' = IF HasSystem(n.xname) THEN ifaces ELSE ifaces \o Ifaces(n)

(***************************************************************************)
(* It gets a system, or has one, and those of the others stay.             *)
(***************************************************************************)
LEMMA GainsServed ==
  ASSUME NEW e, NEW n, Gains(e, n)
  PROVE  /\ HasIn(endpoints', n.xname)
         /\ \A x : HasIn(endpoints, x) => HasIn(endpoints', x)
<1>1. \A d \in DOMAIN endpoints : \A i \in DOMAIN endpoints[d].systems :
        i \in DOMAIN endpoints'[d].systems /\ endpoints'[d].systems[i] = endpoints[d].systems[i]
  <2> SUFFICES ASSUME NEW d \in DOMAIN endpoints, NEW i \in DOMAIN endpoints[d].systems
               PROVE  i \in DOMAIN endpoints'[d].systems /\ endpoints'[d].systems[i] = endpoints[d].systems[i]
    OBVIOUS
  <2>1. CASE d # e
    BY <2>1 DEF Gains
  <2>2. CASE d = e
    <3>1. Had(e) = endpoints[d].systems
      BY <2>2 DEF Had
    <3>2. CASE HasSystem(n.xname)
      BY <2>2, <3>1, <3>2 DEF Gains
    <3>3. CASE ~HasSystem(n.xname)
      <4>1. endpoints'[e].systems = Append(Had(e), System(n))
        BY <3>3 DEF Gains
      <4>2. /\ DOMAIN Had(e) = 1..Len(Had(e)) /\ Len(Had(e)) \in Nat
            /\ DOMAIN endpoints'[e].systems = 1..(Len(Had(e)) + 1)
            /\ \A k \in DOMAIN Had(e) : endpoints'[e].systems[k] = Had(e)[k]
        BY <4>1, Appended DEF Gains
      <4> QED BY <2>2, <3>1, <4>2
    <3> QED BY <3>2, <3>3
  <2> QED BY <2>1, <2>2
<1>2. DOMAIN endpoints' = DOMAIN endpoints \cup {e}
  BY DEF Gains
<1>3. \A x : HasIn(endpoints, x) => HasIn(endpoints', x)
  BY <1>1, <1>2 DEF HasIn
<1>4. CASE HasSystem(n.xname)
  BY <1>3, <1>4, HasSystemAt
<1>5. CASE ~HasSystem(n.xname)
  <2>1. endpoints'[e].systems = Append(Had(e), System(n)) /\ System(n).xname = n.xname
    BY <1>5 DEF Gains, System
  <2>2. /\ Len(Had(e)) + 1 \in DOMAIN endpoints'[e].systems
        /\ endpoints'[e].systems[Len(Had(e)) + 1] = System(n)
    BY <2>1, Appended DEF Gains
  <2> QED BY <1>2, <1>3, <2>1, <2>2 DEF HasIn
<1> QED BY <1>3, <1>4, <1>5

(***************************************************************************)
(* No other xname gets one.                                                *)
(***************************************************************************)
LEMMA GainsOnly ==
  ASSUME NEW e, NEW n, Gains(e, n), NEW x, HasIn(endpoints', x)
  PROVE  HasIn(endpoints, x) \/ x = n.xname
<1>1. PICK d \in DOMAIN endpoints' : \E i \in DOMAIN endpoints'[d].systems : endpoints'[d].systems[i].xname = x
  BY DEF HasIn
<1>2. PICK i \in DOMAIN endpoints'[d].systems : endpoints'[d].systems[i].xname = x
  BY <1>1
<1>3. CASE d # e
  <2>1. d \in DOMAIN endpoints /\ endpoints'[d] = endpoints[d]
    BY <1>3 DEF Gains
  <2> QED BY <1>2, <2>1 DEF HasIn
<1>4. CASE d = e
  <2>1. (i \in DOMAIN Had(e) /\ Had(e)[i].xname = x) \/ x = n.xname
    <3>1. CASE HasSystem(n.xname)
      BY <1>2, <1>4, <3>1 DEF Gains
    <3>2. CASE ~HasSystem(n.xname)
      <4>1. endpoints'[e].systems = Append(Had(e), System(n))
        BY <3>2 DEF Gains
      <4>2. /\ DOMAIN Had(e) = 1..Len(Had(e)) /\ Len(Had(e)) \in Nat
            /\ DOMAIN endpoints'[e].systems = 1..(Len(Had(e)) + 1)
            /\ endpoints'[e].systems[Len(Had(e)) + 1] = System(n)
            /\ \A k \in DOMAIN Had(e) : endpoints'[e].systems[k] = Had(e)[k]
        BY <4>1, Appended DEF Gains
      <4>3. System(n).xname = n.xname
        BY DEF System
      <4>4. i \in DOMAIN Had(e) \/ i = Len(Had(e)) + 1
        BY <1>2, <1>4, <4>2
      <4> QED BY <1>2, <1>4, <4>2, <4>3, <4>4
    <3> QED BY <3>1, <3>2
  <2>2. i \in DOMAIN Had(e) => e \in DOMAIN endpoints /\ Had(e) = endpoints[e].systems
    BY DEF Had
  <2> QED BY <2>1, <2>2 DEF HasIn
<1> QED BY <1>3, <1>4

LEMMA GainsSystems ==
  ASSUME NEW e, NEW n, Gains(e, n), SystemsOnce
  PROVE  SystemsOnce'
<1> DEFINE Old(d, i) == /\ d \in DOMAIN endpoints /\ i \in DOMAIN endpoints[d].systems
                        /\ endpoints'[d].systems[i] = endpoints[d].systems[i]
           New(d, i) == /\ ~HasSystem(n.xname) /\ d = e /\ i = Len(Had(e)) + 1
                        /\ endpoints'[d].systems[i].xname = n.xname
<1>1. System(n).xname = n.xname
  BY DEF System
<1>2. ASSUME ~HasSystem(n.xname)
      PROVE  /\ Len(Had(e)) \in Nat
             /\ DOMAIN Had(e) = 1..Len(Had(e))
             /\ DOMAIN endpoints'[e].systems = 1..(Len(Had(e)) + 1)
             /\ endpoints'[e].systems[Len(Had(e)) + 1] = System(n)
             /\ \A i \in DOMAIN Had(e) : endpoints'[e].systems[i] = Had(e)[i]
  <2>1. endpoints'[e].systems = Append(Had(e), System(n))
    BY <1>2 DEF Gains
  <2> QED BY <2>1, Appended DEF Gains
<1>3. ASSUME NEW d \in DOMAIN endpoints, NEW i \in DOMAIN endpoints[d].systems
      PROVE  i \in DOMAIN endpoints'[d].systems /\ Old(d, i)
  <2>1. CASE d # e
    BY <2>1 DEF Gains
  <2>2. CASE d = e /\ HasSystem(n.xname)
    BY <2>2 DEF Gains, Had
  <2>3. CASE d = e /\ ~HasSystem(n.xname)
    <3>1. Had(e) = endpoints[d].systems
      BY <2>3 DEF Had
    <3> QED BY <1>2, <2>3, <3>1
  <2> QED BY <2>1, <2>2, <2>3
<1>4. ASSUME NEW d \in DOMAIN endpoints', NEW i \in DOMAIN endpoints'[d].systems
      PROVE  Old(d, i) \/ New(d, i)
  <2>1. d \in DOMAIN endpoints \/ d = e
    BY DEF Gains
  <2>2. CASE d # e
    BY <2>1, <2>2 DEF Gains
  <2>3. CASE d = e /\ i \in DOMAIN Had(e)
    <3>1. d \in DOMAIN endpoints /\ i \in DOMAIN endpoints[d].systems
      BY <2>3 DEF Had
    <3> QED BY <1>3, <3>1
  <2>4. CASE d = e /\ i \notin DOMAIN Had(e)
    <3>1. ~HasSystem(n.xname)
      BY <2>4 DEF Gains
    <3>2. i = Len(Had(e)) + 1
      BY <1>2, <2>4, <3>1
    <3> QED BY <1>1, <1>2, <2>4, <3>1, <3>2
  <2> QED BY <2>2, <2>3, <2>4
<1>5. ASSUME NEW d, NEW i, NEW c, NEW j, Old(d, i), New(c, j),
             endpoints'[d].systems[i].xname = endpoints'[c].systems[j].xname
      PROVE  FALSE
  BY <1>5, HasSystemAt DEF HasIn
<1> SUFFICES ASSUME NEW d \in DOMAIN endpoints', NEW c \in DOMAIN endpoints',
                    NEW i \in DOMAIN endpoints'[d].systems, NEW j \in DOMAIN endpoints'[c].systems,
                    endpoints'[d].systems[i].xname = endpoints'[c].systems[j].xname
             PROVE  d = c /\ i = j
  BY DEF SystemsOnce
<1>6. (Old(d, i) \/ New(d, i)) /\ (Old(c, j) \/ New(c, j))
  BY <1>4
<1>7. CASE Old(d, i) /\ Old(c, j)
  BY <1>7 DEF SystemsOnce
<1>8. CASE New(d, i) /\ New(c, j)
  BY <1>8
<1> HIDE DEF Old, New
<1> QED BY <1>5, <1>6, <1>7, <1>8

LEMMA GainsIfaces ==
  ASSUME NEW e, NEW n, Gains(e, n), IfacesOnce, Ifaces(n) \in Seq(IfaceType),
         n.ifaces \in Seq(Seq(Address)), ifaces \in Seq(IfaceType)
  PROVE  IfacesOnce'
<1>1. \A x : HasIn(endpoints, x) => HasIn(endpoints', x)
  BY GainsServed
<1>2. HasIn(endpoints', n.xname)
  BY GainsServed
<1>3. CASE HasSystem(n.xname)
  <2>1. ifaces' = ifaces
    BY <1>3 DEF Gains
  <2>2. \A i \in DOMAIN ifaces' : HasIn(endpoints', ifaces[i].xname)
    BY <1>1, <2>1 DEF IfacesOnce
  <2> QED BY <2>1, <2>2 DEF IfacesOnce
<1>4. CASE ~HasSystem(n.xname)
  <2> DEFINE more == Ifaces(n)
  <2>1. ifaces' = ifaces \o more
    BY <1>4 DEF Gains
  <2>2. \A i \in DOMAIN more : more[i].xname = n.xname /\ more[i].of = at /\ more[i].index = i
    BY DEF Ifaces
  <2> HIDE DEF more
  <2>3. /\ Len(ifaces) \in Nat /\ DOMAIN ifaces = 1..Len(ifaces)
        /\ DOMAIN ifaces' = 1..(Len(ifaces) + Len(more)) /\ Len(more) \in Nat
        /\ \A i \in DOMAIN ifaces : ifaces'[i] = ifaces[i]
        /\ \A i \in DOMAIN ifaces' : i \notin DOMAIN ifaces =>
             i - Len(ifaces) \in DOMAIN more /\ ifaces'[i] = more[i - Len(ifaces)]
    BY <2>1, Joined DEF more
  <2>4. \A i \in DOMAIN ifaces : ifaces[i].xname # n.xname
    BY <1>4, HasSystemAt DEF IfacesOnce
  <2>5. \A i \in DOMAIN ifaces' : i \notin DOMAIN ifaces =>
          ifaces'[i].xname = n.xname /\ ifaces'[i].of = at /\ ifaces'[i].index = i - Len(ifaces)
    BY <2>2, <2>3
  <2>6. \A i \in DOMAIN ifaces' : HasIn(endpoints', ifaces'[i].xname)
    <3> SUFFICES ASSUME NEW i \in DOMAIN ifaces' PROVE HasIn(endpoints', ifaces'[i].xname)
      OBVIOUS
    <3>1. CASE i \in DOMAIN ifaces
      BY <1>1, <2>3, <3>1 DEF IfacesOnce
    <3>2. CASE i \notin DOMAIN ifaces
      BY <1>2, <2>5, <3>2
    <3> QED BY <3>1, <3>2
  <2>7. ASSUME NEW i \in DOMAIN ifaces', NEW j \in DOMAIN ifaces',
               ifaces'[i].xname = ifaces'[j].xname
        PROVE  /\ ifaces'[i].of = ifaces'[j].of
               /\ ifaces'[i] = ifaces'[j] => i = j
    <3>1. CASE i \in DOMAIN ifaces /\ j \in DOMAIN ifaces
      BY <2>3, <2>7, <3>1 DEF IfacesOnce
    <3>2. CASE i \notin DOMAIN ifaces /\ j \notin DOMAIN ifaces
      <4>1. ifaces'[i] = ifaces'[j] => i - Len(ifaces) = j - Len(ifaces)
        BY <2>5, <3>2
      <4>2. i \in Int /\ j \in Int
        BY <2>3
      <4> QED BY <2>3, <2>5, <3>2, <4>1, <4>2
    <3> QED BY <2>3, <2>4, <2>5, <2>7, <3>1, <3>2
  <2> QED BY <2>6, <2>7 DEF IfacesOnce
<1> QED BY <1>3, <1>4

LEMMA NodeGains ==
  ASSUME TypeOK, NEW e, NodeEffect(e)
  PROVE  Gains(e, file.nodes[at])
<1> DEFINE n == file.nodes[at]
<1>1. /\ n \in Node /\ e \in DOMAIN endpoints /\ endpoints[e] \in EndpointType
      /\ DOMAIN endpoints = 1..Len(endpoints)
      /\ IF HasSystem(n.xname) THEN endpoints' = endpoints /\ ifaces' = ifaces
         ELSE /\ endpoints' = [endpoints EXCEPT ![e].systems = Append(endpoints[e].systems, System(n))]
              /\ ifaces' = ifaces \o Ifaces(n)
  BY TypeOKEndpoints DEF NodeEffect
<1>2. System(n) \in SystemType
  BY <1>1, NodeTyped DEF TypeOK
<1>3. Had(e) = endpoints[e].systems /\ Had(e) \in Seq(SystemType)
  BY <1>1 DEF Had, EndpointType
<1> HIDE DEF n
<1>4. CASE HasSystem(n.xname)
  BY <1>1, <1>2, <1>3, <1>4 DEF Gains, n
<1>5. CASE ~HasSystem(n.xname)
  <2>1. endpoints' = [endpoints EXCEPT ![e].systems = Append(Had(e), System(n))]
    BY <1>1, <1>3, <1>5
  <2>2. endpoints'[e].systems = Append(Had(e), System(n))
    BY <1>1, <2>1 DEF EndpointType
  <2>3. DOMAIN endpoints' = DOMAIN endpoints \cup {e} /\ \A d \in DOMAIN endpoints : d # e => endpoints'[d] = endpoints[d]
    BY <1>1, <2>1
  <2> QED BY <1>1, <1>2, <1>3, <1>5, <2>2, <2>3 DEF Gains, n
<1> QED BY <1>4, <1>5

LEMMA DeprecatedGains ==
  ASSUME TypeOK, NEW e, DeprecatedEffect(e)
  PROVE  Gains(e, file.nodes[at])
<1> DEFINE n == file.nodes[at]
<1>1. n \in Node /\ Was(e) \in EndpointType
  BY DEF DeprecatedEffect
<1>2. System(n) \in SystemType
  BY <1>1, NodeTyped DEF TypeOK
<1>3. Had(e) = Was(e).systems
  BY DEF Had, Was, Endpoint
<1>4. Had(e) \in Seq(SystemType)
  BY <1>1, <1>3 DEF EndpointType
<1>5. endpoints'[e].systems = IF HasSystem(n.xname) THEN Had(e) ELSE Append(Had(e), System(n))
  BY <1>1, <1>3 DEF DeprecatedEffect, EndpointType
<1> QED BY <1>2, <1>4, <1>5 DEF Gains, DeprecatedEffect

LEMMA AddNodeOnce ==
  ASSUME TypeOK, ShapeInv, OnceInv, AddNode
  PROVE  OnceInv'
<1> DEFINE n == file.nodes[at]
<1>1. PICK e \in Nat : NodeEffect(e)
  BY NodeStep
<1>2. Gains(e, n) /\ n \in Node
  BY <1>1, NodeGains DEF NodeEffect
<1>3. /\ comps \in Seq(SystemType) /\ ifaces \in Seq(IfaceType) /\ at \in Nat \ {0}
      /\ endpoints \in Seq(EndpointType)
  BY TypeOKEndpoints DEF TypeOK
<1>4. Ifaces(n) \in Seq(IfaceType) /\ n.ifaces \in Seq(Seq(Address)) /\ n.xname \in Strings
  BY <1>2, <1>3, NodeTyped DEF Node
<1>5. CompsOnce'
  <2>1. AddComponent(n)
    BY DEF AddNode
  <2>2. [xname |-> n.xname, of |-> at] \in SystemType
    BY <1>3, <1>4 DEF SystemType
  <2> QED BY <1>3, <2>1, <2>2, AddComponentOnce DEF OnceInv
<1>6. SystemsOnce' /\ IfacesOnce'
  BY <1>2, <1>3, <1>4, GainsSystems, GainsIfaces DEF OnceInv
<1>7. ManagersOnce'
  BY DEF AddNode, Advance, ShapeInv, ManagersOnce, DeprecatedFormat
<1>8. MacsOnce'
  <2>1. keys' = keys /\ DOMAIN endpoints' = DOMAIN endpoints
    BY <1>1, <1>2 DEF AddNode, Gains, NodeEffect
  <2>2. \A d \in DOMAIN endpoints : endpoints'[d].mac = endpoints[d].mac
    <3> SUFFICES ASSUME NEW d \in DOMAIN endpoints PROVE endpoints'[d].mac = endpoints[d].mac
      OBVIOUS
    <3>1. CASE d = e
      BY <1>1, <3>1 DEF NodeEffect, EndpointType
    <3>2. CASE d # e
      BY <1>2, <3>2 DEF Gains
    <3> QED BY <3>1, <3>2
  <2> QED BY <2>1, <2>2 DEF MacsOnce, OnceInv
<1>9. GroupsOnce'
  BY DEF AddNode, GroupsOnce, OnceInv
<1> QED BY <1>5, <1>6, <1>7, <1>8, <1>9 DEF OnceInv

LEMMA HasManagerAt ==
  ASSUME NEW x
  PROVE  HasManager(x) <=> \E e \in DOMAIN endpoints : \E i \in DOMAIN endpoints[e].managers :
                              endpoints[e].managers[i] = x
BY DEF HasManager, Range

(***************************************************************************)
(* The manager of a node of the older format is not one already.           *)
(***************************************************************************)
LEMMA ManagersStep ==
  ASSUME NEW e, DeprecatedEffect(e), ManagersOnce, DeprecatedFormat(file)
  PROVE  \A d, c \in DOMAIN endpoints' :
           \A i \in DOMAIN endpoints'[d].managers, j \in DOMAIN endpoints'[c].managers :
             endpoints'[d].managers[i] = endpoints'[c].managers[j] => d = c /\ i = j
<1> DEFINE x == BMCXname(file.nodes[at])
           M == Was(e).managers
           Old(d, i) == /\ d \in DOMAIN endpoints /\ i \in DOMAIN endpoints[d].managers
                        /\ endpoints'[d].managers[i] = endpoints[d].managers[i]
           New(d, i) == /\ ~HasManager(x) /\ d = e /\ i = Len(M) + 1
                        /\ endpoints'[d].managers[i] = x
<1>1. /\ M \in Seq(Strings) /\ x \in Strings
      /\ e \in DOMAIN endpoints => M = endpoints[e].managers
      /\ e \notin DOMAIN endpoints => M = <<>>
      /\ endpoints'[e].managers = IF HasManager(x) THEN M ELSE Append(M, x)
      /\ DOMAIN endpoints' = DOMAIN endpoints \cup {e}
      /\ \A d \in DOMAIN endpoints : d # e => endpoints'[d] = endpoints[d]
  BY DEF DeprecatedEffect, EndpointType, Was, Endpoint
<1> HIDE DEF x, M
<1>2. ASSUME ~HasManager(x)
      PROVE  /\ DOMAIN M = 1..Len(M) /\ Len(M) \in Nat
             /\ DOMAIN endpoints'[e].managers = 1..(Len(M) + 1)
             /\ endpoints'[e].managers[Len(M) + 1] = x
             /\ \A i \in DOMAIN M : endpoints'[e].managers[i] = M[i]
  <2>1. endpoints'[e].managers = Append(M, x)
    BY <1>1, <1>2
  <2> QED BY <1>1, <2>1, Appended
<1>3. ASSUME NEW d \in DOMAIN endpoints', NEW i \in DOMAIN endpoints'[d].managers
      PROVE  Old(d, i) \/ New(d, i)
  <2>1. CASE d # e
    BY <1>1, <2>1
  <2>2. CASE d = e /\ i \in DOMAIN M
    <3>1. d \in DOMAIN endpoints /\ M = endpoints[d].managers
      BY <1>1, <2>2
    <3>2. endpoints'[d].managers[i] = M[i]
      BY <1>1, <1>2, <2>2
    <3> QED BY <2>2, <3>1, <3>2
  <2>3. CASE d = e /\ i \notin DOMAIN M
    <3>1. ~HasManager(x)
      BY <1>1, <2>3
    <3>2. i = Len(M) + 1
      BY <1>2, <2>3, <3>1
    <3> QED BY <1>2, <2>3, <3>1, <3>2
  <2> QED BY <2>1, <2>2, <2>3
<1>4. ASSUME NEW d, NEW i, NEW c, NEW j, Old(d, i), New(c, j),
             endpoints'[d].managers[i] = endpoints'[c].managers[j]
      PROVE  FALSE
  BY <1>4, HasManagerAt
<1> SUFFICES ASSUME NEW d \in DOMAIN endpoints', NEW c \in DOMAIN endpoints',
                    NEW i \in DOMAIN endpoints'[d].managers, NEW j \in DOMAIN endpoints'[c].managers,
                    endpoints'[d].managers[i] = endpoints'[c].managers[j]
             PROVE  d = c /\ i = j
  OBVIOUS
<1>5. (Old(d, i) \/ New(d, i)) /\ (Old(c, j) \/ New(c, j))
  BY <1>3
<1>6. CASE Old(d, i) /\ Old(c, j)
  <2>1. \A d1, e1 \in DOMAIN endpoints :
          \A i1 \in DOMAIN endpoints[d1].managers, j1 \in DOMAIN endpoints[e1].managers :
            endpoints[d1].managers[i1] = endpoints[e1].managers[j1] => d1 = e1 /\ i1 = j1
    BY Zenon DEF ManagersOnce
  <2>2. endpoints[d].managers[i] = endpoints[c].managers[j]
    BY <1>6
  <2> QED BY <1>6, <2>1, <2>2
<1>7. CASE New(d, i) /\ New(c, j)
  BY <1>7
<1> HIDE DEF Old, New
<1> QED BY <1>4, <1>5, <1>6, <1>7

LEMMA AddDeprecatedNodeOnce ==
  ASSUME TypeOK, ShapeInv, OnceInv, AddDeprecatedNode
  PROVE  OnceInv'
<1> DEFINE n == file.nodes[at]
<1>1. PICK e \in Nat : DeprecatedEffect(e)
  BY DeprecatedStep
<1>2. Gains(e, n) /\ n \in Node
  BY <1>1, DeprecatedGains DEF DeprecatedEffect
<1>3. /\ comps \in Seq(SystemType) /\ ifaces \in Seq(IfaceType) /\ at \in Nat \ {0}
      /\ endpoints \in Seq(EndpointType)
  BY TypeOKEndpoints DEF TypeOK
<1>4. Ifaces(n) \in Seq(IfaceType) /\ n.ifaces \in Seq(Seq(Address)) /\ n.xname \in Strings
  BY <1>2, <1>3, NodeTyped DEF Node
<1>5. CompsOnce'
  <2>1. AddComponent(n)
    BY DEF AddDeprecatedNode
  <2>2. [xname |-> n.xname, of |-> at] \in SystemType
    BY <1>3, <1>4 DEF SystemType
  <2> QED BY <1>3, <2>1, <2>2, AddComponentOnce DEF OnceInv
<1>6. SystemsOnce' /\ IfacesOnce'
  BY <1>2, <1>3, <1>4, GainsSystems, GainsIfaces DEF OnceInv
<1>7. ManagersOnce'
  <2>1. DeprecatedFormat(file) /\ file' = file
    BY DEF AddDeprecatedNode, Advance, ShapeInv
  <2> QED BY <1>1, <2>1, ManagersStep DEF ManagersOnce, OnceInv
<1>8. MacsOnce'
  <2>1. /\ DOMAIN endpoints' = DOMAIN endpoints \cup {e}
        /\ DOMAIN keys' = DOMAIN keys \cup {n.mac}
    BY <1>1 DEF DeprecatedEffect, MapTo
  <2>3. \A d \in DOMAIN endpoints : endpoints'[d].mac = endpoints[d].mac
    <3> SUFFICES ASSUME NEW d \in DOMAIN endpoints PROVE endpoints'[d].mac = endpoints[d].mac
      OBVIOUS
    <3>1. CASE d = e
      BY <1>1, <3>1 DEF DeprecatedEffect, EndpointType, Was
    <3>2. CASE d # e
      BY <1>2, <3>2 DEF Gains
    <3> QED BY <3>1, <3>2
  <2>4. e \notin DOMAIN endpoints => endpoints'[e].mac = n.mac /\ n.mac \notin DOMAIN keys
    BY <1>1 DEF DeprecatedEffect, EndpointType, Was, Endpoint
  <2> QED BY <2>1, <2>3, <2>4 DEF MacsOnce, OnceInv
<1>9. GroupsOnce'
  BY DEF AddDeprecatedNode, GroupsOnce, OnceInv
<1> QED BY <1>5, <1>6, <1>7, <1>8, <1>9 DEF OnceInv

LEMMA AddBMCOnce ==
  ASSUME TypeOK, ShapeInv, OnceInv, AddBMC
  PROVE  OnceInv'
<1> DEFINE b == file.bmcs[at]
           new == [Endpoint(b.xname, b.mac) EXCEPT !.managers = <<b.xname>>]
<1>1. BMCEffect
  BY BMCStep
<1>2. UNCHANGED <<file, comps, ifaces, groups>>
  BY DEF AddBMC, Advance
<1>3. CompsOnce' /\ GroupsOnce'
  BY <1>2 DEF CompsOnce, GroupsOnce, OnceInv
<1>4. ManagersOnce'
  BY DEF AddBMC, Advance, ShapeInv, ManagersOnce, DeprecatedFormat
<1>5. CASE Found(b)
  <2>1. keys' = keys /\ endpoints' = endpoints
    BY <1>1, <1>5 DEF BMCEffect
  <2> QED BY <1>2, <1>3, <1>4, <2>1 DEF OnceInv, MacsOnce, SystemsOnce, IfacesOnce
<1>6. CASE ~Found(b)
  <2>1. /\ endpoints' = Append(endpoints, new) /\ new \in EndpointType
        /\ keys' = MapTo(BMCKeys(b), Len(endpoints) + 1)
    BY <1>1, <1>6 DEF BMCEffect
  <2>2. new.systems = <<>> /\ new.mac = b.mac /\ b.mac \notin DOMAIN keys /\ b.mac \in BMCKeys(b)
    BY <1>6 DEF Endpoint, Found, BMCKeys
  <2> HIDE DEF new, b
  <2>3. /\ Len(endpoints) \in Nat /\ DOMAIN endpoints = 1..Len(endpoints)
        /\ DOMAIN endpoints' = 1..(Len(endpoints) + 1)
        /\ endpoints'[Len(endpoints) + 1] = new
        /\ \A i \in DOMAIN endpoints : endpoints'[i] = endpoints[i]
    BY <2>1, TypeOKEndpoints, Appended
  <2>4. \A i \in DOMAIN endpoints' : i \in DOMAIN endpoints \/ i = Len(endpoints) + 1
    BY <2>3
  <2>5. DOMAIN keys' = DOMAIN keys \cup BMCKeys(b)
    BY <2>1 DEF MapTo
  <2>6. MacsOnce'
    BY <2>2, <2>3, <2>4, <2>5 DEF MacsOnce, OnceInv
  <2>7. \A d \in DOMAIN endpoints' : \A i \in DOMAIN endpoints'[d].systems :
          d \in DOMAIN endpoints /\ endpoints'[d] = endpoints[d]
    BY <2>2, <2>3, <2>4
  <2>8. SystemsOnce'
    BY <2>7 DEF SystemsOnce, OnceInv
  <2>9. IfacesOnce'
    <3>1. \A x : HasIn(endpoints, x) => HasIn(endpoints', x)
      <4>1. DOMAIN endpoints \subseteq DOMAIN endpoints'
        BY <2>3
      <4> QED BY <2>3, <4>1 DEF HasIn
    <3> QED BY <1>2, <3>1 DEF IfacesOnce, OnceInv
  <2> QED BY <1>3, <1>4, <2>6, <2>8, <2>9 DEF OnceInv
<1> QED BY <1>5, <1>6

LEMMA AddToGroupsOnce ==
  ASSUME TypeOK, OnceInv, AddToGroups
  PROVE  OnceInv'
<1> DEFINE x == file.nodes[at].xname
<1>1. UNCHANGED <<file, keys, endpoints, comps, ifaces>>
  BY DEF AddToGroups, Advance
<1>2. x \in Strings
  <2>1. file.nodes[at] \in Node
    BY EntryTyped DEF AddToGroups, TypeOK
  <2> QED BY <2>1 DEF Node
<1>3. groups' = [g \in Groups |-> IF g \in Range(file.nodes[at].groups)
                                  THEN AddMemberToGroup(groups[g], x) ELSE groups[g]]
  BY DEF AddToGroups
<1> HIDE DEF x
<1>4. ASSUME NEW g \in Groups, NEW i \in DOMAIN groups'[g], NEW j \in DOMAIN groups'[g],
             groups'[g][i] = groups'[g][j]
      PROVE  i = j
  <2> DEFINE s == groups[g]
  <2>1. s \in Seq(Strings) /\ \A k, l \in DOMAIN s : s[k] = s[l] => k = l
    BY DEF TypeOK, OnceInv, GroupsOnce
  <2>2. groups'[g] = s \/ (groups'[g] = Append(s, x) /\ x \notin Range(s))
    BY <1>3 DEF AddMemberToGroup
  <2> HIDE DEF s
  <2>3. CASE groups'[g] = s
    BY <1>4, <2>1, <2>3
  <2>4. CASE groups'[g] = Append(s, x) /\ x \notin Range(s)
    <3>1. \A k \in DOMAIN s : s[k] # x
      BY <2>4 DEF Range
    <3>2. /\ Len(s) \in Nat /\ DOMAIN s = 1..Len(s) /\ DOMAIN groups'[g] = 1..(Len(s) + 1)
          /\ groups'[g][Len(s) + 1] = x /\ \A k \in DOMAIN s : groups'[g][k] = s[k]
      BY <1>2, <2>1, <2>4, Appended
    <3>3. \A k \in DOMAIN groups'[g] : k \in DOMAIN s \/ k = Len(s) + 1
      BY <3>2
    <3> QED BY <1>4, <2>1, <3>1, <3>2, <3>3
  <2> QED BY <2>2, <2>3, <2>4
<1>5. GroupsOnce'
  BY <1>4 DEF GroupsOnce
<1> QED BY <1>1, <1>5 DEF OnceInv, CompsOnce, MacsOnce, SystemsOnce, ManagersOnce, IfacesOnce

LEMMA NothingOnce ==
  ASSUME endpoints = <<>>, comps = <<>>, ifaces = <<>>, groups = [g \in Groups |-> <<>>]
  PROVE  OnceInv
BY DEF OnceInv, CompsOnce, MacsOnce, SystemsOnce, ManagersOnce, IfacesOnce, GroupsOnce

LEMMA OnceKept ==
  ASSUME OnceInv, UNCHANGED <<file, keys, endpoints, ifaces, groups>>, CompsOnce'
  PROVE  OnceInv'
BY DEF OnceInv, CompsOnce, MacsOnce, SystemsOnce, ManagersOnce, IfacesOnce, GroupsOnce

LEMMA OnceStep ==
  ASSUME TypeOK, ShapeInv, OnceInv, [Next]_vars
  PROVE  OnceInv'
<1>1. CompsOnce /\ (UNCHANGED comps => CompsOnce')
  BY DEF OnceInv, CompsOnce
<1>2. CASE ChooseFormat
  BY <1>1, <1>2, OnceKept DEF ChooseFormat, built
<1>3. CASE NextLoop
  BY <1>1, <1>3, OnceKept DEF NextLoop, built
<1>4. CASE AddUnresolvedNode
  <2> DEFINE n == file.nodes[at]
  <2>1. n \in Node /\ at \in Nat /\ comps \in Seq(SystemType)
    BY <1>4, EntryTyped, TypeOKEndpoints DEF AddUnresolvedNode, TypeOK
  <2>2. [xname |-> n.xname, of |-> at] \in SystemType
    BY <2>1 DEF SystemType, Node
  <2>3. AddComponent(n)
    BY <1>4 DEF AddUnresolvedNode
  <2>4. CompsOnce'
    BY <1>1, <2>1, <2>2, <2>3, AddComponentOnce
  <2> QED BY <1>4, <2>4, OnceKept DEF AddUnresolvedNode, Advance
<1>5. CASE PanicOnNode \/ PanicOnDeprecatedNode
  BY <1>1, <1>5, OnceKept DEF PanicOnNode, PanicOnDeprecatedNode, Panic, built
<1>6. CASE Convert
  <2>1. endpoints' = <<>> /\ comps' = <<>> /\ ifaces' = <<>> /\ groups' = [g \in Groups |-> <<>>]
    BY <1>6 DEF Convert
  <2> QED BY <2>1 DEF OnceInv, CompsOnce, MacsOnce, SystemsOnce, ManagersOnce, IfacesOnce, GroupsOnce
<1>7. CASE UNCHANGED vars
  BY <1>1, <1>7, OnceKept DEF vars, built
<1> QED BY <1>2, <1>3, <1>4, <1>5, <1>6, <1>7, AddBMCOnce, AddNodeOnce, AddDeprecatedNodeOnce,
          AddToGroupsOnce DEF Next, Ended

LEMMA OnceHolds == Spec => []OnceInv
<1>1. Init => OnceInv
  BY NothingOnce DEF Init
<1> QED BY <1>1, TypeCorrect, ShapeHolds, OnceStep, PTL DEF Spec

LEMMA OnceMeans ==
  ASSUME TypeOK, OnceInv
  PROVE  NothingTwice
<1>1. \A d, e \in DOMAIN endpoints : \A s \in Systems(d), t \in Systems(e) :
        s.xname = t.xname => d = e /\ s = t
  BY DEF OnceInv, SystemsOnce, Systems, Range
<1>2. \A e \in DOMAIN endpoints : \A i, j \in DOMAIN endpoints[e].systems :
        endpoints[e].systems[i] = endpoints[e].systems[j] => i = j
  BY DEF OnceInv, SystemsOnce
<1>3. DeprecatedFormat(file) => \A d, e \in DOMAIN endpoints :
        /\ \A i, j \in DOMAIN endpoints[d].managers :
             endpoints[d].managers[i] = endpoints[d].managers[j] => i = j
        /\ d # e => Range(endpoints[d].managers) \cap Range(endpoints[e].managers) = {}
  BY DEF OnceInv, ManagersOnce, Range
<1> QED BY <1>1, <1>2, <1>3 DEF NothingTwice, NoRepeats, OnceInv, CompsOnce, MacsOnce, IfacesOnce, GroupsOnce

(***************************************************************************)
(* Whatever a file repeats, SMD is told everything once: one component and *)
(* one system for an xname, one endpoint for a MAC address, one manager    *)
(* for an xname in the older format, the interfaces of one entry of a      *)
(* node, and every member of a group once (DiscoveryInfoV2 and             *)
(* DiscoveryInfoV2Deprecated).                                             *)
(***************************************************************************)
THEOREM NothingIsTwice == Spec => []NothingTwice
BY TypeCorrect, OnceHolds, OnceMeans, PTL

-----------------------------------------------------------------------------
(* What is left out *)

HasEndpointOf(j) == \E e \in DOMAIN endpoints : endpoints[e].of = j

(***************************************************************************)
(* In the new format: the map has the three names of the BMCs that have    *)
(* an endpoint, and no others; a BMC that was passed over was known by     *)
(* then.                                                                   *)
(***************************************************************************)
EndpointsFrom ==
  \A e \in DOMAIN endpoints :
    endpoints[e].of \in DOMAIN file.bmcs /\ (phase = "bmcs" => endpoints[e].of < at)
KeysFrom ==
  \A k : k \in DOMAIN keys <=>
    \E e \in DOMAIN endpoints : k \in BMCKeys(file.bmcs[endpoints[e].of])
PassedOver ==
  \A j \in DOMAIN file.bmcs : (phase = "bmcs" => j < at) =>
    \/ HasEndpointOf(j)
    \/ \E i \in 1..(j - 1) : HasEndpointOf(i) /\ file.bmcs[j].mac \in BMCKeys(file.bmcs[i])

BMCsInv ==
  phase # "format" /\ ~DeprecatedFormat(file) => EndpointsFrom /\ KeysFrom /\ PassedOver

(***************************************************************************)
(* The nodes that were passed have systems, or no BMC.                     *)
(***************************************************************************)
Served(list, ks, n) ==
  \/ HasIn(list, n.xname)
  \/ ~DeprecatedFormat(file) /\ (ResolveBMC(n) = None \/ ResolveBMC(n) \notin DOMAIN ks)

NodesInv ==
  /\ phase \in {"nodes", "deprecated", "panic", "groups", "done"} =>
       \A i \in DOMAIN file.nodes :
         (phase \in {"nodes", "deprecated", "panic"} => i < at) => Served(endpoints, keys, file.nodes[i])
  /\ phase = "panic" => \E i \in DOMAIN file.nodes : <<>> \in Range(file.nodes[i].ifaces)

LossInv == BMCsInv /\ NodesInv

LEMMA AddBMCLoss ==
  ASSUME TypeOK, ShapeInv, LossInv, AddBMC
  PROVE  LossInv'
<1> DEFINE b == file.bmcs[at]
           new == [Endpoint(b.xname, b.mac) EXCEPT !.managers = <<b.xname>>]
<1>1. BMCEffect
  BY BMCStep
<1>2. /\ phase = "bmcs" /\ at \in DOMAIN file.bmcs /\ phase' = "bmcs" /\ at' = at + 1 /\ file' = file
      /\ ~DeprecatedFormat(file)
  BY DEF AddBMC, Advance, ShapeInv
<1>3. EndpointsFrom /\ KeysFrom /\ PassedOver
  BY <1>2 DEF LossInv, BMCsInv
<1>4. /\ at \in Nat \ {0} /\ DOMAIN file.bmcs \subseteq Nat \ {0}
      /\ Len(endpoints) \in Nat /\ DOMAIN endpoints = 1..Len(endpoints)
      /\ \A e \in DOMAIN endpoints : endpoints[e] \in EndpointType
  BY TypeOKEndpoints DEF TypeOK, File
<1>5. \A j \in DOMAIN file.bmcs : j < at + 1 => j < at \/ j = at
  BY <1>4
<1>6. NodesInv'
  BY <1>2 DEF NodesInv
<1>7. CASE Found(b)
  <2>1. keys' = keys /\ endpoints' = endpoints
    BY <1>1, <1>7 DEF BMCEffect
  <2>2. PICK e \in DOMAIN endpoints : b.mac \in BMCKeys(file.bmcs[endpoints[e].of])
    BY <1>3, <1>7 DEF Found, KeysFrom
  <2> DEFINE i == endpoints[e].of
  <2>3. i \in 1..(at - 1) /\ HasEndpointOf(i)
    BY <1>2, <1>3, <1>4 DEF EndpointsFrom, HasEndpointOf
  <2>4. EndpointsFrom'
    BY <1>2, <1>3, <1>4, <2>1 DEF EndpointsFrom
  <2>5. KeysFrom'
    BY <1>2, <1>3, <2>1 DEF KeysFrom
  <2>6. PassedOver'
    BY <1>2, <1>3, <1>5, <2>1, <2>2, <2>3 DEF PassedOver, HasEndpointOf
  <2> QED BY <1>6, <2>4, <2>5, <2>6 DEF LossInv, BMCsInv
<1>8. CASE ~Found(b)
  <2>1. /\ endpoints' = Append(endpoints, new) /\ new \in EndpointType
        /\ keys' = MapTo(BMCKeys(b), Len(endpoints) + 1)
    BY <1>1, <1>8 DEF BMCEffect
  <2>2. new.of = at
    BY DEF Endpoint
  <2> HIDE DEF new
  <2>3. /\ DOMAIN endpoints' = 1..(Len(endpoints) + 1)
        /\ endpoints'[Len(endpoints) + 1] = new
        /\ \A i \in DOMAIN endpoints : endpoints'[i] = endpoints[i]
    BY <2>1, TypeOKEndpoints, Appended
  <2>4. DOMAIN endpoints' = DOMAIN endpoints \cup {Len(endpoints) + 1}
    BY <1>4, <2>3
  <2>5. EndpointsFrom'
    BY <1>2, <1>3, <1>4, <2>2, <2>3, <2>4 DEF EndpointsFrom
  <2>6. KeysFrom'
    <3>1. DOMAIN keys' = DOMAIN keys \cup BMCKeys(b)
      BY <2>1 DEF MapTo
    <3>2. ASSUME NEW k
          PROVE  (\E e \in DOMAIN endpoints' : k \in BMCKeys(file.bmcs[endpoints'[e].of]))
                 <=> (\/ \E e \in DOMAIN endpoints : k \in BMCKeys(file.bmcs[endpoints[e].of])
                      \/ k \in BMCKeys(b))
      BY <2>2, <2>3, <2>4
    <3>3. \A k : k \in DOMAIN keys <=>
            \E e \in DOMAIN endpoints : k \in BMCKeys(file.bmcs[endpoints[e].of])
      BY <1>3 DEF KeysFrom
    <3> HIDE DEF b
    <3>4. \A k : k \in DOMAIN keys' <=>
            \E e \in DOMAIN endpoints' : k \in BMCKeys(file.bmcs[endpoints'[e].of])
      BY <3>1, <3>2, <3>3
    <3> QED BY <1>2, <3>4 DEF KeysFrom, BMCKeys
  <2>7. \A j : HasEndpointOf(j) => \E e \in DOMAIN endpoints' : endpoints'[e].of = j
    BY <2>3, <2>4 DEF HasEndpointOf
  <2>8. \E e \in DOMAIN endpoints' : endpoints'[e].of = at
    BY <2>2, <2>3, <2>4
  <2>9. PassedOver'
    BY <1>2, <1>3, <1>5, <2>7, <2>8 DEF PassedOver, HasEndpointOf
  <2> QED BY <1>6, <2>5, <2>6, <2>9 DEF LossInv, BMCsInv
<1> QED BY <1>7, <1>8

(***************************************************************************)
(* One more node is served, and the others still are.                      *)
(***************************************************************************)
LEMMA OneMoreServed ==
  ASSUME TypeOK, NodesInv, phase \in {"nodes", "deprecated"}, at \in DOMAIN file.nodes,
         phase' = phase, at' = at + 1, file' = file,
         \A n : Served(endpoints, keys, n) => Served(endpoints', keys', n),
         Served(endpoints', keys', file.nodes[at])
  PROVE  NodesInv'
<1>1. \A i \in DOMAIN file.nodes : i < at + 1 => i < at \/ i = at
  BY DEF TypeOK, File
<1>2. ASSUME NEW i \in DOMAIN file.nodes, i < at + 1
      PROVE  Served(endpoints', keys', file.nodes[i])
  <2>1. CASE i < at
    <3>1. Served(endpoints, keys, file.nodes[i])
      BY <2>1 DEF NodesInv
    <3> QED BY <3>1
  <2>2. CASE i = at
    BY <2>2
  <2> QED BY <1>1, <1>2, <2>1, <2>2
<1>3. phase' # "panic"
  OBVIOUS
<1>4. \A n : Served(endpoints', keys', n) <=> Served(endpoints, keys, n)'
  BY DEF Served, DeprecatedFormat, HasIn, ResolveBMC, NodeXnameToBMCXname, StringToXname
<1> QED BY <1>2, <1>3, <1>4 DEF NodesInv, Served, DeprecatedFormat

LEMMA AddNodeLoss ==
  ASSUME TypeOK, ShapeInv, LossInv, AddNode
  PROVE  LossInv'
<1> DEFINE n == file.nodes[at]
<1>1. PICK e \in Nat : NodeEffect(e)
  BY NodeStep
<1>2. Gains(e, n)
  BY <1>1, NodeGains
<1>3. /\ phase = "nodes" /\ at \in DOMAIN file.nodes /\ phase' = phase /\ at' = at + 1 /\ file' = file
      /\ keys' = keys /\ ~DeprecatedFormat(file)
  BY DEF AddNode, Advance, ShapeInv
<1>4. EndpointsFrom /\ KeysFrom /\ PassedOver
  BY <1>3 DEF LossInv, BMCsInv
<1>5. DOMAIN endpoints' = DOMAIN endpoints /\ \A d \in DOMAIN endpoints : endpoints'[d].of = endpoints[d].of
  <2>1. DOMAIN endpoints' = DOMAIN endpoints
    BY <1>1, <1>2 DEF Gains, NodeEffect
  <2> SUFFICES ASSUME NEW d \in DOMAIN endpoints PROVE endpoints'[d].of = endpoints[d].of
    BY <2>1
  <2>2. CASE d = e
    BY <1>1, <2>2 DEF NodeEffect, EndpointType
  <2>3. CASE d # e
    BY <1>2, <2>3 DEF Gains
  <2> QED BY <2>2, <2>3
<1>6. EndpointsFrom'
  BY <1>3, <1>4, <1>5 DEF EndpointsFrom
<1>7. KeysFrom'
  BY <1>3, <1>4, <1>5 DEF KeysFrom, BMCKeys
<1>8. PassedOver'
  BY <1>3, <1>4, <1>5 DEF PassedOver, HasEndpointOf, BMCKeys
<1>9. NodesInv'
  <2>1. HasIn(endpoints', n.xname) /\ \A x : HasIn(endpoints, x) => HasIn(endpoints', x)
    BY <1>2, GainsServed
  <2>2. Served(endpoints', keys', n) /\ \A m : Served(endpoints, keys, m) => Served(endpoints', keys', m)
    BY <1>3, <2>1 DEF Served
  <2> QED BY <1>3, <2>2, OneMoreServed DEF LossInv
<1> QED BY <1>6, <1>7, <1>8, <1>9 DEF LossInv, BMCsInv

LEMMA AddDeprecatedNodeLoss ==
  ASSUME TypeOK, ShapeInv, LossInv, AddDeprecatedNode
  PROVE  LossInv'
<1> DEFINE n == file.nodes[at]
<1>1. PICK e \in Nat : DeprecatedEffect(e)
  BY DeprecatedStep
<1>2. Gains(e, n)
  BY <1>1, DeprecatedGains
<1>3. /\ phase = "deprecated" /\ at \in DOMAIN file.nodes /\ phase' = phase /\ at' = at + 1 /\ file' = file
      /\ DeprecatedFormat(file)
  BY DEF AddDeprecatedNode, Advance, ShapeInv
<1>4. BMCsInv'
  BY <1>3 DEF BMCsInv, DeprecatedFormat
<1>5. NodesInv'
  <2>1. HasIn(endpoints', n.xname) /\ \A x : HasIn(endpoints, x) => HasIn(endpoints', x)
    BY <1>2, GainsServed
  <2>2. Served(endpoints', keys', n) /\ \A m : Served(endpoints, keys, m) => Served(endpoints', keys', m)
    BY <1>3, <2>1 DEF Served
  <2> QED BY <1>3, <2>2, OneMoreServed DEF LossInv
<1> QED BY <1>4, <1>5 DEF LossInv

LEMMA AddUnresolvedNodeLoss ==
  ASSUME TypeOK, ShapeInv, LossInv, AddUnresolvedNode
  PROVE  LossInv'
<1>1. /\ phase = "nodes" /\ at \in DOMAIN file.nodes /\ phase' = phase /\ at' = at + 1 /\ file' = file
      /\ keys' = keys /\ endpoints' = endpoints /\ ~DeprecatedFormat(file)
      /\ ~Resolves(file.nodes[at])
  BY DEF AddUnresolvedNode, Advance, ShapeInv
<1>2. EndpointsFrom /\ KeysFrom /\ PassedOver
  BY <1>1 DEF LossInv, BMCsInv
<1>3. EndpointsFrom' /\ KeysFrom' /\ PassedOver'
  BY <1>1, <1>2 DEF EndpointsFrom, KeysFrom, PassedOver, HasEndpointOf
<1>4. Served(endpoints', keys', file.nodes[at])
  BY <1>1 DEF Served, Resolves
<1>5. \A m : Served(endpoints, keys, m) => Served(endpoints', keys', m)
  BY <1>1
<1>6. NodesInv'
  BY <1>1, <1>4, <1>5, OneMoreServed DEF LossInv
<1> QED BY <1>3, <1>6 DEF LossInv, BMCsInv

(***************************************************************************)
(* What the end of a loop and the other steps leave alone.                 *)
(***************************************************************************)
LEMMA BMCsKept ==
  ASSUME TypeOK, BMCsInv, UNCHANGED <<file, keys, endpoints>>, phase # "format", phase' # "format",
         \/ phase # "bmcs" /\ phase' # "bmcs"
         \/ phase = "bmcs" /\ at > Len(file.bmcs) /\ phase' # "bmcs"
         \/ UNCHANGED <<phase, at>>
  PROVE  BMCsInv'
<1> SUFFICES ASSUME ~DeprecatedFormat(file)
             PROVE  EndpointsFrom' /\ KeysFrom' /\ PassedOver'
  BY DEF BMCsInv, DeprecatedFormat
<1>1. EndpointsFrom /\ KeysFrom /\ PassedOver
  BY DEF BMCsInv
<1>2. \A j \in DOMAIN file.bmcs : at > Len(file.bmcs) => j < at
  BY DEF TypeOK, File
<1>3. EndpointsFrom' /\ KeysFrom'
  BY <1>1 DEF EndpointsFrom, KeysFrom
<1>4. PassedOver'
  BY <1>1, <1>2 DEF PassedOver, HasEndpointOf
<1> QED BY <1>3, <1>4

LEMMA ServedKept ==
  ASSUME UNCHANGED <<file, keys, endpoints>>
  PROVE  \A n : Served(endpoints, keys, n)' <=> Served(endpoints, keys, n)
BY DEF Served, DeprecatedFormat, HasIn, ResolveBMC, NodeXnameToBMCXname, StringToXname

LEMMA NodesKept ==
  ASSUME TypeOK, NodesInv, UNCHANGED <<file, keys, endpoints>>,
         phase \in {"nodes", "deprecated", "panic", "groups", "done"},
         \/ UNCHANGED <<phase, at>>
         \/ phase \in {"nodes", "deprecated"} /\ at > Len(file.nodes) /\ phase' = "groups"
         \/ phase = "groups" /\ phase' \in {"groups", "done"}
  PROVE  NodesInv'
<1>1. \A i \in DOMAIN file.nodes : at > Len(file.nodes) => i < at
  BY DEF TypeOK, File
<1>2. phase' = "panic" => phase = "panic" /\ at' = at
  OBVIOUS
<1>3. ASSUME NEW i \in DOMAIN file.nodes, phase' \in {"nodes", "deprecated", "panic"} => i < at'
      PROVE  Served(endpoints, keys, file.nodes[i])
  <2>1. phase \in {"nodes", "deprecated", "panic"} => i < at
    BY <1>1, <1>3
  <2> QED BY <2>1 DEF NodesInv
<1>4. phase' = "panic" => \E i \in DOMAIN file.nodes : <<>> \in Range(file.nodes[i].ifaces)
  BY <1>2 DEF NodesInv
<1> HIDE DEF NodesInv
<1>5. \A i \in DOMAIN file.nodes : (phase' \in {"nodes", "deprecated", "panic"} => i < at')
         => Served(endpoints', keys', file.nodes[i])
  BY <1>3
<1> QED BY <1>4, <1>5 DEF NodesInv, Served, DeprecatedFormat

LEMMA LossStep ==
  ASSUME TypeOK, ShapeInv, LossInv, [Next]_vars
  PROVE  LossInv'
<1>1. BMCsInv /\ NodesInv
  BY DEF LossInv
<1>2. CASE ChooseFormat
  <2>1. /\ phase = "format" /\ phase' = IF DeprecatedFormat(file) THEN "deprecated" ELSE "bmcs"
        /\ at' = 1 /\ UNCHANGED <<file, keys, endpoints>>
    BY <1>2 DEF ChooseFormat, Enter, built
  <2>2. DOMAIN keys = {} /\ endpoints = <<>>
    BY <2>1 DEF ShapeInv
  <2>3. DOMAIN endpoints = {}
    BY <2>2
  <2>4. DOMAIN file.bmcs \subseteq Nat \ {0} /\ DOMAIN file.nodes \subseteq Nat \ {0}
    BY DEF TypeOK, File
  <2>5. EndpointsFrom' /\ KeysFrom'
    BY <2>1, <2>2, <2>3 DEF EndpointsFrom, KeysFrom
  <2>6. ~DeprecatedFormat(file) => PassedOver'
    BY <2>1, <2>4 DEF PassedOver
  <2>7. NodesInv'
    BY <2>1, <2>4 DEF NodesInv
  <2> QED BY <2>1, <2>5, <2>6, <2>7 DEF LossInv, BMCsInv, DeprecatedFormat
<1>3. CASE NextLoop
  <2>1. UNCHANGED <<file, keys, endpoints>> /\ at' = 1
    BY <1>3 DEF NextLoop, Enter, built
  <2>2. CASE phase = "bmcs" /\ at > Len(file.bmcs) /\ phase' = "nodes"
    <3>1. BMCsInv'
      BY <1>1, <2>1, <2>2, BMCsKept
    <3>2. DOMAIN file.nodes \subseteq Nat \ {0}
      BY DEF TypeOK, File
    <3>3. NodesInv'
      BY <2>1, <2>2, <3>2 DEF NodesInv
    <3> QED BY <3>1, <3>3 DEF LossInv
  <2>3. CASE phase \in {"nodes", "deprecated"} /\ at > Len(file.nodes) /\ phase' = "groups"
    <3>1. BMCsInv'
      BY <1>1, <2>1, <2>3, BMCsKept
    <3>2. NodesInv'
      BY <1>1, <2>1, <2>3, NodesKept
    <3> QED BY <3>1, <3>2 DEF LossInv
  <2>4. CASE phase = "groups" /\ phase' = "done"
    <3>1. BMCsInv'
      BY <1>1, <2>1, <2>4, BMCsKept
    <3>2. NodesInv'
      BY <1>1, <2>1, <2>4, NodesKept
    <3> QED BY <3>1, <3>2 DEF LossInv
  <2> QED BY <1>3, <2>2, <2>3, <2>4 DEF NextLoop, Enter
<1>4. CASE PanicOnNode \/ PanicOnDeprecatedNode
  <2>1. /\ phase \in {"nodes", "deprecated"} /\ phase' = "panic"
        /\ UNCHANGED <<file, at, keys, endpoints>> /\ at \in DOMAIN file.nodes
        /\ <<>> \in Range(file.nodes[at].ifaces)
    BY <1>4 DEF PanicOnNode, PanicOnDeprecatedNode, Panic, Panics, built
  <2>2. BMCsInv'
    BY <1>1, <2>1, BMCsKept
  <2>3. \A i \in DOMAIN file.nodes : i < at => Served(endpoints', keys', file.nodes[i])
    BY <1>1, <2>1 DEF NodesInv
  <2>4. NodesInv'
    BY <2>1, <2>3 DEF NodesInv, Served, DeprecatedFormat
  <2> QED BY <2>2, <2>4 DEF LossInv
<1>5. CASE AddToGroups
  <2>1. phase = "groups" /\ UNCHANGED <<phase, file, keys, endpoints>>
    BY <1>5 DEF AddToGroups, Advance
  <2> QED BY <1>1, <2>1, BMCsKept, NodesKept DEF LossInv
<1>6. CASE Convert
  BY <1>6 DEF Convert, Enter, LossInv, BMCsInv, NodesInv
<1>7. CASE UNCHANGED vars
  <2>1. UNCHANGED <<phase, at, file, keys, endpoints>>
    BY <1>7 DEF vars, built
  <2> QED BY <1>1, <2>1 DEF LossInv, BMCsInv, NodesInv, EndpointsFrom, KeysFrom, PassedOver,
                          HasEndpointOf, Served, DeprecatedFormat
<1> QED BY <1>2, <1>3, <1>4, <1>5, <1>6, <1>7, AddBMCLoss, AddNodeLoss, AddDeprecatedNodeLoss,
          AddUnresolvedNodeLoss DEF Next, Ended

LEMMA LossHolds == Spec => []LossInv
<1>1. Init => LossInv
  BY DEF Init, LossInv, BMCsInv, NodesInv
<1> QED BY <1>1, TypeCorrect, ShapeHolds, LossStep, PTL DEF Spec

-----------------------------------------------------------------------------
(* What refers to a node *)

(***************************************************************************)
(* The nodes that were passed have components; systems and members of      *)
(* groups are such nodes, and so are interfaces (IfacesOnce).              *)
(***************************************************************************)
NodesKnown ==
  phase \in {"nodes", "deprecated", "groups", "done"} =>
    \A i \in DOMAIN file.nodes :
      (phase \in {"nodes", "deprecated"} => i < at) => ComponentIn(comps, file.nodes[i].xname)
SystemsKnown == \A x : HasIn(endpoints, x) => ComponentIn(comps, x)
MembersKnown == \A g \in Groups : \A i \in DOMAIN groups[g] : ComponentIn(comps, groups[g][i])

RefInv == NodesKnown /\ SystemsKnown /\ MembersKnown

(***************************************************************************)
(* A node with a new component, and with its system or none.               *)
(***************************************************************************)
LEMMA OneMoreKnown ==
  ASSUME TypeOK, RefInv, phase \in {"nodes", "deprecated"}, at \in DOMAIN file.nodes,
         AddComponent(file.nodes[at]), Advance, groups' = groups,
         \A x : HasIn(endpoints', x) => HasIn(endpoints, x) \/ x = file.nodes[at].xname
  PROVE  RefInv'
<1>1. /\ \A x : ComponentIn(comps, x) => ComponentIn(comps', x)
      /\ ComponentIn(comps', file.nodes[at].xname)
  BY ComponentAdded
<1>2. file' = file /\ phase' = phase /\ at' = at + 1
  BY DEF Advance
<1>3. NodesKnown'
  <2>1. \A i \in DOMAIN file.nodes : i < at + 1 => i < at \/ i = at
    BY DEF TypeOK, File
  <2>2. ASSUME NEW i \in DOMAIN file.nodes, i < at + 1
        PROVE  ComponentIn(comps', file.nodes[i].xname)
    <3>1. CASE i < at
      BY <1>1, <3>1 DEF RefInv, NodesKnown
    <3>2. CASE i = at
      BY <1>1, <3>2
    <3> QED BY <2>1, <2>2, <3>1, <3>2
  <2> QED BY <1>2, <2>2 DEF NodesKnown, ComponentIn
<1>4. SystemsKnown'
  <2>1. \A x : HasIn(endpoints', x) => ComponentIn(comps', x)
    BY <1>1 DEF RefInv, SystemsKnown
  <2> QED BY <2>1 DEF SystemsKnown, HasIn, ComponentIn
<1>5. MembersKnown'
  BY <1>1 DEF RefInv, MembersKnown, ComponentIn
<1> QED BY <1>3, <1>4, <1>5 DEF RefInv

(***************************************************************************)
(* A BMC comes without systems.                                            *)
(***************************************************************************)
LEMMA BMCWithoutSystems ==
  ASSUME TypeOK, AddBMC, NEW x, HasIn(endpoints', x)
  PROVE  HasIn(endpoints, x)
<1> DEFINE b == file.bmcs[at]
           new == [Endpoint(b.xname, b.mac) EXCEPT !.managers = <<b.xname>>]
<1>1. BMCEffect
  BY BMCStep
<1>2. CASE Found(b)
  BY <1>1, <1>2 DEF BMCEffect
<1>3. CASE ~Found(b)
  <2>1. endpoints' = Append(endpoints, new) /\ new \in EndpointType
    BY <1>1, <1>3 DEF BMCEffect
  <2>2. DOMAIN new.systems = {}
    BY DEF Endpoint
  <2> HIDE DEF new
  <2>3. /\ DOMAIN endpoints = 1..Len(endpoints) /\ Len(endpoints) \in Nat
        /\ DOMAIN endpoints' = 1..(Len(endpoints) + 1)
        /\ endpoints'[Len(endpoints) + 1] = new
        /\ \A i \in DOMAIN endpoints : endpoints'[i] = endpoints[i]
    BY <2>1, TypeOKEndpoints, Appended
  <2>4. \A i \in DOMAIN endpoints' : i \in DOMAIN endpoints \/ i = Len(endpoints) + 1
    BY <2>3
  <2> QED BY <2>2, <2>3, <2>4 DEF HasIn
<1> QED BY <1>2, <1>3

LEMMA AddToGroupsKnown ==
  ASSUME TypeOK, RefInv, AddToGroups
  PROVE  RefInv'
<1> DEFINE x == file.nodes[at].xname
<1>1. phase = "groups" /\ at \in DOMAIN file.nodes /\ UNCHANGED <<phase, file, endpoints, comps>>
  BY DEF AddToGroups, Advance
<1>2. ComponentIn(comps, x)
  BY <1>1 DEF RefInv, NodesKnown
<1>3. x \in Strings
  <2>1. file.nodes[at] \in Node
    BY <1>1, EntryTyped DEF TypeOK
  <2> QED BY <2>1 DEF Node
<1>4. groups' = [g \in Groups |-> IF g \in Range(file.nodes[at].groups)
                                  THEN AddMemberToGroup(groups[g], x) ELSE groups[g]]
  BY DEF AddToGroups
<1> HIDE DEF x
<1>5. ASSUME NEW g \in Groups, NEW i \in DOMAIN groups'[g]
      PROVE  ComponentIn(comps, groups'[g][i])
  <2> DEFINE s == groups[g]
  <2>1. s \in Seq(Strings) /\ \A k \in DOMAIN s : ComponentIn(comps, s[k])
    BY DEF TypeOK, RefInv, MembersKnown
  <2>2. groups'[g] = s \/ groups'[g] = Append(s, x)
    BY <1>4 DEF AddMemberToGroup
  <2> HIDE DEF s
  <2>3. CASE groups'[g] = s
    BY <1>5, <2>1, <2>3
  <2>4. CASE groups'[g] = Append(s, x)
    <3>1. /\ Len(s) \in Nat /\ DOMAIN s = 1..Len(s) /\ DOMAIN groups'[g] = 1..(Len(s) + 1)
          /\ groups'[g][Len(s) + 1] = x /\ \A k \in DOMAIN s : groups'[g][k] = s[k]
      BY <1>3, <2>1, <2>4, Appended
    <3>2. i \in DOMAIN s \/ i = Len(s) + 1
      BY <1>5, <3>1
    <3> QED BY <1>2, <2>1, <3>1, <3>2
  <2> QED BY <2>2, <2>3, <2>4
<1>6. MembersKnown'
  BY <1>1, <1>5 DEF MembersKnown
<1>7. NodesKnown' /\ SystemsKnown'
  BY <1>1 DEF RefInv, NodesKnown, SystemsKnown
<1> QED BY <1>6, <1>7 DEF RefInv

LEMMA RefStep ==
  ASSUME TypeOK, RefInv, [Next]_vars
  PROVE  RefInv'
<1>1. DOMAIN file.nodes \subseteq Nat \ {0} /\ \A i \in DOMAIN file.nodes : at > Len(file.nodes) => i < at
  BY DEF TypeOK, File
<1>2. UNCHANGED built => SystemsKnown' /\ MembersKnown'
  BY DEF built, RefInv, SystemsKnown, MembersKnown
<1>3. CASE ChooseFormat
  <2>1. phase' \in {"deprecated", "bmcs"} /\ at' = 1 /\ UNCHANGED <<file, built>>
    BY <1>3 DEF ChooseFormat, Enter
  <2>2. NodesKnown'
    BY <1>1, <2>1 DEF NodesKnown
  <2> QED BY <1>2, <2>1, <2>2 DEF RefInv
<1>4. CASE NextLoop
  <2>1. UNCHANGED <<file, built>> /\ comps' = comps
    BY <1>4 DEF NextLoop, built
  <2>2. CASE phase' = "nodes" /\ at' = 1
    <3>1. NodesKnown'
      BY <1>1, <2>1, <2>2 DEF NodesKnown
    <3> QED BY <1>2, <2>1, <3>1 DEF RefInv
  <2>3. CASE /\ phase' \in {"groups", "done"}
             /\ phase = "groups" \/ (phase \in {"nodes", "deprecated"} /\ at > Len(file.nodes))
    <3>1. NodesKnown'
      BY <1>1, <2>1, <2>3 DEF RefInv, NodesKnown
    <3> QED BY <1>2, <2>1, <3>1 DEF RefInv
  <2> QED BY <1>4, <2>2, <2>3 DEF NextLoop, Enter
<1>5. CASE AddBMC
  <2>1. phase' = "bmcs" /\ UNCHANGED <<comps, groups>>
    BY <1>5 DEF AddBMC, Advance
  <2>2. NodesKnown' /\ MembersKnown'
    BY <2>1 DEF RefInv, NodesKnown, MembersKnown
  <2>3. \A x : HasIn(endpoints', x) => ComponentIn(comps', x)
    BY <1>5, <2>1, BMCWithoutSystems DEF RefInv, SystemsKnown
  <2>4. SystemsKnown'
    BY <2>3 DEF SystemsKnown, HasIn, ComponentIn
  <2> QED BY <2>2, <2>4 DEF RefInv
<1>6. CASE AddUnresolvedNode
  BY <1>6, OneMoreKnown DEF AddUnresolvedNode
<1>7. CASE AddNode
  <2>1. PICK e \in Nat : NodeEffect(e)
    BY <1>7, NodeStep
  <2>2. Gains(e, file.nodes[at])
    BY <2>1, NodeGains
  <2>3. \A x : HasIn(endpoints', x) => HasIn(endpoints, x) \/ x = file.nodes[at].xname
    BY <2>2, GainsOnly
  <2> QED BY <1>7, <2>3, OneMoreKnown DEF AddNode
<1>8. CASE AddDeprecatedNode
  <2>1. PICK e \in Nat : DeprecatedEffect(e)
    BY <1>8, DeprecatedStep
  <2>2. Gains(e, file.nodes[at])
    BY <2>1, DeprecatedGains
  <2>3. \A x : HasIn(endpoints', x) => HasIn(endpoints, x) \/ x = file.nodes[at].xname
    BY <2>2, GainsOnly
  <2>4. /\ phase = "deprecated" /\ at \in DOMAIN file.nodes /\ AddComponent(file.nodes[at])
        /\ Advance /\ groups' = groups
    BY <1>8 DEF AddDeprecatedNode
  <2> QED BY <2>3, <2>4, OneMoreKnown
<1>9. CASE PanicOnNode \/ PanicOnDeprecatedNode
  <2>1. phase' = "panic" /\ UNCHANGED built
    BY <1>9 DEF PanicOnNode, PanicOnDeprecatedNode, Panic
  <2> QED BY <1>2, <2>1 DEF RefInv, NodesKnown
<1>10. CASE Convert
  <2>1. phase' = "format" /\ endpoints' = <<>> /\ groups' = [g \in Groups |-> <<>>]
    BY <1>10 DEF Convert, Enter
  <2> QED BY <2>1 DEF RefInv, NodesKnown, SystemsKnown, MembersKnown, HasIn
<1>11. CASE UNCHANGED vars
  <2>1. UNCHANGED <<phase, at, file, comps>> /\ UNCHANGED built
    BY <1>11 DEF vars, built
  <2> QED BY <1>2, <2>1 DEF RefInv, NodesKnown
<1> QED BY <1>3, <1>4, <1>5, <1>6, <1>7, <1>8, <1>9, <1>10, <1>11, AddToGroupsKnown DEF Next, Ended

LEMMA RefHolds == Spec => []RefInv
<1>1. Init => RefInv
  BY DEF Init, RefInv, NodesKnown, SystemsKnown, MembersKnown, HasIn
<1> QED BY <1>1, TypeCorrect, RefStep, PTL DEF Spec

LEMMA RefMeans ==
  ASSUME RefInv, OnceInv
  PROVE  ReferencesResolve
<1>1. \A x : ComponentIn(comps, x) => HasComponent(x)
  BY DEF ComponentIn, HasComponent, Range
<1>2. \A e \in DOMAIN endpoints : \A s \in Systems(e) : HasIn(endpoints, s.xname)
  BY DEF Systems, HasIn, Range
<1>3. \A g \in Groups : \A m \in Range(groups[g]) : ComponentIn(comps, m)
  BY DEF RefInv, MembersKnown, Range
<1> QED BY <1>1, <1>2, <1>3 DEF ReferencesResolve, RefInv, SystemsKnown, OnceInv, IfacesOnce

(***************************************************************************)
(* Whatever the file repeats, leaves out or misspells, every system, every *)
(* interface and every member of a group that is made of it is that of a   *)
(* node with a component.                                                  *)
(***************************************************************************)
THEOREM ReferencesAlwaysResolve == Spec => []ReferencesResolve
BY OnceHolds, RefHolds, RefMeans, PTL

-----------------------------------------------------------------------------
(* What the losses come to *)

LEMMA LossMeans ==
  ASSUME TypeOK, LossInv, ReferencesResolve
  PROVE  LossesExplained
<1>1. BMCsInv /\ NodesInv
  BY DEF LossInv
<1>2. phase = "panic" => \E n \in Range(file.nodes) : <<>> \in Range(n.ifaces)
  BY <1>1 DEF NodesInv, Range
<1>3. ASSUME phase = "done" PROVE \A n \in Range(file.nodes) : Served(endpoints, keys, n)
  BY <1>1, <1>3 DEF NodesInv, Range
<1>4. phase = "done" /\ DeprecatedFormat(file) => \A n \in Range(file.nodes) : HasSystem(n.xname)
  BY <1>3, HasSystemAt DEF Served
<1>5. ASSUME phase = "done", ~DeprecatedFormat(file)
      PROVE  EndpointsFrom /\ KeysFrom /\ PassedOver
  BY <1>1, <1>5 DEF BMCsInv
<1>6. ASSUME phase = "done", ~DeprecatedFormat(file), NEW j \in DOMAIN file.bmcs, ~HasEndpointOf(j)
      PROVE  \E i \in 1..(j - 1) : HasEndpointOf(i) /\ file.bmcs[j].mac \in BMCKeys(file.bmcs[i])
  BY <1>5, <1>6 DEF PassedOver
<1>7. ASSUME phase = "done", ~DeprecatedFormat(file), NEW n \in Range(file.nodes), ~HasSystem(n.xname),
             ResolveBMC(n) # None, NEW j \in DOMAIN file.bmcs, HasEndpointOf(j)
      PROVE  ResolveBMC(n) \notin BMCKeys(file.bmcs[j])
  <2>1. ResolveBMC(n) \notin DOMAIN keys
    BY <1>3, <1>7, HasSystemAt DEF Served
  <2>2. PICK e \in DOMAIN endpoints : endpoints[e].of = j
    BY <1>7 DEF HasEndpointOf
  <2> QED BY <1>5, <1>7, <2>1, <2>2 DEF KeysFrom
<1> QED BY <1>2, <1>4, <1>6, <1>7 DEF LossesExplained, HasEndpointOf

(***************************************************************************)
(* Nothing is dropped without a reason.  In the older format every node    *)
(* has a system; in the new one a BMC is left out only if its MAC address  *)
(* is a name of a BMC before it, a node has no system only if it has no    *)
(* BMC with an endpoint, and a panic needs an interface without addresses. *)
(* What something else refers to is there (ReferencesAlwaysResolve).       *)
(***************************************************************************)
THEOREM LossesAreExplained == Spec => []LossesExplained
BY TypeCorrect, LossHolds, ReferencesAlwaysResolve, LossMeans, PTL

-----------------------------------------------------------------------------
(* Files whose BMCs can be told apart *)

(***************************************************************************)
(* What the BMCs of the file f that the loop has passed have come to.      *)
(***************************************************************************)
BMCsWhole(f, past, ks, list) ==
  /\ past \subseteq DOMAIN f.bmcs /\ DOMAIN list = past
  /\ \A j \in past : /\ list[j].id = f.bmcs[j].xname /\ list[j].mac = f.bmcs[j].mac
                     /\ list[j].of = j /\ list[j].managers = <<f.bmcs[j].xname>>
  /\ \A k \in DOMAIN ks : k \in BMCKeys(f.bmcs[ks[k]])

PastBMCs == IF phase = "bmcs" THEN 1..(at - 1) ELSE DOMAIN file.bmcs

LEMMA Positions ==
  ASSUME TypeOK
  PROVE  /\ at \in Nat \ {0} /\ (at + 1) - 1 = at
         /\ DOMAIN file.nodes = 1..Len(file.nodes) /\ Len(file.nodes) \in Nat
         /\ DOMAIN file.bmcs = 1..Len(file.bmcs) /\ Len(file.bmcs) \in Nat
         /\ 1..at = 1..(at - 1) \cup {at} /\ 1..(1 - 1) = {}
         /\ 1..(at - 1) \subseteq DOMAIN file.nodes /\ at > Len(file.nodes) => 1..(at - 1) = DOMAIN file.nodes
         /\ 1..(at - 1) \subseteq DOMAIN file.bmcs /\ at > Len(file.bmcs) => 1..(at - 1) = DOMAIN file.bmcs
<1>1. file.nodes \in Seq(Node) /\ file.bmcs \in Seq(BMC) /\ at \in Nat \ {0}
  BY DEF TypeOK, File
<1>2. /\ DOMAIN file.nodes = 1..Len(file.nodes) /\ Len(file.nodes) \in Nat
      /\ DOMAIN file.bmcs = 1..Len(file.bmcs) /\ Len(file.bmcs) \in Nat
  BY <1>1
<1>3. \A n \in Nat : 1..(at - 1) \subseteq 1..n /\ at > n => 1..(at - 1) = 1..n
  BY <1>1
<1> QED BY <1>1, <1>2, <1>3

(***************************************************************************)
(* A list as long as the positions passed.                                 *)
(***************************************************************************)
LEMMA LengthIs ==
  ASSUME NEW T, NEW s \in Seq(T), NEW m \in Nat, DOMAIN s = 1..m
  PROVE  Len(s) = m
OBVIOUS

(***************************************************************************)
(* When no MAC address is a name of an earlier BMC, every BMC has an       *)
(* endpoint, and each of its names leads to one that has that name.        *)
(***************************************************************************)
BMCsApart(f) == \A i, j \in DOMAIN f.bmcs : i < j => f.bmcs[j].mac \notin BMCKeys(f.bmcs[i])

ApartInv ==
  phase # "format" /\ ~DeprecatedFormat(file) /\ BMCsApart(file) =>
    /\ BMCsWhole(file, PastBMCs, keys, endpoints)
    /\ phase = "bmcs" => \A e \in DOMAIN endpoints : endpoints[e].systems = <<>>

LEMMA AddBMCApart ==
  ASSUME TypeOK, ShapeInv, LossInv, ApartInv, AddBMC
  PROVE  ApartInv'
<1> DEFINE b == file.bmcs[at]
           new == [Endpoint(b.xname, b.mac) EXCEPT !.managers = <<b.xname>>]
<1>1. /\ phase = "bmcs" /\ phase' = "bmcs" /\ at' = at + 1 /\ file' = file /\ at \in DOMAIN file.bmcs
      /\ ~DeprecatedFormat(file)
  BY DEF AddBMC, Advance, ShapeInv
<1> SUFFICES ASSUME BMCsApart(file) PROVE ApartInv'
  BY <1>1 DEF ApartInv
<1>3. BMCsWhole(file, 1..(at - 1), keys, endpoints) /\ \A e \in DOMAIN endpoints : endpoints[e].systems = <<>>
  BY <1>1 DEF ApartInv, PastBMCs
<1>4. at \in Nat \ {0} /\ 1..at = 1..(at - 1) \cup {at} /\ (at + 1) - 1 = at
  BY Positions
<1>5. ~Found(b)
  <2> SUFFICES ASSUME Found(b) PROVE FALSE
    OBVIOUS
  <2>1. KeysFrom
    BY <1>1 DEF LossInv, BMCsInv
  <2>2. PICK e \in DOMAIN endpoints : b.mac \in BMCKeys(file.bmcs[endpoints[e].of])
    BY <2>1 DEF Found, KeysFrom
  <2>3. endpoints[e].of \in DOMAIN file.bmcs /\ endpoints[e].of < at
    BY <1>3, <1>4 DEF BMCsWhole
  <2> QED BY <1>1, <2>2, <2>3 DEF BMCsApart
<1>6. /\ endpoints' = Append(endpoints, new) /\ new \in EndpointType
      /\ keys' = MapTo(BMCKeys(b), Len(endpoints) + 1)
  BY <1>5, BMCStep DEF BMCEffect
<1>7. Len(endpoints) = at - 1
  BY <1>3, <1>4, TypeOKEndpoints, LengthIs DEF BMCsWhole
<1>8. /\ new.id = b.xname /\ new.mac = b.mac /\ new.of = at /\ new.managers = <<b.xname>>
      /\ new.systems = <<>>
  BY DEF Endpoint
<1> HIDE DEF new
<1>9. /\ DOMAIN endpoints' = 1..at /\ endpoints'[at] = new
      /\ \A d \in DOMAIN endpoints : endpoints'[d] = endpoints[d]
      /\ DOMAIN endpoints = 1..(at - 1)
  BY <1>4, <1>6, <1>7, TypeOKEndpoints, Appended
<1>10. BMCsWhole(file, 1..at, keys', endpoints')
  <2>1. 1..at \subseteq DOMAIN file.bmcs
    BY <1>1, <1>3, <1>4 DEF BMCsWhole
  <2>2. ASSUME NEW j \in 1..at
        PROVE  /\ endpoints'[j].id = file.bmcs[j].xname /\ endpoints'[j].mac = file.bmcs[j].mac
               /\ endpoints'[j].of = j /\ endpoints'[j].managers = <<file.bmcs[j].xname>>
    <3>1. CASE j = at
      BY <1>8, <1>9, <3>1
    <3>2. CASE j \in 1..(at - 1)
      BY <1>3, <1>9, <3>2 DEF BMCsWhole
    <3> QED BY <1>4, <3>1, <3>2
  <2>3. ASSUME NEW k \in DOMAIN keys' PROVE k \in BMCKeys(file.bmcs[keys'[k]])
    <3>1. k \in BMCKeys(b) => keys'[k] = at
      BY <1>4, <1>6, <1>7 DEF MapTo
    <3>2. k \notin BMCKeys(b) => k \in DOMAIN keys /\ keys'[k] = keys[k]
      BY <1>6 DEF MapTo
    <3>3. CASE k \in BMCKeys(b)
      BY <3>1, <3>3
    <3>4. CASE k \notin BMCKeys(b)
      BY <1>3, <3>2, <3>4 DEF BMCsWhole
    <3> QED BY <3>3, <3>4
  <2> QED BY <1>9, <2>1, <2>2, <2>3 DEF BMCsWhole
<1>11. \A e \in DOMAIN endpoints' : endpoints'[e].systems = <<>>
  BY <1>3, <1>4, <1>8, <1>9
<1> QED BY <1>1, <1>10, <1>11, <1>4 DEF ApartInv, PastBMCs

LEMMA AddNodeApart ==
  ASSUME TypeOK, ShapeInv, ApartInv, AddNode
  PROVE  ApartInv'
<1>1. /\ phase = "nodes" /\ phase' = "nodes" /\ file' = file /\ keys' = keys /\ ~DeprecatedFormat(file)
  BY DEF AddNode, Advance, ShapeInv
<1> SUFFICES ASSUME BMCsApart(file) PROVE ApartInv'
  BY <1>1 DEF ApartInv
<1>2. BMCsWhole(file, DOMAIN file.bmcs, keys, endpoints)
  BY <1>1 DEF ApartInv, PastBMCs
<1>3. PICK e \in Nat : NodeEffect(e)
  BY NodeStep
<1>4. DOMAIN endpoints' = DOMAIN endpoints /\ e \in DOMAIN endpoints /\ endpoints[e] \in EndpointType
      /\ \A j \in DOMAIN endpoints : j # e => endpoints'[j] = endpoints[j]
  BY <1>3, TypeOKEndpoints DEF NodeEffect
<1>5. /\ endpoints'[e].id = endpoints[e].id /\ endpoints'[e].mac = endpoints[e].mac
      /\ endpoints'[e].of = endpoints[e].of /\ endpoints'[e].managers = endpoints[e].managers
  <2> DEFINE more == Append(endpoints[e].systems, System(file.nodes[at]))
  <2>1. endpoints' = endpoints \/ endpoints' = [endpoints EXCEPT ![e].systems = more]
    BY <1>3 DEF NodeEffect
  <2> HIDE DEF more
  <2>2. endpoints'[e] = endpoints[e] \/ endpoints'[e] = [endpoints[e] EXCEPT !.systems = more]
    BY <1>4, <2>1
  <2> QED BY <1>4, <2>2 DEF EndpointType
<1>6. \A j \in DOMAIN endpoints : j = e \/ endpoints'[j] = endpoints[j]
  BY <1>4
<1>7. BMCsWhole(file, DOMAIN file.bmcs, keys', endpoints')
  BY <1>1, <1>2, <1>4, <1>5, <1>6 DEF BMCsWhole
<1> QED BY <1>1, <1>7 DEF ApartInv, PastBMCs

LEMMA ApartStep ==
  ASSUME TypeOK, ShapeInv, LossInv, ApartInv, [Next]_vars
  PROVE  ApartInv'
<1>1. file' = file => (BMCsApart(file)' <=> BMCsApart(file)) /\ (DeprecatedFormat(file)' <=> DeprecatedFormat(file))
  BY DEF BMCsApart, DeprecatedFormat
<1>2. CASE ChooseFormat
  <2>1. /\ phase = "format" /\ phase' = IF DeprecatedFormat(file) THEN "deprecated" ELSE "bmcs"
        /\ at' = 1 /\ UNCHANGED <<file, keys, endpoints>>
    BY <1>2 DEF ChooseFormat, Enter, built
  <2> SUFFICES ASSUME ~DeprecatedFormat(file) PROVE ApartInv'
    BY <1>1, <2>1 DEF ApartInv
  <2>2. DOMAIN keys = {} /\ endpoints = <<>> /\ 1..(at' - 1) = {}
    BY <2>1 DEF ShapeInv
  <2>3. DOMAIN endpoints = {}
    BY <2>2
  <2>4. BMCsWhole(file, {}, keys, endpoints)
    BY <2>2, <2>3 DEF BMCsWhole
  <2> QED BY <2>1, <2>2, <2>3, <2>4 DEF ApartInv, PastBMCs
<1>3. CASE NextLoop
  <2>1. UNCHANGED <<file, keys, endpoints>> /\ phase # "format" /\ phase' \notin {"format", "bmcs"}
    BY <1>3 DEF NextLoop, Enter, built
  <2> SUFFICES ASSUME ~DeprecatedFormat(file), BMCsApart(file) PROVE ApartInv'
    BY <1>1, <2>1 DEF ApartInv
  <2>2. BMCsWhole(file, PastBMCs, keys, endpoints)
    BY <2>1 DEF ApartInv
  <2>3. phase = "bmcs" => at > Len(file.bmcs)
    BY <1>3 DEF NextLoop
  <2>4. PastBMCs = DOMAIN file.bmcs
    BY <2>2, <2>3, Positions DEF PastBMCs, BMCsWhole
  <2> QED BY <2>1, <2>2, <2>4 DEF ApartInv, PastBMCs
<1>4. CASE AddDeprecatedNode \/ PanicOnDeprecatedNode
  <2>1. phase = "deprecated" /\ file' = file
    BY <1>4 DEF AddDeprecatedNode, PanicOnDeprecatedNode, Panic, Advance
  <2> QED BY <1>1, <2>1 DEF ShapeInv, ApartInv
<1>5. CASE AddUnresolvedNode \/ PanicOnNode \/ AddToGroups
  <2>1. UNCHANGED <<file, keys, endpoints>> /\ phase \notin {"format", "bmcs"} /\ phase' \notin {"format", "bmcs"}
    BY <1>5 DEF AddUnresolvedNode, PanicOnNode, AddToGroups, Panic, Advance, built
  <2> QED BY <1>1, <2>1 DEF ApartInv, PastBMCs
<1>6. CASE Convert
  BY <1>6 DEF Convert, Enter, ApartInv
<1>7. CASE UNCHANGED vars
  <2>1. UNCHANGED <<file, phase, at, keys, endpoints>>
    BY <1>7 DEF vars, built
  <2> QED BY <1>1, <2>1 DEF ApartInv, PastBMCs
<1> QED BY <1>2, <1>3, <1>4, <1>5, <1>6, <1>7, AddBMCApart, AddNodeApart DEF Next, Ended

LEMMA ApartHolds == Spec => []ApartInv
<1>1. Init => ApartInv
  BY DEF Init, ApartInv
<1> QED BY <1>1, TypeCorrect, ShapeHolds, LossHolds, ApartStep, PTL DEF Spec

-----------------------------------------------------------------------------
(* Well-formed files *)

(***************************************************************************)
(* What the entries of the file f contribute.                              *)
(***************************************************************************)
EntryOf(f, i) == [xname |-> f.nodes[i].xname, of |-> i]
NamedIn(f, j) == {i \in DOMAIN f.nodes : ResolveBMC(f.nodes[i]) \in BMCKeys(f.bmcs[j])}
IfacesIn(f, i) ==
  {[xname |-> f.nodes[i].xname, of |-> i, index |-> k, networks |-> Names(f.nodes[i].ifaces[k])] :
     k \in DOMAIN f.nodes[i].ifaces}
MembersIn(f, past, g) == {f.nodes[i].xname : i \in {i \in past : g \in Range(f.nodes[i].groups)}}

(***************************************************************************)
(* What the entries that a loop has passed have come to.                   *)
(***************************************************************************)
SystemsWhole(f, past, list) ==
  \A j \in DOMAIN list :
    /\ Range(list[j].systems) = {EntryOf(f, i) : i \in past \cap NamedIn(f, j)}
    /\ \A k, l \in DOMAIN list[j].systems : k < l => list[j].systems[k].of < list[j].systems[l].of

NodesWhole(f, past, list, cs, ifs) ==
  /\ past \subseteq DOMAIN f.nodes /\ DOMAIN cs = past
  /\ \A i \in past : cs[i] = EntryOf(f, i)
  /\ SystemsWhole(f, past, list)
  /\ Range(ifs) = UNION {IfacesIn(f, i) : i \in past}

GroupsWhole(f, past, gs) ==
  past \subseteq DOMAIN f.nodes /\ \A g \in Groups : Range(gs[g]) = MembersIn(f, past, g)

PastNodes == IF phase = "bmcs" THEN {} ELSE IF phase = "nodes" THEN 1..(at - 1) ELSE DOMAIN file.nodes
PastGroups ==
  IF phase = "groups" THEN 1..(at - 1) ELSE IF phase = "done" THEN DOMAIN file.nodes ELSE {}

WholeInv ==
  WellFormed /\ phase # "format" =>
    /\ phase \in {"bmcs", "nodes", "groups", "done"}
    /\ NodesWhole(file, PastNodes, endpoints, comps, ifaces)
    /\ GroupsWhole(file, PastGroups, groups)

LEMMA SameFile ==
  ASSUME file' = file
  PROVE  WellFormed' <=> WellFormed
BY DEF WellFormed, DeprecatedFormat, OneBMC

LEMMA WellFormedMeans ==
  ASSUME WellFormed, TypeOK
  PROVE  /\ BMCsApart(file)
         /\ \A i, j \in DOMAIN file.nodes : file.nodes[i].xname = file.nodes[j].xname => i = j
         /\ \A i \in DOMAIN file.nodes : ResolveBMC(file.nodes[i]) # None /\ <<>> \notin Range(file.nodes[i].ifaces)
         /\ \A i \in DOMAIN file.nodes : \E j \in DOMAIN file.bmcs : \A k \in DOMAIN file.bmcs :
              ResolveBMC(file.nodes[i]) \in BMCKeys(file.bmcs[k]) <=> k = j
         /\ ~DeprecatedFormat(file)
<1>1. \A i \in DOMAIN file.nodes : file.nodes[i] \in Range(file.nodes)
  BY DEF Range
<1>2. ASSUME NEW n \in Range(file.nodes) PROVE OneBMC(n) /\ ResolveBMC(n) # None /\ <<>> \notin Range(n.ifaces)
  BY DEF WellFormed
<1>3. \A i \in DOMAIN file.nodes : OneBMC(file.nodes[i])
  BY <1>1, <1>2
<1>4. \A i \in DOMAIN file.nodes : ResolveBMC(file.nodes[i]) # None /\ <<>> \notin Range(file.nodes[i].ifaces)
  BY <1>1, <1>2
<1>5. ASSUME NEW i \in DOMAIN file.nodes
      PROVE  \E j \in DOMAIN file.bmcs : \A k \in DOMAIN file.bmcs :
               ResolveBMC(file.nodes[i]) \in BMCKeys(file.bmcs[k]) <=> k = j
  BY <1>3 DEF OneBMC
<1>6. /\ BMCsApart(file)
      /\ \A i, j \in DOMAIN file.nodes : file.nodes[i].xname = file.nodes[j].xname => i = j
      /\ ~DeprecatedFormat(file)
  BY DEF WellFormed, BMCsApart
<1> QED BY <1>4, <1>5, <1>6

LEMMA AddBMCWhole ==
  ASSUME TypeOK, ApartInv, ApartInv', WholeInv, AddBMC
  PROVE  WholeInv'
<1>1. /\ phase = "bmcs" /\ phase' = "bmcs" /\ file' = file
      /\ UNCHANGED <<comps, ifaces, groups>>
  BY DEF AddBMC, Advance
<1>2. WellFormed' <=> WellFormed
  BY <1>1, SameFile
<1> SUFFICES ASSUME WellFormed PROVE WholeInv'
  BY <1>2 DEF WholeInv
<1>3. NodesWhole(file, {}, endpoints, comps, ifaces) /\ GroupsWhole(file, {}, groups)
  BY <1>1 DEF WholeInv, PastNodes, PastGroups
<1>4. \A e \in DOMAIN endpoints' : endpoints'[e].systems = <<>>
  <2>1. ~DeprecatedFormat(file) /\ BMCsApart(file)
    BY WellFormedMeans
  <2>2. ~DeprecatedFormat(file)' /\ BMCsApart(file)'
    BY <1>1, <2>1 DEF DeprecatedFormat, BMCsApart
  <2> QED BY <1>1, <2>2 DEF ApartInv
<1>5. \A e \in DOMAIN endpoints' : Range(endpoints'[e].systems) = {} /\ DOMAIN endpoints'[e].systems = {}
  BY <1>4 DEF Range
<1>6. SystemsWhole(file, {}, endpoints')
  BY <1>5 DEF SystemsWhole
<1>7. NodesWhole(file, {}, endpoints', comps, ifaces)
  BY <1>3, <1>6 DEF NodesWhole
<1> QED BY <1>1, <1>3, <1>7 DEF WholeInv, PastNodes, PastGroups

LEMMA WholeBMCs ==
  ASSUME TypeOK, ApartInv, WellFormed, phase \notin {"format", "bmcs"}
  PROVE  BMCsWhole(file, DOMAIN file.bmcs, keys, endpoints)
BY WellFormedMeans DEF ApartInv, PastBMCs

(***************************************************************************)
(* The endpoint of a node of a well-formed file is that of its only BMC.   *)
(***************************************************************************)
LEMMA ItsEndpoint ==
  ASSUME TypeOK, LossInv, ApartInv, WholeInv, WellFormed, phase = "nodes", at \in DOMAIN file.nodes
  PROVE  LET r == ResolveBMC(file.nodes[at])
         IN  /\ Resolves(file.nodes[at])
             /\ \A j \in DOMAIN file.bmcs : at \in NamedIn(file, j) <=> j = keys[r]
<1> DEFINE r == ResolveBMC(file.nodes[at])
<1>1. BMCsWhole(file, DOMAIN file.bmcs, keys, endpoints)
  BY WholeBMCs
<1>2. KeysFrom
  BY WellFormedMeans DEF LossInv, BMCsInv
<1>3. PICK j \in DOMAIN file.bmcs : \A k \in DOMAIN file.bmcs : r \in BMCKeys(file.bmcs[k]) <=> k = j
  BY WellFormedMeans
<1>4. j \in DOMAIN endpoints /\ endpoints[j].of = j
  BY <1>1 DEF BMCsWhole
<1>5. r \in DOMAIN keys
  BY <1>2, <1>3, <1>4 DEF KeysFrom
<1>6. keys[r] \in DOMAIN file.bmcs /\ r \in BMCKeys(file.bmcs[keys[r]])
  BY <1>1, <1>5 DEF BMCsWhole, TypeOK
<1>7. keys[r] = j
  BY <1>3, <1>6
<1>8. r # None
  BY WellFormedMeans
<1>9. \A k \in DOMAIN file.bmcs : at \in NamedIn(file, k) <=> k = j
  BY <1>3 DEF NamedIn
<1> QED BY <1>5, <1>7, <1>8, <1>9 DEF Resolves

(***************************************************************************)
(* It is the first entry of its xname.                                     *)
(***************************************************************************)
LEMMA ItsXname ==
  ASSUME TypeOK, WholeInv, WellFormed, phase = "nodes", at \in DOMAIN file.nodes
  PROVE  ~HasComponent(file.nodes[at].xname) /\ ~HasSystem(file.nodes[at].xname)
<1>1. NodesWhole(file, 1..(at - 1), endpoints, comps, ifaces)
  BY DEF WholeInv, PastNodes
<1>2. \A i \in 1..(at - 1) : i # at /\ i \in DOMAIN file.nodes
  BY <1>1, Positions DEF NodesWhole
<1>3. \A i \in 1..(at - 1) : EntryOf(file, i).xname # file.nodes[at].xname
  BY <1>2, WellFormedMeans DEF EntryOf
<1>4. ~HasComponent(file.nodes[at].xname)
  BY <1>1, <1>3 DEF NodesWhole, HasComponent, Range
<1>5. ASSUME HasSystem(file.nodes[at].xname) PROVE FALSE
  <2>1. PICK e \in DOMAIN endpoints : \E s \in Systems(e) : s.xname = file.nodes[at].xname
    BY <1>5 DEF HasSystem
  <2>2. PICK s \in Systems(e) : s.xname = file.nodes[at].xname
    BY <2>1
  <2>3. s \in {EntryOf(file, i) : i \in (1..(at - 1)) \cap NamedIn(file, e)}
    BY <1>1 DEF NodesWhole, SystemsWhole, Systems
  <2> QED BY <1>3, <2>2, <2>3
<1> QED BY <1>4, <1>5

LEMMA AddNodeWhole ==
  ASSUME TypeOK, LossInv, ApartInv, WholeInv, AddNode
  PROVE  WholeInv'
<1> DEFINE n == file.nodes[at]
           past == 1..(at - 1)
<1>1. /\ phase = "nodes" /\ phase' = "nodes" /\ at' = at + 1 /\ file' = file /\ at \in DOMAIN file.nodes
      /\ UNCHANGED <<keys, groups>>
  BY DEF AddNode, Advance
<1>2. WellFormed' <=> WellFormed
  BY <1>1, SameFile
<1> SUFFICES ASSUME WellFormed PROVE WholeInv'
  BY <1>2 DEF WholeInv
<1>3. /\ NodesWhole(file, past, endpoints, comps, ifaces)
      /\ GroupsWhole(file, {}, groups)
  BY <1>1 DEF WholeInv, PastNodes, PastGroups
<1>4. at \in Nat \ {0} /\ 1..at = past \cup {at} /\ (at + 1) - 1 = at /\ past \subseteq Nat
  BY Positions
<1>5. ~HasComponent(n.xname) /\ ~HasSystem(n.xname)
  BY <1>1, ItsXname
<1>6. PICK e \in Nat : NodeEffect(e)
  BY NodeStep
<1>7. e = keys[ResolveBMC(n)] /\ n \in Node /\ e \in DOMAIN endpoints
      /\ endpoints' = [endpoints EXCEPT ![e].systems = Append(endpoints[e].systems, System(n))]
      /\ ifaces' = ifaces \o Ifaces(n)
  BY <1>5, <1>6 DEF NodeEffect
<1>8. System(n) = EntryOf(file, at) /\ System(n) \in SystemType
  BY <1>7, NodeTyped DEF System, EntryOf, TypeOK
<1>9. \A j \in DOMAIN file.bmcs : at \in NamedIn(file, j) <=> j = e
  BY <1>1, <1>7, ItsEndpoint
<1>10. /\ DOMAIN endpoints = DOMAIN file.bmcs /\ endpoints \in Seq(EndpointType)
       /\ \A j \in DOMAIN endpoints : endpoints[j] \in EndpointType
  BY <1>1, WholeBMCs, TypeOKEndpoints DEF BMCsWhole
<1>11. /\ DOMAIN endpoints' = DOMAIN endpoints
       /\ \A j \in DOMAIN endpoints : j # e => endpoints'[j] = endpoints[j]
       /\ endpoints'[e] = [endpoints[e] EXCEPT !.systems = Append(endpoints[e].systems, System(n))]
  BY <1>7, <1>10
<1>12. /\ endpoints'[e].systems = Append(endpoints[e].systems, System(n))
       /\ endpoints[e].systems \in Seq(SystemType)
  <2>1. endpoints[e] \in EndpointType
    BY <1>7, <1>10
  <2> QED BY <1>11, <2>1 DEF EndpointType
<1>14. SystemsWhole(file, 1..at, endpoints')
  <2>1. SystemsWhole(file, past, endpoints)
    BY <1>3 DEF NodesWhole
  <2>2. ASSUME NEW j \in DOMAIN endpoints, j # e
        PROVE  (1..at) \cap NamedIn(file, j) = past \cap NamedIn(file, j)
    BY <1>4, <1>9, <1>10, <2>2
  <2>3. (1..at) \cap NamedIn(file, e) = (past \cap NamedIn(file, e)) \cup {at}
    BY <1>4, <1>7, <1>9, <1>10
  <2> DEFINE S == endpoints[e].systems
             T == endpoints'[e].systems
  <2>4. /\ Range(S) = {EntryOf(file, i) : i \in past \cap NamedIn(file, e)}
        /\ \A k, l \in DOMAIN S : k < l => S[k].of < S[l].of
    BY <1>7, <2>1 DEF SystemsWhole
  <2>5. S \in Seq(SystemType) /\ T = Append(S, EntryOf(file, at)) /\ EntryOf(file, at) \in SystemType
    BY <1>8, <1>12
  <2> HIDE DEF S, T
  <2>6. Range(T) = Range(S) \cup {EntryOf(file, at)}
    BY <2>5, Appended
  <2>7. Range(T) = {EntryOf(file, i) : i \in (1..at) \cap NamedIn(file, e)}
    BY <2>3, <2>4, <2>6
  <2>8. /\ DOMAIN S = 1..Len(S) /\ Len(S) \in Nat /\ DOMAIN T = 1..(Len(S) + 1)
        /\ T[Len(S) + 1] = EntryOf(file, at) /\ \A k \in DOMAIN S : T[k] = S[k]
    BY <2>5, Appended
  <2>9. \A k \in DOMAIN S : S[k].of < at
    <3> SUFFICES ASSUME NEW k \in DOMAIN S PROVE S[k].of < at
      OBVIOUS
    <3>1. S[k] \in Range(S)
      BY DEF Range
    <3>2. PICK i \in past : S[k] = EntryOf(file, i)
      BY <2>4, <3>1
    <3> QED BY <1>4, <3>2 DEF EntryOf
  <2>10. ASSUME NEW k \in DOMAIN T, NEW l \in DOMAIN T, k < l PROVE T[k].of < T[l].of
    <3>1. k \in DOMAIN S
      BY <2>8, <2>10
    <3>2. CASE l \in DOMAIN S
      BY <2>4, <2>8, <2>10, <3>1, <3>2
    <3>3. CASE l = Len(S) + 1
      <4>1. T[l].of = at
        BY <2>8, <3>3 DEF EntryOf
      <4> QED BY <2>8, <2>9, <3>1, <4>1
    <3> QED BY <2>8, <3>2, <3>3
  <2>11. ASSUME NEW j \in DOMAIN endpoints
         PROVE  /\ Range(endpoints'[j].systems) = {EntryOf(file, i) : i \in (1..at) \cap NamedIn(file, j)}
                /\ \A k, l \in DOMAIN endpoints'[j].systems :
                     k < l => endpoints'[j].systems[k].of < endpoints'[j].systems[l].of
    <3>1. CASE j = e
      BY <2>7, <2>10, <3>1 DEF T
    <3>2. CASE j # e
      <4>1. endpoints'[j] = endpoints[j]
        BY <1>11, <3>2
      <4> QED BY <2>1, <2>2, <3>2, <4>1 DEF SystemsWhole
    <3> QED BY <3>1, <3>2
  <2> QED BY <1>11, <2>11 DEF SystemsWhole
<1>15. DOMAIN comps' = 1..at /\ \A i \in 1..at : comps'[i] = EntryOf(file, i)
  <2>1. comps' = Append(comps, EntryOf(file, at)) /\ EntryOf(file, at) \in SystemType
    BY <1>5, <1>8 DEF AddNode, AddComponent, EntryOf
  <2>2. comps \in Seq(SystemType) /\ DOMAIN comps = past /\ \A i \in past : comps[i] = EntryOf(file, i)
    BY <1>3, TypeOKEndpoints DEF NodesWhole
  <2>3. Len(comps) = at - 1
    BY <1>4, <2>2, LengthIs
  <2> QED BY <1>4, <2>1, <2>2, <2>3, Appended
<1>16. Range(ifaces') = UNION {IfacesIn(file, i) : i \in 1..at}
  <2>1. Ifaces(n) \in Seq(IfaceType) /\ ifaces \in Seq(IfaceType)
    BY <1>7, NodeTyped, TypeOKEndpoints DEF TypeOK
  <2>2. Range(Ifaces(n)) = IfacesIn(file, at)
    <3>1. ~DeprecatedFormat(file)
      BY DEF WholeInv, WellFormed
    <3>2. ASSUME NEW iface PROVE Networks(iface) = Names(iface)
      BY <3>1 DEF Networks, Names
    <3> QED BY <3>2 DEF Ifaces, IfacesIn, Range
  <2>3. Range(ifaces') = Range(ifaces) \cup Range(Ifaces(n))
    <3> HIDE DEF n
    <3>1. ifaces' = ifaces \o Ifaces(n)
      BY <1>7
    <3> QED BY <2>1, <3>1, JoinedRange
  <2>4. Range(ifaces) = UNION {IfacesIn(file, i) : i \in past}
    BY <1>3 DEF NodesWhole
  <2> HIDE DEF n, past
  <2> QED BY <1>4, <2>2, <2>3, <2>4
<1>17. NodesWhole(file, 1..at, endpoints', comps', ifaces')
  <2>1. 1..at \subseteq DOMAIN file.nodes
    BY <1>1, <1>3, <1>4 DEF NodesWhole
  <2> QED BY <1>14, <1>15, <1>16, <2>1 DEF NodesWhole
<1> QED BY <1>1, <1>3, <1>4, <1>17 DEF WholeInv, PastNodes, PastGroups

LEMMA AddToGroupsWhole ==
  ASSUME TypeOK, WholeInv, AddToGroups
  PROVE  WholeInv'
<1> DEFINE n == file.nodes[at]
           past == 1..(at - 1)
<1>1. /\ phase = "groups" /\ phase' = "groups" /\ at' = at + 1 /\ file' = file /\ at \in DOMAIN file.nodes
      /\ UNCHANGED <<keys, endpoints, comps, ifaces>>
      /\ groups' = [g \in Groups |-> IF g \in Range(n.groups)
                                     THEN AddMemberToGroup(groups[g], n.xname) ELSE groups[g]]
  BY DEF AddToGroups, Advance
<1>2. WellFormed' <=> WellFormed
  BY <1>1, SameFile
<1> SUFFICES ASSUME WellFormed PROVE WholeInv'
  BY <1>2 DEF WholeInv
<1>3. /\ NodesWhole(file, DOMAIN file.nodes, endpoints, comps, ifaces)
      /\ GroupsWhole(file, past, groups)
  BY <1>1 DEF WholeInv, PastNodes, PastGroups
<1>4. at \in Nat \ {0} /\ 1..at = past \cup {at} /\ (at + 1) - 1 = at
  BY Positions
<1>5. n.xname \in Strings
  <2>1. n \in Node
    BY <1>1, EntryTyped DEF TypeOK
  <2> QED BY <2>1 DEF Node
<1>6. ASSUME NEW g \in Groups
      PROVE  Range(groups'[g]) = IF g \in Range(n.groups) THEN Range(groups[g]) \cup {n.xname}
                                 ELSE Range(groups[g])
  <2>1. groups[g] \in Seq(Strings)
    BY DEF TypeOK
  <2>2. CASE g \in Range(n.groups) /\ n.xname \notin Range(groups[g])
    <3>1. groups'[g] = Append(groups[g], n.xname)
      BY <1>1, <2>2 DEF AddMemberToGroup
    <3> QED BY <1>5, <2>1, <2>2, <3>1, Appended
  <2>3. CASE g \notin Range(n.groups) \/ n.xname \in Range(groups[g])
    <3>1. groups'[g] = groups[g]
      BY <1>1, <2>3 DEF AddMemberToGroup
    <3> QED BY <2>3, <3>1
  <2> QED BY <2>2, <2>3
<1>7. ASSUME NEW g \in Groups
      PROVE  MembersIn(file, 1..at, g) = IF g \in Range(n.groups) THEN MembersIn(file, past, g) \cup {n.xname}
                                         ELSE MembersIn(file, past, g)
  BY <1>4 DEF MembersIn
<1>8. GroupsWhole(file, 1..at, groups')
  <2>1. 1..at \subseteq DOMAIN file.nodes
    BY <1>1, <1>3, <1>4 DEF GroupsWhole
  <2>2. ASSUME NEW g \in Groups PROVE Range(groups'[g]) = MembersIn(file, 1..at, g)
    <3>1. Range(groups[g]) = MembersIn(file, past, g)
      BY <1>3 DEF GroupsWhole
    <3> QED BY <1>6, <1>7, <3>1
  <2> QED BY <2>1, <2>2 DEF GroupsWhole
<1> QED BY <1>1, <1>3, <1>4, <1>8 DEF WholeInv, PastNodes, PastGroups

LEMMA WholeStep ==
  ASSUME TypeOK, ShapeInv, LossInv, ApartInv, ApartInv', WholeInv, [Next]_vars
  PROVE  WholeInv'
<1>1. CASE ChooseFormat
  <2>1. /\ phase = "format" /\ phase' = IF DeprecatedFormat(file) THEN "deprecated" ELSE "bmcs"
        /\ at' = 1 /\ UNCHANGED <<file, keys, endpoints, comps, ifaces, groups>>
    BY <1>1 DEF ChooseFormat, Enter, built
  <2>2. WellFormed' <=> WellFormed
    BY <2>1, SameFile
  <2> SUFFICES ASSUME WellFormed PROVE WholeInv'
    BY <2>2 DEF WholeInv
  <2>3. phase' = "bmcs" /\ 1..(at' - 1) = {}
    BY <2>1, WellFormedMeans
  <2>4. DOMAIN keys = {} /\ endpoints = <<>> /\ comps = <<>> /\ ifaces = <<>> /\ groups = [g \in Groups |-> <<>>]
    BY <2>1 DEF ShapeInv
  <2>5. DOMAIN endpoints = {} /\ DOMAIN comps = {} /\ Range(ifaces) = {} /\ \A g \in Groups : Range(groups[g]) = {}
    BY <2>4 DEF Range
  <2>7. NodesWhole(file, {}, endpoints, comps, ifaces)
    BY <2>5 DEF NodesWhole, SystemsWhole
  <2>8. GroupsWhole(file, {}, groups)
    BY <2>5 DEF GroupsWhole, MembersIn
  <2> QED BY <2>1, <2>3, <2>7, <2>8 DEF WholeInv, PastNodes, PastGroups
<1>2. CASE NextLoop
  <2>1. UNCHANGED <<file, keys, endpoints, comps, ifaces, groups>> /\ at' = 1
    BY <1>2 DEF NextLoop, Enter, built
  <2>2. WellFormed' <=> WellFormed
    BY <2>1, SameFile
  <2> SUFFICES ASSUME WellFormed PROVE WholeInv'
    BY <2>2 DEF WholeInv
  <2>3. /\ NodesWhole(file, PastNodes, endpoints, comps, ifaces)
        /\ GroupsWhole(file, PastGroups, groups)
        /\ phase \in {"bmcs", "nodes", "groups", "done"}
    BY <1>2 DEF WholeInv, NextLoop
  <2>4. 1..(at' - 1) = {}
    BY <2>1
  <2>5. CASE phase = "bmcs" /\ at > Len(file.bmcs) /\ phase' = "nodes"
    BY <2>1, <2>3, <2>4, <2>5 DEF WholeInv, PastNodes, PastGroups
  <2>6. CASE phase = "nodes" /\ at > Len(file.nodes) /\ phase' = "groups"
    <3>1. PastNodes = DOMAIN file.nodes
      BY <2>3, <2>6, Positions DEF PastNodes, NodesWhole
    <3> QED BY <2>1, <2>3, <2>4, <2>6, <3>1 DEF WholeInv, PastNodes, PastGroups
  <2>7. CASE phase = "groups" /\ at > Len(file.nodes) /\ phase' = "done"
    <3>1. PastGroups = DOMAIN file.nodes
      BY <2>3, <2>7, Positions DEF PastGroups, GroupsWhole
    <3> QED BY <2>1, <2>3, <2>4, <2>7, <3>1 DEF WholeInv, PastNodes, PastGroups
  <2> QED BY <1>2, <2>3, <2>5, <2>6, <2>7 DEF NextLoop, Enter
<1>3. CASE AddUnresolvedNode
  <2>1. phase = "nodes" /\ at \in DOMAIN file.nodes /\ ~Resolves(file.nodes[at]) /\ file' = file
    BY <1>3 DEF AddUnresolvedNode, Advance
  <2>2. ~WellFormed
    BY <2>1, ItsEndpoint
  <2> QED BY <2>1, <2>2, SameFile DEF WholeInv
<1>4. CASE PanicOnNode
  <2>1. at \in DOMAIN file.nodes /\ <<>> \in Range(file.nodes[at].ifaces) /\ file' = file
    BY <1>4 DEF PanicOnNode, Panic, Panics
  <2>2. ~WellFormed
    BY <2>1, WellFormedMeans
  <2> QED BY <2>1, <2>2, SameFile DEF WholeInv
<1>5. CASE AddDeprecatedNode \/ PanicOnDeprecatedNode
  <2>1. phase = "deprecated" /\ file' = file
    BY <1>5 DEF AddDeprecatedNode, PanicOnDeprecatedNode, Panic, Advance
  <2>2. ~WellFormed
    BY <2>1 DEF ShapeInv, WellFormed
  <2> QED BY <2>1, <2>2, SameFile DEF WholeInv
<1>6. CASE Convert
  BY <1>6 DEF Convert, Enter, WholeInv
<1>7. CASE UNCHANGED vars
  <2>1. UNCHANGED <<file, phase, at, keys, endpoints, comps, ifaces, groups>>
    BY <1>7 DEF vars, built
  <2>2. WellFormed' <=> WellFormed
    BY <2>1, SameFile
  <2> QED BY <2>1, <2>2 DEF WholeInv, PastNodes, PastGroups
<1> QED BY <1>1, <1>2, <1>3, <1>4, <1>5, <1>6, <1>7, AddBMCWhole, AddNodeWhole, AddToGroupsWhole
       DEF Next, Ended

LEMMA WholeHolds == Spec => []WholeInv
<1>1. Init => WholeInv
  BY DEF Init, WholeInv
<1> QED BY <1>1, TypeCorrect, ShapeHolds, LossHolds, ApartHolds, WholeStep, PTL DEF Spec

LEMMA WholeMeans ==
  ASSUME TypeOK, ApartInv, WholeInv
  PROVE  WellFormedFileIsComplete
<1> SUFFICES ASSUME WellFormed PROVE WellFormedFileIsComplete
  BY DEF WellFormedFileIsComplete
<1>1. phase # "panic"
  BY DEF WholeInv
<1> SUFFICES ASSUME phase = "done" PROVE WellFormedFileIsComplete
  BY <1>1 DEF WellFormedFileIsComplete
<1>2. /\ BMCsWhole(file, DOMAIN file.bmcs, keys, endpoints)
      /\ NodesWhole(file, DOMAIN file.nodes, endpoints, comps, ifaces)
      /\ GroupsWhole(file, DOMAIN file.nodes, groups)
  BY WholeBMCs DEF WholeInv, PastNodes, PastGroups
<1>3. comps = [i \in DOMAIN file.nodes |-> [xname |-> file.nodes[i].xname, of |-> i]]
  <2>1. comps = [i \in DOMAIN comps |-> comps[i]]
    BY TypeOKEndpoints
  <2> QED BY <1>2, <2>1 DEF NodesWhole, EntryOf
<1>4. DOMAIN endpoints = DOMAIN file.bmcs
  BY <1>2 DEF BMCsWhole
<1>5. ASSUME NEW j \in DOMAIN endpoints
      PROVE  LET b == file.bmcs[j]
                 e == endpoints[j]
             IN  /\ e.id = b.xname /\ e.mac = b.mac /\ e.of = j /\ e.managers = <<b.xname>>
                 /\ Range(e.systems) = {[xname |-> file.nodes[i].xname, of |-> i] :
                      i \in {i \in DOMAIN file.nodes : ResolveBMC(file.nodes[i]) \in BMCKeys(b)}}
                 /\ \A k, l \in DOMAIN e.systems : k < l => e.systems[k].of < e.systems[l].of
  <2>1. SystemsWhole(file, DOMAIN file.nodes, endpoints)
    BY <1>2 DEF NodesWhole
  <2>2. DOMAIN file.nodes \cap NamedIn(file, j)
        = {i \in DOMAIN file.nodes : ResolveBMC(file.nodes[i]) \in BMCKeys(file.bmcs[j])}
    BY DEF NamedIn
  <2>3. Range(endpoints[j].systems) = {EntryOf(file, i) : i \in DOMAIN file.nodes \cap NamedIn(file, j)}
    BY <2>1 DEF SystemsWhole
  <2>4. \A k, l \in DOMAIN endpoints[j].systems : k < l => endpoints[j].systems[k].of < endpoints[j].systems[l].of
    BY <2>1 DEF SystemsWhole
  <2>5. /\ endpoints[j].id = file.bmcs[j].xname /\ endpoints[j].mac = file.bmcs[j].mac
        /\ endpoints[j].of = j /\ endpoints[j].managers = <<file.bmcs[j].xname>>
    BY <1>2, <1>4 DEF BMCsWhole
  <2> QED BY <2>2, <2>3, <2>4, <2>5 DEF EntryOf
<1>6. Range(ifaces) = UNION {{[xname |-> file.nodes[i].xname, of |-> i, index |-> k,
                                networks |-> Names(file.nodes[i].ifaces[k])] :
                                k \in DOMAIN file.nodes[i].ifaces} : i \in DOMAIN file.nodes}
  BY <1>2 DEF NodesWhole, IfacesIn
<1>7. \A g \in Groups : Range(groups[g]) = {n.xname : n \in {n \in Range(file.nodes) : g \in Range(n.groups)}}
  <2> SUFFICES ASSUME NEW g \in Groups
               PROVE  Range(groups[g]) = {n.xname : n \in {n \in Range(file.nodes) : g \in Range(n.groups)}}
    OBVIOUS
  <2>1. Range(groups[g]) = MembersIn(file, DOMAIN file.nodes, g)
    BY <1>2 DEF GroupsWhole
  <2>2. Range(file.nodes) = {file.nodes[i] : i \in DOMAIN file.nodes}
    BY DEF Range
  <2>3. {n.xname : n \in {n \in Range(file.nodes) : g \in Range(n.groups)}}
        = MembersIn(file, DOMAIN file.nodes, g)
    BY <2>2 DEF MembersIn
  <2> QED BY <2>1, <2>3
<1> QED BY <1>1, <1>3, <1>4, <1>5, <1>6, <1>7 DEF WellFormedFileIsComplete

(***************************************************************************)
(* A well-formed file of the new format arrives whole: DiscoveryInfoV2     *)
(* loses no component, endpoint, system, interface or group member of it,  *)
(* adds none, and keeps their order.                                       *)
(***************************************************************************)
THEOREM WellFormedArrivesWhole == Spec => []WellFormedFileIsComplete
BY TypeCorrect, ApartHolds, WholeHolds, WholeMeans, PTL

-----------------------------------------------------------------------------
(* What the nodes of a file add up to *)

(***************************************************************************)
(* Only the first node of an xname counts.  A reading of the first n nodes *)
(* is a function h of which h[i] is what has come of the first i: the      *)
(* components, the interfaces, bare of their networks, and, for every BMC, *)
(* the systems.                                                            *)
(***************************************************************************)
BMCOf(n) == NodeXnameToBMCXname(n.xname)
First(nodes, i) == \A j \in 1..(i - 1) : nodes[j].xname # nodes[i].xname
EntryAt(nodes, i) == [xname |-> nodes[i].xname, of |-> i]
IfacesAt(nodes, i) ==
  [k \in DOMAIN nodes[i].ifaces |-> [xname |-> nodes[i].xname, of |-> i, index |-> k]]

Blank == [comps |-> <<>>, ifaces |-> <<>>, systems |-> [b \in Strings |-> <<>>]]
Read(st, nodes, i) ==
  IF ~First(nodes, i) THEN st
  ELSE [comps |-> Append(st.comps, EntryAt(nodes, i)),
        ifaces |-> st.ifaces \o IfacesAt(nodes, i),
        systems |-> [b \in Strings |-> IF b = BMCOf(nodes[i]) THEN Append(st.systems[b], EntryAt(nodes, i))
                                       ELSE st.systems[b]]]

Reading(nodes, h, n) == h[0] = Blank /\ \A i \in 1..n : h[i] = Read(h[i - 1], nodes, i)

(***************************************************************************)
(* The same for the members of the groups.                                 *)
(***************************************************************************)
JoinGroups(gs, n) ==
  [g \in Groups |-> IF g \in Range(n.groups) THEN AddMemberToGroup(gs[g], n.xname) ELSE gs[g]]
NoMembers == [g \in Groups |-> <<>>]
Grouping(nodes, h, n) ==
  h[0] = NoMembers /\ \A i \in 1..n : h[i] = JoinGroups(h[i - 1], nodes[i])

(***************************************************************************)
(* Two histories that start alike and go on alike end alike.               *)
(***************************************************************************)
LEMMA SameEnd ==
  ASSUME NEW n \in Nat, NEW g, NEW h, g[0] = h[0],
         \A i \in 1..n : g[i - 1] = h[i - 1] => g[i] = h[i]
  PROVE  g[n] = h[n]
<1> DEFINE S == {k \in 0..n : g[k] # h[k]}
<1> SUFFICES ASSUME S # {} PROVE FALSE
  OBVIOUS
<1>1. S \subseteq Nat
  OBVIOUS
<1> DEFINE m == Min(S)
<1>2. m \in S /\ \A y \in S : m <= y
  <2> HIDE DEF S
  <2> QED BY <1>1, LeastExists
<1> HIDE DEF m
<1>3. m \in 1..n /\ m - 1 \in 0..n /\ m - 1 < m /\ g[m] # h[m]
  BY <1>2
<1>4. m - 1 \notin S
  <2> HIDE DEF S
  <2>1. m \in Int
    BY <1>3
  <2> QED BY <1>2, <1>3, <2>1
<1>5. g[m - 1] = h[m - 1]
  BY <1>3, <1>4
<1> QED BY <1>3, <1>5

LEMMA SameReading ==
  ASSUME NEW n \in Nat, NEW nodes, NEW others, NEW g, NEW h,
         \A i \in 1..n : others[i].xname = nodes[i].xname /\ others[i].ifaces = nodes[i].ifaces,
         Reading(nodes, g, n), Reading(others, h, n)
  PROVE  g[n] = h[n]
<1>1. ASSUME NEW i \in 1..n, NEW st PROVE Read(st, nodes, i) = Read(st, others, i)
  <2>1. \A j \in 1..(i - 1) : j \in 1..n
    OBVIOUS
  <2>2. First(nodes, i) <=> First(others, i)
    BY <2>1 DEF First
  <2> QED BY <2>2 DEF Read, EntryAt, IfacesAt, BMCOf
<1>2. \A i \in 1..n : g[i - 1] = h[i - 1] => g[i] = h[i]
  BY <1>1 DEF Reading
<1>3. g[0] = h[0]
  BY DEF Reading
<1> QED BY <1>2, <1>3, SameEnd

LEMMA SameGrouping ==
  ASSUME NEW n \in Nat, NEW nodes, NEW others, NEW g, NEW h,
         \A i \in 1..n : others[i].xname = nodes[i].xname /\ others[i].groups = nodes[i].groups,
         Grouping(nodes, g, n), Grouping(others, h, n)
  PROVE  g[n] = h[n]
<1>1. ASSUME NEW i \in 1..n, NEW gs PROVE JoinGroups(gs, nodes[i]) = JoinGroups(gs, others[i])
  BY DEF JoinGroups
<1>2. \A i \in 1..n : g[i - 1] = h[i - 1] => g[i] = h[i]
  <2> SUFFICES ASSUME NEW i \in 1..n, g[i - 1] = h[i - 1] PROVE g[i] = h[i]
    OBVIOUS
  <2>1. g[i] = JoinGroups(g[i - 1], nodes[i]) /\ h[i] = JoinGroups(h[i - 1], others[i])
    BY DEF Grouping
  <2> QED BY <1>1, <2>1
<1>3. g[0] = h[0]
  BY DEF Grouping
<1> QED BY <1>2, <1>3, SameEnd

LEMMA LongerReading ==
  ASSUME NEW n \in Nat, NEW nodes, NEW h, Reading(nodes, h, n)
  PROVE  \E g : Reading(nodes, g, n + 1) /\ g[n + 1] = Read(h[n], nodes, n + 1)
<1> DEFINE g == [i \in 0..(n + 1) |-> IF i = n + 1 THEN Read(h[n], nodes, n + 1) ELSE h[i]]
<1>1. /\ g[n + 1] = Read(h[n], nodes, n + 1) /\ \A i \in 0..n : g[i] = h[i]
  OBVIOUS
<1> HIDE DEF g
<1>2. ASSUME NEW i \in 1..(n + 1) PROVE g[i] = Read(g[i - 1], nodes, i)
  <2>1. CASE i = n + 1
    BY <1>1, <2>1
  <2>2. CASE i \in 1..n
    <3>1. i - 1 \in 0..n /\ i \in 0..n
      BY <2>2
    <3> QED BY <1>1, <2>2, <3>1 DEF Reading
  <2> QED BY <2>1, <2>2
<1>3. g[0] = Blank
  BY <1>1 DEF Reading
<1> QED BY <1>1, <1>2, <1>3 DEF Reading

LEMMA LongerGrouping ==
  ASSUME NEW n \in Nat, NEW nodes, NEW h, Grouping(nodes, h, n)
  PROVE  \E g : Grouping(nodes, g, n + 1) /\ g[n + 1] = JoinGroups(h[n], nodes[n + 1])
<1> DEFINE g == [i \in 0..(n + 1) |-> IF i = n + 1 THEN JoinGroups(h[n], nodes[n + 1]) ELSE h[i]]
<1>1. /\ g[n + 1] = JoinGroups(h[n], nodes[n + 1]) /\ \A i \in 0..n : g[i] = h[i]
  OBVIOUS
<1> HIDE DEF g
<1>2. ASSUME NEW i \in 1..(n + 1) PROVE g[i] = JoinGroups(g[i - 1], nodes[i])
  <2>1. CASE i = n + 1
    BY <1>1, <2>1
  <2>2. CASE i \in 1..n
    <3>1. i - 1 \in 0..n /\ i \in 0..n
      BY <2>2
    <3> QED BY <1>1, <2>2, <3>1 DEF Grouping
  <2> QED BY <2>1, <2>2
<1>3. g[0] = NoMembers
  BY <1>1 DEF Grouping
<1> QED BY <1>1, <1>2, <1>3 DEF Grouping

Bare(list) ==
  [i \in DOMAIN list |-> [xname |-> list[i].xname, of |-> list[i].of, index |-> list[i].index]]

LEMMA BareJoined ==
  ASSUME NEW s \in Seq(IfaceType), NEW t \in Seq(IfaceType)
  PROVE  Bare(s \o t) = Bare(s) \o Bare(t)
<1> DEFINE F(r) == [xname |-> r.xname, of |-> r.of, index |-> r.index]
<1> DEFINE T == [xname : Strings, of : Nat, index : Nat]
<1>1. \A l : Bare(l) = [i \in DOMAIN l |-> F(l[i])]
  BY DEF Bare
<1>a. \A r \in IfaceType : F(r) \in T
  BY DEF IfaceType
<1> HIDE DEF F, T
<1>2. /\ Bare(s) = [i \in 1..Len(s) |-> F(s[i])] /\ Bare(t) = [i \in 1..Len(t) |-> F(t[i])]
      /\ Len(s) \in Nat /\ Len(t) \in Nat
  BY <1>1
<1>3. Len(Bare(s)) = Len(s) /\ Len(Bare(t)) = Len(t)
  BY <1>2
<1>4. Bare(s) \o Bare(t)
      = [i \in 1..(Len(s) + Len(t)) |-> IF i <= Len(s) THEN F(s[i]) ELSE F(t[i - Len(s)])]
  <2>1. Bare(s) \in Seq(T) /\ Bare(t) \in Seq(T)
    <3>1. (\A i \in 1..Len(s) : F(s[i]) \in T) /\ (\A i \in 1..Len(t) : F(t[i]) \in T)
      BY <1>a
    <3> QED BY <1>2, <3>1
  <2> QED BY <1>2, <1>3, <2>1
<1>5. /\ DOMAIN (s \o t) = 1..(Len(s) + Len(t))
      /\ \A i \in 1..(Len(s) + Len(t)) : (s \o t)[i] = IF i <= Len(s) THEN s[i] ELSE t[i - Len(s)]
  OBVIOUS
<1>6. Bare(s \o t) = [i \in 1..(Len(s) + Len(t)) |-> F((s \o t)[i])]
  BY <1>1, <1>5
<1> QED BY <1>4, <1>5, <1>6

LEMMA BareOfNode ==
  ASSUME file.nodes[at].ifaces \in Seq(Seq(Address))
  PROVE  Bare(Ifaces(file.nodes[at])) = IfacesAt(file.nodes, at)
BY DEF Bare, Ifaces, IfacesAt

LEMMA BareNothing == Bare(<<>>) = <<>>
BY DEF Bare

(***************************************************************************)
(* What a command has built from the first n nodes.                        *)
(***************************************************************************)
BuiltFrom(nodes, n, list, cs, ifs) ==
  \E h : /\ Reading(nodes, h, n)
         /\ cs = h[n].comps /\ Bare(ifs) = h[n].ifaces
         /\ \A e \in DOMAIN list : list[e].systems = h[n].systems[list[e].id]
         /\ \A b \in Strings : (\A j \in 1..n : BMCOf(nodes[j]) # b) => h[n].systems[b] = <<>>

NamesFrom(nodes, n, list, cs) ==
  \A x : /\ HasIn(list, x) <=> \E j \in 1..n : nodes[j].xname = x
         /\ (\E i \in DOMAIN cs : cs[i].xname = x) <=> \E j \in 1..n : nodes[j].xname = x

(***************************************************************************)
(* A node's endpoint is the only one with the xname of its BMC, and it is  *)
(* new exactly if no node before it had that BMC.                          *)
(***************************************************************************)
OnlyEndpoint(e, n) ==
  /\ BMCOf(n) \in Strings /\ endpoints'[e].id = BMCOf(n)
  /\ \A d \in DOMAIN endpoints : /\ endpoints'[d].id = endpoints[d].id /\ endpoints[d].id \in Strings
                                 /\ d # e => endpoints[d].id # BMCOf(n)
  /\ e \notin DOMAIN endpoints => \A j \in 1..(at - 1) : BMCOf(file.nodes[j]) # BMCOf(n)

LEMMA NamesMore ==
  ASSUME TypeOK, NEW e, Gains(e, file.nodes[at]), AddComponent(file.nodes[at]), at \in DOMAIN file.nodes,
         NamesFrom(file.nodes, at - 1, endpoints, comps)
  PROVE  NamesFrom(file.nodes, at, endpoints', comps')
<1> DEFINE n == file.nodes[at]
<1>1. at \in Nat /\ 1..at = 1..(at - 1) \cup {at}
  BY Positions
<1>2. \A x : HasIn(endpoints', x) <=> HasIn(endpoints, x) \/ x = n.xname
  BY GainsServed, GainsOnly
<1>3. ASSUME NEW x
      PROVE  (\E i \in DOMAIN comps' : comps'[i].xname = x)
             <=> ((\E i \in DOMAIN comps : comps[i].xname = x) \/ x = n.xname)
  BY ComponentAdded DEF ComponentIn
<1>4. ASSUME NEW x
      PROVE  (\E j \in 1..at : file.nodes[j].xname = x)
             <=> ((\E j \in 1..(at - 1) : file.nodes[j].xname = x) \/ x = n.xname)
  BY <1>1
<1>5. \A x : /\ HasIn(endpoints, x) <=> \E j \in 1..(at - 1) : file.nodes[j].xname = x
             /\ (\E i \in DOMAIN comps : comps[i].xname = x) <=> \E j \in 1..(at - 1) : file.nodes[j].xname = x
  BY DEF NamesFrom
<1> HIDE DEF n
<1>6. ASSUME NEW x
      PROVE  /\ HasIn(endpoints', x) <=> \E j \in 1..at : file.nodes[j].xname = x
             /\ (\E i \in DOMAIN comps' : comps'[i].xname = x) <=> \E j \in 1..at : file.nodes[j].xname = x
  BY <1>2, <1>3, <1>4, <1>5
<1> QED BY <1>6 DEF NamesFrom

LEMMA BuiltMore ==
  ASSUME TypeOK, NEW e, Gains(e, file.nodes[at]), AddComponent(file.nodes[at]), at \in DOMAIN file.nodes,
         OnlyEndpoint(e, file.nodes[at]),
         NamesFrom(file.nodes, at - 1, endpoints, comps),
         BuiltFrom(file.nodes, at - 1, endpoints, comps, ifaces)
  PROVE  BuiltFrom(file.nodes, at, endpoints', comps', ifaces')
<1> DEFINE n == file.nodes[at]
           past == at - 1
<1>1. at \in Nat /\ 1..at = 1..past \cup {at} /\ past \in Nat /\ past + 1 = at
  BY Positions
<1>2. PICK h : /\ Reading(file.nodes, h, past)
               /\ comps = h[past].comps /\ Bare(ifaces) = h[past].ifaces
               /\ \A d \in DOMAIN endpoints : endpoints[d].systems = h[past].systems[endpoints[d].id]
               /\ \A b \in Strings : (\A j \in 1..past : BMCOf(file.nodes[j]) # b) => h[past].systems[b] = <<>>
  BY DEF BuiltFrom
<1>3. PICK g : Reading(file.nodes, g, at) /\ g[at] = Read(h[past], file.nodes, at)
  BY <1>1, <1>2, LongerReading
<1>4. /\ HasSystem(n.xname) <=> ~First(file.nodes, at)
      /\ HasComponent(n.xname) <=> ~First(file.nodes, at)
  <2>1. HasComponent(n.xname) <=> \E i \in DOMAIN comps : comps[i].xname = n.xname
    BY DEF HasComponent, Range
  <2>2. HasSystem(n.xname) <=> HasIn(endpoints, n.xname)
    BY HasSystemAt
  <2>3. ~First(file.nodes, at) <=> \E j \in 1..past : file.nodes[j].xname = n.xname
    BY DEF First
  <2> HIDE DEF n, past
  <2> QED BY <2>1, <2>2, <2>3 DEF NamesFrom, past
<1>5. Had(e) = h[past].systems[BMCOf(n)]
  <2>1. CASE e \in DOMAIN endpoints
    <3>1. endpoints[e].id = BMCOf(n)
      BY <2>1 DEF OnlyEndpoint
    <3> QED BY <1>2, <2>1, <3>1 DEF Had
  <2>2. CASE e \notin DOMAIN endpoints
    BY <1>2, <2>2 DEF Had, OnlyEndpoint
  <2> QED BY <2>1, <2>2
<1>6. CASE ~First(file.nodes, at)
  <2>1. g[at] = h[past]
    BY <1>3, <1>6 DEF Read
  <2>2. comps' = comps /\ ifaces' = ifaces /\ endpoints'[e].systems = Had(e)
    BY <1>4, <1>6 DEF Gains, AddComponent
  <2>3. ASSUME NEW d \in DOMAIN endpoints' PROVE endpoints'[d].systems = g[at].systems[endpoints'[d].id]
    <3>1. CASE d = e
      BY <1>5, <2>1, <2>2, <3>1 DEF OnlyEndpoint
    <3>2. CASE d # e
      <4>1. d \in DOMAIN endpoints /\ endpoints'[d] = endpoints[d]
        BY <3>2 DEF Gains
      <4> QED BY <1>2, <2>1, <4>1
    <3> QED BY <3>1, <3>2
  <2>4. ASSUME NEW b \in Strings, \A j \in 1..at : BMCOf(file.nodes[j]) # b
        PROVE  g[at].systems[b] = <<>>
    BY <1>1, <1>2, <2>1, <2>4
  <2>5. comps' = g[at].comps /\ Bare(ifaces') = g[at].ifaces
    BY <1>2, <2>1, <2>2
  <2> QED BY <1>3, <2>3, <2>4, <2>5 DEF BuiltFrom
<1>7. CASE First(file.nodes, at)
  <2> DEFINE new == EntryAt(file.nodes, at)
             sys == [b \in Strings |-> IF b = BMCOf(n) THEN Append(h[past].systems[b], new) ELSE h[past].systems[b]]
  <2>1. g[at] = [comps |-> Append(h[past].comps, new), ifaces |-> h[past].ifaces \o IfacesAt(file.nodes, at),
                 systems |-> sys]
    BY <1>3, <1>7 DEF Read
  <2>2. new = System(n) /\ new = [xname |-> n.xname, of |-> at]
    BY DEF EntryAt, System
  <2>3. /\ comps' = Append(comps, new) /\ ifaces' = ifaces \o Ifaces(n)
        /\ endpoints'[e].systems = Append(Had(e), new)
    BY <1>4, <1>7, <2>2 DEF Gains, AddComponent
  <2>4. comps' = g[at].comps /\ Bare(ifaces') = g[at].ifaces /\ g[at].systems = sys
    <3> DEFINE cs == Append(h[past].comps, new)
               ifs == h[past].ifaces \o IfacesAt(file.nodes, at)
    <3> HIDE DEF new, sys, n, past
    <3>1. g[at].comps = cs /\ g[at].ifaces = ifs /\ g[at].systems = sys
      <4>1. g[at] = [comps |-> cs, ifaces |-> ifs, systems |-> sys]
        BY <2>1
      <4> HIDE DEF cs, ifs
      <4> QED BY <4>1
    <3>2. h[past].comps = comps /\ h[past].ifaces = Bare(ifaces)
      BY <1>2
    <3>3. Bare(ifaces \o Ifaces(n)) = Bare(ifaces) \o IfacesAt(file.nodes, at)
      <4>1. n \in Node /\ at \in Nat \ {0} /\ comps \in Seq(SystemType) /\ ifaces \in Seq(IfaceType)
        BY TypeOKEndpoints DEF TypeOK, File, n
      <4>2. n.ifaces \in Seq(Seq(Address))
        BY <4>1 DEF Node
      <4> QED BY <4>1, <4>2, NodeTyped, BareJoined, BareOfNode DEF n
    <3> QED BY <2>3, <3>1, <3>2, <3>3
  <2>5. ASSUME NEW d \in DOMAIN endpoints' PROVE endpoints'[d].systems = g[at].systems[endpoints'[d].id]
    <3>1. CASE d = e
      <4>1. endpoints'[d].id = BMCOf(n) /\ BMCOf(n) \in Strings
        BY <3>1 DEF OnlyEndpoint
      <4>2. sys[BMCOf(n)] = Append(h[past].systems[BMCOf(n)], new)
        BY <4>1
      <4> HIDE DEF sys, new
      <4> QED BY <1>5, <2>3, <2>4, <3>1, <4>1, <4>2
    <3>2. CASE d # e
      <4>1. d \in DOMAIN endpoints /\ endpoints'[d] = endpoints[d] /\ endpoints[d].id \in Strings
            /\ endpoints[d].id # BMCOf(n)
        BY <3>2 DEF Gains, OnlyEndpoint
      <4>2. sys[endpoints[d].id] = h[past].systems[endpoints[d].id]
        BY <4>1
      <4> HIDE DEF sys, new
      <4> QED BY <1>2, <2>4, <4>1, <4>2
    <3> QED BY <3>1, <3>2
  <2>6. ASSUME NEW b \in Strings, \A j \in 1..at : BMCOf(file.nodes[j]) # b
        PROVE  g[at].systems[b] = <<>>
    <3>1. b # BMCOf(n) /\ \A j \in 1..past : BMCOf(file.nodes[j]) # b
      BY <1>1, <2>6
    <3>2. sys[b] = h[past].systems[b]
      BY <3>1
    <3> HIDE DEF sys, new
    <3> QED BY <1>2, <2>4, <3>1, <3>2
  <2> HIDE DEF sys, new
  <2> QED BY <1>3, <2>4, <2>5, <2>6 DEF BuiltFrom
<1> QED BY <1>6, <1>7

-----------------------------------------------------------------------------
(* Reading a consistent file of the older format *)

LEMMA ConsistentMeans ==
  ASSUME NEW nodes \in Seq(Node), Consistent(nodes)
  PROVE  /\ \A i \in DOMAIN nodes :
              /\ BMCOf(nodes[i]) \in Xnames \cap Strings /\ BMCOf(nodes[i]) # None
              /\ DeriveBMCXname(nodes[i].xname) = BMCOf(nodes[i])
              /\ BMCXname(nodes[i]) = BMCOf(nodes[i])
              /\ nodes[i].mac \in Texts \ {None}
         /\ \A i, j \in DOMAIN nodes :
              nodes[i].mac = nodes[j].mac <=> BMCOf(nodes[i]) = BMCOf(nodes[j])
<1>1. \A i \in DOMAIN nodes : nodes[i] \in Range(nodes)
  BY DEF Range
<1>2. ASSUME NEW n \in Range(nodes)
      PROVE  /\ BMCOf(n) \in Xnames \cap Strings /\ BMCOf(n) # None
             /\ DeriveBMCXname(n.xname) = BMCOf(n) /\ BMCXname(n) = BMCOf(n) /\ n.mac \in Texts \ {None}
  <2> DEFINE x == n.xname
  <2>1. /\ n.mac \in Texts \ {None} /\ x \in Xnames /\ x \in [1..5 -> Nat]
        /\ NodeXnameToBMCXname(x) # None
    BY DEF Consistent
  <2>2. x \notin Texts
    BY <2>1, TextAssumption
  <2>3. StringToXname(x) = [i \in 1..5 |-> IF i \in DOMAIN x THEN x[i] ELSE 0]
    BY <2>2 DEF StringToXname
  <2> HIDE DEF x
  <2>4. StringToXname(x) = x
    BY <2>1, <2>3
  <2>5. NodeXnameToBMCXname(x) = SubSeq(x, 1, 4) /\ SubSeq(x, 1, 4) \in ValidBMCs
    BY <2>1, <2>4 DEF NodeXnameToBMCXname
  <2>6. x \in Seq(Nat) /\ Len(x) = 5
    <3>1. x \in Seq(Nat) /\ DOMAIN x = 1..5
      BY <2>1, XnameAssumption
    <3> QED BY <3>1, LengthIs
  <2>7. DeriveBMCXname(x) = SubSeq(x, 1, 4)
    BY <2>2, <2>6 DEF DeriveBMCXname
  <2>8. BMCOf(n) = NodeXnameToBMCXname(x)
    BY DEF BMCOf, x
  <2>9. BMCOf(n) \in Xnames /\ BMCOf(n) \in Strings
    BY <2>5, <2>8, XnameAssumption DEF Strings
  <2>10. BMCXname(n) = BMCOf(n)
    BY <2>1, <2>8 DEF BMCXname, x
  <2> QED BY <2>1, <2>5, <2>7, <2>8, <2>9, <2>10 DEF x
<1>3. \A m, n \in Range(nodes) : m.mac = n.mac <=> BMCOf(m) = BMCOf(n)
  BY DEF Consistent, BMCOf
<1> HIDE DEF Range
<1> QED BY <1>1, <1>2, <1>3

(***************************************************************************)
(* The endpoints the nodes of the older format have come to, and the nodes *)
(* whose interfaces had to be looked at.                                   *)
(***************************************************************************)
EndpointsAre(nodes, n, list, ks) ==
  /\ \A e \in DOMAIN list : /\ list[e].managers = <<list[e].id>>
                            /\ \E i \in 1..n : list[e].id = BMCOf(nodes[i]) /\ list[e].mac = nodes[i].mac
  /\ \A k : k \in DOMAIN ks <=> \E i \in 1..n : nodes[i].mac = k
  /\ \A k \in DOMAIN ks : list[ks[k]].mac = k

IfacesSafe(nodes, n) == \A i \in 1..n : <<>> \in Range(nodes[i].ifaces) => ~First(nodes, i)

Passed == IF phase \in {"deprecated", "nodes"} THEN at - 1 ELSE Len(file.nodes)

OldInv ==
  DeprecatedFormat(file) /\ Consistent(file.nodes) /\ phase \in {"deprecated", "groups", "done"} =>
    /\ Passed <= Len(file.nodes)
    /\ BuiltFrom(file.nodes, Passed, endpoints, comps, ifaces)
    /\ NamesFrom(file.nodes, Passed, endpoints, comps)
    /\ EndpointsAre(file.nodes, Passed, endpoints, keys)
    /\ IfacesSafe(file.nodes, Passed)

(***************************************************************************)
(* A node with a BMC that is known has its endpoint, and one whose BMC is  *)
(* not is the first of its BMC.                                            *)
(***************************************************************************)
LEMMA DeprecatedOnly ==
  ASSUME TypeOK, MacsOnce, AddDeprecatedNode, Consistent(file.nodes), NEW e, DeprecatedEffect(e),
         EndpointsAre(file.nodes, at - 1, endpoints, keys)
  PROVE  OnlyEndpoint(e, file.nodes[at]) /\ EndpointsAre(file.nodes, at, endpoints', keys')
<1> DEFINE n == file.nodes[at]
           b == BMCOf(n)
<1>1. /\ file.nodes \in Seq(Node) /\ at \in DOMAIN file.nodes /\ DOMAIN file.nodes = 1..Len(file.nodes)
      /\ at \in Nat /\ 1..at = 1..(at - 1) \cup {at} /\ 1..(at - 1) \subseteq DOMAIN file.nodes
  <2>1. file.nodes \in Seq(Node) /\ at \in DOMAIN file.nodes
    BY DEF TypeOK, File, AddDeprecatedNode
  <2>2. /\ DOMAIN file.nodes = 1..Len(file.nodes) /\ Len(file.nodes) \in Nat
        /\ at \in Nat /\ 1..at = 1..(at - 1) \cup {at}
    BY Positions
  <2>3. 1..(at - 1) \subseteq DOMAIN file.nodes
    BY <2>1, <2>2
  <2> QED BY <2>1, <2>2, <2>3
<1>2. /\ b \in Strings /\ b # None /\ BMCXname(n) = b
      /\ \A i \in 1..(at - 1) : file.nodes[i].mac = n.mac <=> BMCOf(file.nodes[i]) = b
      /\ \A i \in 1..(at - 1) : BMCOf(file.nodes[i]) \in Strings
  BY <1>1, ConsistentMeans
<1>3. /\ \A d \in DOMAIN endpoints : /\ endpoints[d].managers = <<endpoints[d].id>>
                                     /\ \E i \in 1..(at - 1) : endpoints[d].id = BMCOf(file.nodes[i])
                                                               /\ endpoints[d].mac = file.nodes[i].mac
      /\ \A k : k \in DOMAIN keys <=> \E i \in 1..(at - 1) : file.nodes[i].mac = k
      /\ \A k \in DOMAIN keys : endpoints[keys[k]].mac = k
  BY DEF EndpointsAre
<1> DEFINE S == IF HasSystem(n.xname) THEN Was(e).systems ELSE Append(Was(e).systems, System(n))
           M == IF HasManager(b) THEN Was(e).managers ELSE Append(Was(e).managers, b)
<1>4. /\ IF n.mac \in DOMAIN keys THEN e = keys[n.mac] /\ e \in DOMAIN endpoints
         ELSE e \notin DOMAIN endpoints
      /\ Was(e) \in EndpointType
      /\ DOMAIN endpoints' = DOMAIN endpoints \cup {e}
      /\ \A d \in DOMAIN endpoints : d # e => endpoints'[d] = endpoints[d]
      /\ keys' = MapTo({n.mac}, e)
  BY DEF DeprecatedEffect
<1>5. endpoints'[e] = [Was(e) EXCEPT !.systems = S, !.managers = M]
  BY <1>2, <1>4 DEF DeprecatedEffect, EndpointType
<1>6. \A d \in DOMAIN endpoints : endpoints[d].id = b <=> endpoints[d].mac = n.mac
  <2> HIDE DEF b, n
  <2> SUFFICES ASSUME NEW d \in DOMAIN endpoints PROVE endpoints[d].id = b <=> endpoints[d].mac = n.mac
    OBVIOUS
  <2>1. PICK i \in 1..(at - 1) : endpoints[d].id = BMCOf(file.nodes[i]) /\ endpoints[d].mac = file.nodes[i].mac
    BY <1>3
  <2> QED BY <1>2, <2>1
<1> HIDE DEF b, S, M
<1>7. /\ endpoints'[e].id = Was(e).id /\ endpoints'[e].mac = Was(e).mac /\ endpoints'[e].managers = M
  BY <1>4, <1>5 DEF EndpointType
<1>8. Was(e).id = b /\ Was(e).mac = n.mac /\ M = <<b>>
  <2>1. CASE e \in DOMAIN endpoints
    <3>1. n.mac \in DOMAIN keys /\ e = keys[n.mac] /\ Was(e) = endpoints[e]
      BY <1>4, <2>1 DEF Was
    <3>2. endpoints[e].mac = n.mac /\ endpoints[e].id = b
      BY <1>3, <1>6, <2>1, <3>1
    <3>3. endpoints[e].managers = <<b>>
      BY <1>3, <2>1, <3>2
    <3>4. HasManager(b)
      BY <2>1, <3>3, HasManagerAt
    <3> QED BY <3>1, <3>2, <3>3, <3>4 DEF M
  <2>2. CASE e \notin DOMAIN endpoints
    <3>1. n.mac \notin DOMAIN keys
      BY <1>4, <2>2
    <3>2. Was(e).id = b /\ Was(e).mac = n.mac /\ Was(e).managers = <<>>
      BY <1>2, <2>2 DEF Was, Endpoint
    <3>3. ~HasManager(b)
      <4> SUFFICES ASSUME HasManager(b) PROVE FALSE
        OBVIOUS
      <4>1. PICK d \in DOMAIN endpoints : \E i \in DOMAIN endpoints[d].managers : endpoints[d].managers[i] = b
        BY HasManagerAt
      <4>2. endpoints[d].managers = <<endpoints[d].id>>
        BY <1>3
      <4>3. endpoints[d].id = b
        BY <4>1, <4>2
      <4>4. endpoints[d].mac = n.mac /\ endpoints[d].mac \in DOMAIN keys
        BY <1>6, <4>3 DEF MacsOnce
      <4> QED BY <3>1, <4>4
    <3> QED BY <3>2, <3>3 DEF M
  <2> QED BY <2>1, <2>2
<1>9. OnlyEndpoint(e, n)
  <2>1. ASSUME NEW d \in DOMAIN endpoints
        PROVE  /\ endpoints'[d].id = endpoints[d].id /\ endpoints[d].id \in Strings
               /\ d # e => endpoints[d].id # b
    <3>1. endpoints'[d].id = endpoints[d].id
      <4>1. d = e => Was(e) = endpoints[d]
        BY DEF Was
      <4> QED BY <1>4, <1>7, <4>1
    <3>2. endpoints[d].id \in Strings
      BY <1>2, <1>3
    <3>3. ASSUME d # e, endpoints[d].id = b PROVE FALSE
      <4>1. endpoints[d].mac = n.mac /\ n.mac \in DOMAIN keys
        BY <1>6, <3>3 DEF MacsOnce
      <4>2. e \in DOMAIN endpoints /\ endpoints[e].mac = n.mac
        BY <1>3, <1>4, <4>1
      <4> QED BY <3>3, <4>1, <4>2 DEF MacsOnce
    <3> QED BY <3>1, <3>2, <3>3
  <2>2. ASSUME e \notin DOMAIN endpoints, NEW j \in 1..(at - 1) PROVE BMCOf(file.nodes[j]) # b
    <3>1. n.mac \notin DOMAIN keys
      BY <1>4, <2>2
    <3> QED BY <1>2, <1>3, <3>1
  <2> QED BY <1>2, <1>7, <1>8, <2>1, <2>2 DEF OnlyEndpoint, b
<1>10. EndpointsAre(file.nodes, at, endpoints', keys')
  <2>1. ASSUME NEW d \in DOMAIN endpoints'
        PROVE  /\ endpoints'[d].managers = <<endpoints'[d].id>>
               /\ \E i \in 1..at : endpoints'[d].id = BMCOf(file.nodes[i]) /\ endpoints'[d].mac = file.nodes[i].mac
    <3>1. CASE d = e
      BY <1>1, <1>7, <1>8, <3>1 DEF b
    <3>2. CASE d # e
      BY <1>1, <1>3, <1>4, <3>2
    <3> QED BY <3>1, <3>2
  <2>2. DOMAIN keys' = DOMAIN keys \cup {n.mac} /\ \A k \in DOMAIN keys' : keys'[k] = IF k = n.mac THEN e ELSE keys[k]
    BY <1>4 DEF MapTo
  <2>3. ASSUME NEW k PROVE k \in DOMAIN keys' <=> \E i \in 1..at : file.nodes[i].mac = k
    BY <1>1, <1>3, <2>2
  <2>4. ASSUME NEW k \in DOMAIN keys' PROVE endpoints'[keys'[k]].mac = k
    <3>1. CASE k = n.mac
      BY <1>7, <1>8, <2>2, <3>1
    <3>2. CASE k # n.mac
      <4>1. k \in DOMAIN keys /\ keys'[k] = keys[k] /\ endpoints[keys[k]].mac = k /\ keys[k] \in DOMAIN endpoints
        BY <1>3, <2>2, <3>2 DEF TypeOK
      <4>2. keys[k] = e => Was(e) = endpoints[e]
        BY <4>1 DEF Was
      <4>3. keys[k] # e
        BY <1>8, <3>2, <4>1, <4>2
      <4> QED BY <1>4, <4>1, <4>3
    <3> QED BY <3>1, <3>2
  <2> HIDE DEF n
  <2> QED BY <2>1, <2>3, <2>4 DEF EndpointsAre
<1> QED BY <1>9, <1>10

LEMMA SafeMore ==
  ASSUME TypeOK, at \in DOMAIN file.nodes, ~Panics(file.nodes[at]),
         NamesFrom(file.nodes, at - 1, endpoints, comps), IfacesSafe(file.nodes, at - 1)
  PROVE  IfacesSafe(file.nodes, at)
<1>1. 1..at = 1..(at - 1) \cup {at}
  BY Positions
<1>2. <<>> \in Range(file.nodes[at].ifaces) => HasIn(endpoints, file.nodes[at].xname)
  BY HasSystemAt DEF Panics
<1>3. <<>> \in Range(file.nodes[at].ifaces) => ~First(file.nodes, at)
  BY <1>2 DEF NamesFrom, First
<1> QED BY <1>1, <1>3 DEF IfacesSafe

LEMMA AddDeprecatedNodeOld ==
  ASSUME TypeOK, OnceInv, OldInv, AddDeprecatedNode
  PROVE  OldInv'
<1> DEFINE n == file.nodes[at]
<1>1. /\ phase = "deprecated" /\ phase' = "deprecated" /\ file' = file /\ at' = at + 1
      /\ at \in DOMAIN file.nodes /\ AddComponent(n) /\ ~Panics(n)
  BY DEF AddDeprecatedNode, Advance
<1>2. DeprecatedFormat(file)' <=> DeprecatedFormat(file)
  BY <1>1 DEF DeprecatedFormat
<1>3. Consistent(file.nodes)' <=> Consistent(file.nodes)
  BY <1>1 DEF Consistent
<1> SUFFICES ASSUME DeprecatedFormat(file), Consistent(file.nodes) PROVE OldInv'
  BY <1>2, <1>3 DEF OldInv
<1>4. /\ BuiltFrom(file.nodes, at - 1, endpoints, comps, ifaces)
      /\ NamesFrom(file.nodes, at - 1, endpoints, comps)
      /\ EndpointsAre(file.nodes, at - 1, endpoints, keys)
      /\ IfacesSafe(file.nodes, at - 1)
  BY <1>1 DEF OldInv, Passed
<1>5. PICK e \in Nat : DeprecatedEffect(e)
  BY DeprecatedStep
<1>6. Gains(e, n)
  BY <1>5, DeprecatedGains
<1>7. OnlyEndpoint(e, n) /\ EndpointsAre(file.nodes, at, endpoints', keys')
  BY <1>4, <1>5, DeprecatedOnly DEF OnceInv
<1>8. NamesFrom(file.nodes, at, endpoints', comps')
  BY <1>1, <1>4, <1>6, NamesMore
<1>9. BuiltFrom(file.nodes, at, endpoints', comps', ifaces')
  BY <1>1, <1>4, <1>6, <1>7, BuiltMore
<1>10. IfacesSafe(file.nodes, at)
  BY <1>1, <1>4, SafeMore
<1>11. at <= Len(file.nodes) /\ at' - 1 = at
  BY <1>1, Positions
<1> QED BY <1>1, <1>7, <1>8, <1>9, <1>10, <1>11 DEF OldInv, Passed

(***************************************************************************)
(* At the start of a list of nodes nothing has come of it.                 *)
(***************************************************************************)
LEMMA NoneRead ==
  ASSUME NEW nodes, NEW list, \A e \in DOMAIN list : list[e].systems = <<>> /\ list[e].id \in Strings
  PROVE  BuiltFrom(nodes, 0, list, <<>>, <<>>) /\ NamesFrom(nodes, 0, list, <<>>)
<1> DEFINE h == [i \in {0} |-> Blank]
<1>1. h[0] = Blank
  OBVIOUS
<1> HIDE DEF h
<1>2. /\ Blank.comps = <<>> /\ Blank.ifaces = <<>>
      /\ \A b \in Strings : Blank.systems[b] = <<>>
  BY DEF Blank
<1>3. Reading(nodes, h, 0)
  BY <1>1 DEF Reading
<1>4. BuiltFrom(nodes, 0, list, <<>>, <<>>)
  BY <1>1, <1>2, <1>3, BareNothing DEF BuiltFrom
<1>5. NamesFrom(nodes, 0, list, <<>>)
  <2>1. \A e \in DOMAIN list : DOMAIN list[e].systems = {}
    OBVIOUS
  <2>2. \A x : ~HasIn(list, x)
    BY <2>1 DEF HasIn
  <2>3. DOMAIN << >> = {} /\ 1..0 = {}
    OBVIOUS
  <2> QED BY <2>2, <2>3 DEF NamesFrom
<1> QED BY <1>4, <1>5

LEMMA OldStep ==
  ASSUME TypeOK, ShapeInv, OnceInv, OldInv, [Next]_vars
  PROVE  OldInv'
<1>1. file' = file => /\ (DeprecatedFormat(file)' <=> DeprecatedFormat(file))
                      /\ (Consistent(file.nodes)' <=> Consistent(file.nodes))
  BY DEF DeprecatedFormat, Consistent
<1>2. CASE ChooseFormat
  <2>1. /\ phase = "format" /\ phase' = IF DeprecatedFormat(file) THEN "deprecated" ELSE "bmcs"
        /\ at' = 1 /\ UNCHANGED <<file, keys, endpoints, comps, ifaces>>
    BY <1>2 DEF ChooseFormat, Enter, built
  <2> SUFFICES ASSUME DeprecatedFormat(file) PROVE OldInv'
    BY <1>1, <2>1 DEF OldInv
  <2>2. phase' = "deprecated" /\ at' - 1 = 0
    BY <2>1
  <2>3. DOMAIN keys = {} /\ endpoints = <<>> /\ comps = <<>> /\ ifaces = <<>>
    BY <2>1 DEF ShapeInv
  <2>4. DOMAIN endpoints = {} /\ 1..0 = {}
    BY <2>3
  <2>5. BuiltFrom(file.nodes, 0, endpoints, comps, ifaces) /\ NamesFrom(file.nodes, 0, endpoints, comps)
    BY <2>3, <2>4, NoneRead
  <2>6. EndpointsAre(file.nodes, 0, endpoints, keys) /\ IfacesSafe(file.nodes, 0)
    BY <2>3, <2>4 DEF EndpointsAre, IfacesSafe
  <2>7. 0 <= Len(file.nodes)
    BY Positions
  <2> QED BY <2>1, <2>2, <2>5, <2>6, <2>7 DEF OldInv, Passed
<1>3. CASE NextLoop
  <2>1. UNCHANGED <<file, keys, endpoints, comps, ifaces>> /\ at' = 1
    BY <1>3 DEF NextLoop, Enter, built
  <2> SUFFICES ASSUME DeprecatedFormat(file), Consistent(file.nodes) PROVE OldInv'
    BY <1>1, <2>1 DEF OldInv
  <2>2. phase \in {"deprecated", "groups"} /\ phase' \in {"groups", "done"}
        /\ (phase = "deprecated" => at > Len(file.nodes))
    BY <1>3 DEF NextLoop, Enter, ShapeInv
  <2>3. Passed = Len(file.nodes)
    <3>1. Passed <= Len(file.nodes)
      BY <2>2 DEF OldInv
    <3> QED BY <2>2, <3>1, Positions DEF Passed
  <2>4. Passed' = Len(file.nodes)
    BY <2>1, <2>2 DEF Passed
  <2> QED BY <2>1, <2>2, <2>3, <2>4 DEF OldInv
<1>4. CASE AddBMC \/ AddUnresolvedNode \/ AddNode
  <2>1. phase \in {"bmcs", "nodes"} /\ phase' = phase
    BY <1>4 DEF AddBMC, AddUnresolvedNode, AddNode, Advance
  <2> QED BY <2>1 DEF OldInv
<1>5. CASE PanicOnNode \/ PanicOnDeprecatedNode
  BY <1>5 DEF PanicOnNode, PanicOnDeprecatedNode, Panic, OldInv
<1>6. CASE AddToGroups
  <2>1. phase = "groups" /\ UNCHANGED <<file, phase, keys, endpoints, comps, ifaces>>
    BY <1>6 DEF AddToGroups, Advance
  <2> QED BY <1>1, <2>1 DEF OldInv, Passed
<1>7. CASE Convert
  BY <1>7 DEF Convert, Enter, OldInv
<1>8. CASE UNCHANGED vars
  <2>1. UNCHANGED <<file, phase, at, keys, endpoints, comps, ifaces>>
    BY <1>8 DEF vars, built
  <2> QED BY <1>1, <2>1 DEF OldInv, Passed
<1> QED BY <1>2, <1>3, <1>4, <1>5, <1>6, <1>7, <1>8, AddDeprecatedNodeOld DEF Next, Ended

LEMMA OldHolds == Spec => []OldInv
<1>1. Init => OldInv
  BY DEF Init, OldInv
<1> QED BY <1>1, TypeCorrect, ShapeHolds, OnceHolds, OldStep, PTL DEF Spec

-----------------------------------------------------------------------------
(* Reading a file of the new format whose nodes name BMCs of it            *)

(***************************************************************************)
(* Every node names the BMC its xname has, by an xname that one BMC of the *)
(* file has.                                                               *)
(***************************************************************************)
Matched(f) ==
  /\ ~DeprecatedFormat(f) /\ BMCsApart(f)
  /\ \A i \in DOMAIN f.nodes : /\ f.nodes[i].bmc = BMCOf(f.nodes[i]) /\ BMCOf(f.nodes[i]) # None
                               /\ \E j \in DOMAIN f.bmcs : f.bmcs[j].xname = BMCOf(f.nodes[i])
  /\ \A j \in DOMAIN f.bmcs : {f.bmcs[j].name, f.bmcs[j].mac} \subseteq Texts /\ f.bmcs[j].xname \in Xnames
  /\ \A i, j \in DOMAIN f.bmcs : f.bmcs[i].xname = f.bmcs[j].xname => i = j

NewInv ==
  Matched(file) =>
    /\ phase = "bmcs" => comps = <<>> /\ ifaces = <<>>
    /\ phase \in {"nodes", "groups", "done"} =>
         /\ Passed <= Len(file.nodes)
         /\ BuiltFrom(file.nodes, Passed, endpoints, comps, ifaces)
         /\ NamesFrom(file.nodes, Passed, endpoints, comps)
    /\ IfacesSafe(file.nodes, Len(file.nodes)) => phase # "panic"

LEMMA MatchedEndpoint ==
  ASSUME TypeOK, LossInv, ApartInv, Matched(file), phase = "nodes", at \in DOMAIN file.nodes
  PROVE  LET n == file.nodes[at]
         IN  /\ Resolves(n) /\ BMCOf(n) \in Strings
             /\ keys[ResolveBMC(n)] \in DOMAIN endpoints
             /\ \A d \in DOMAIN endpoints : /\ endpoints[d].id \in Strings
                                            /\ endpoints[d].id = BMCOf(n) <=> d = keys[ResolveBMC(n)]
<1> DEFINE n == file.nodes[at]
           b == BMCOf(n)
<1>1. /\ ~DeprecatedFormat(file) /\ BMCsApart(file) /\ n.bmc = b /\ b # None
      /\ \E j \in DOMAIN file.bmcs : file.bmcs[j].xname = b
      /\ \A j \in DOMAIN file.bmcs : file.bmcs[j].name \in Texts /\ file.bmcs[j].mac \in Texts
                                     /\ file.bmcs[j].xname \in Xnames
      /\ \A i, j \in DOMAIN file.bmcs : file.bmcs[i].xname = file.bmcs[j].xname => i = j
  BY DEF Matched
<1>2. BMCsWhole(file, DOMAIN file.bmcs, keys, endpoints)
  BY <1>1 DEF ApartInv, PastBMCs
<1>3. KeysFrom
  BY <1>1 DEF LossInv, BMCsInv
<1>4. ResolveBMC(n) = b
  BY <1>1 DEF ResolveBMC
<1> HIDE DEF n, b
<1>5. PICK j \in DOMAIN file.bmcs : file.bmcs[j].xname = b
  BY <1>1
<1>6. j \in DOMAIN endpoints /\ endpoints[j].of = j
  BY <1>2 DEF BMCsWhole
<1>7. b \in DOMAIN keys
  <2>1. b \in BMCKeys(file.bmcs[j])
    BY <1>5 DEF BMCKeys
  <2> QED BY <1>3, <1>6, <2>1 DEF KeysFrom
<1>8. keys[b] \in DOMAIN file.bmcs /\ keys[b] \in DOMAIN endpoints /\ b \in BMCKeys(file.bmcs[keys[b]])
  BY <1>2, <1>7 DEF BMCsWhole, TypeOK
<1>9. b \in Xnames /\ b \in Strings
  BY <1>1, <1>5 DEF Strings
<1>10. file.bmcs[keys[b]].xname = b
  <2>1. b \notin Texts
    BY <1>9, TextAssumption
  <2> QED BY <1>1, <1>8, <2>1 DEF BMCKeys
<1>11. ASSUME NEW d \in DOMAIN endpoints
       PROVE  endpoints[d].id \in Strings /\ (endpoints[d].id = b <=> d = keys[b])
  <2>1. d \in DOMAIN file.bmcs /\ endpoints[d].id = file.bmcs[d].xname
    BY <1>2 DEF BMCsWhole
  <2> QED BY <1>1, <1>8, <1>10, <2>1 DEF Strings
<1> QED BY <1>1, <1>4, <1>7, <1>8, <1>9, <1>11 DEF Resolves, n, b

LEMMA AddNodeNew ==
  ASSUME TypeOK, LossInv, ApartInv, NewInv, AddNode
  PROVE  NewInv'
<1> DEFINE n == file.nodes[at]
<1>1. /\ phase = "nodes" /\ phase' = "nodes" /\ file' = file /\ at' = at + 1
      /\ at \in DOMAIN file.nodes /\ AddComponent(n) /\ ~Panics(n)
  BY DEF AddNode, Advance
<1>2. Matched(file)' <=> Matched(file)
  BY <1>1 DEF Matched, DeprecatedFormat, BMCsApart
<1> SUFFICES ASSUME Matched(file) PROVE NewInv'
  BY <1>2 DEF NewInv
<1>3. /\ BuiltFrom(file.nodes, at - 1, endpoints, comps, ifaces)
      /\ NamesFrom(file.nodes, at - 1, endpoints, comps)
  BY <1>1 DEF NewInv, Passed
<1>4. PICK e \in Nat : NodeEffect(e)
  BY NodeStep
<1>5. Gains(e, n)
  BY <1>4, NodeGains
<1>6. e = keys[ResolveBMC(n)] /\ e \in DOMAIN endpoints /\ endpoints[e] \in EndpointType
  BY <1>4 DEF NodeEffect
<1>7. /\ BMCOf(n) \in Strings
      /\ \A d \in DOMAIN endpoints : endpoints[d].id \in Strings /\ (endpoints[d].id = BMCOf(n) <=> d = e)
  BY <1>1, <1>6, MatchedEndpoint
<1>8. \A d \in DOMAIN endpoints : endpoints'[d].id = endpoints[d].id
  <2> SUFFICES ASSUME NEW d \in DOMAIN endpoints PROVE endpoints'[d].id = endpoints[d].id
    OBVIOUS
  <2>1. CASE d = e
    <3> DEFINE more == Append(endpoints[e].systems, System(n))
    <3>1. endpoints' = endpoints \/ endpoints' = [endpoints EXCEPT ![e].systems = more]
      BY <1>4 DEF NodeEffect
    <3> HIDE DEF more
    <3>2. endpoints'[e] = endpoints[e] \/ endpoints'[e] = [endpoints[e] EXCEPT !.systems = more]
      BY <1>6, <3>1, TypeOKEndpoints
    <3> QED BY <1>6, <2>1, <3>2 DEF EndpointType
  <2>2. CASE d # e
    BY <1>5, <2>2 DEF Gains
  <2> QED BY <2>1, <2>2
<1>9. OnlyEndpoint(e, n)
  <2> HIDE DEF n
  <2> QED BY <1>6, <1>7, <1>8 DEF OnlyEndpoint
<1>10. NamesFrom(file.nodes, at, endpoints', comps')
  BY <1>1, <1>3, <1>5, NamesMore
<1>11. BuiltFrom(file.nodes, at, endpoints', comps', ifaces')
  BY <1>1, <1>3, <1>5, <1>9, BuiltMore
<1>12. at <= Len(file.nodes) /\ at' - 1 = at
  BY <1>1, Positions
<1> QED BY <1>1, <1>10, <1>11, <1>12 DEF NewInv, Passed

LEMMA NewStep ==
  ASSUME TypeOK, ShapeInv, LossInv, ApartInv, NewInv, [Next]_vars
  PROVE  NewInv'
<1>1. file' = file => (Matched(file)' <=> Matched(file))
  BY DEF Matched, DeprecatedFormat, BMCsApart
<1>2. CASE ChooseFormat \/ AddBMC
  <2>1. phase' \notin {"nodes", "groups", "done", "panic"} /\ UNCHANGED <<file, comps, ifaces>>
        /\ phase \in {"format", "bmcs"}
    BY <1>2 DEF ChooseFormat, AddBMC, Enter, Advance, built
  <2> QED BY <1>1, <2>1 DEF NewInv, ShapeInv
<1>3. CASE NextLoop
  <2>1. UNCHANGED <<file, keys, endpoints, comps, ifaces>> /\ at' = 1
    BY <1>3 DEF NextLoop, Enter, built
  <2> SUFFICES ASSUME Matched(file) PROVE NewInv'
    BY <1>1, <2>1 DEF NewInv
  <2>2. ~DeprecatedFormat(file) /\ BMCsApart(file)
    BY DEF Matched
  <2>3. CASE phase = "bmcs" /\ at > Len(file.bmcs) /\ phase' = "nodes"
    <3>1. /\ DOMAIN endpoints = 1..(at - 1)
          /\ \A e \in DOMAIN endpoints : endpoints[e].systems = <<>>
      BY <2>2, <2>3 DEF ApartInv, PastBMCs, BMCsWhole
    <3>2. \A e \in DOMAIN endpoints : endpoints[e].id \in Strings
      BY TypeOKEndpoints DEF EndpointType
    <3>3. comps = <<>> /\ ifaces = <<>>
      BY <2>3 DEF NewInv
    <3>4. BuiltFrom(file.nodes, 0, endpoints, comps, ifaces) /\ NamesFrom(file.nodes, 0, endpoints, comps)
      BY <3>1, <3>2, <3>3, NoneRead
    <3>5. 0 <= Len(file.nodes) /\ at' - 1 = 0
      BY <2>1, Positions
    <3> QED BY <2>1, <2>3, <3>4, <3>5 DEF NewInv, Passed
  <2>4. CASE phase \in {"nodes", "groups"} /\ phase' \in {"groups", "done"}
             /\ (phase = "nodes" => at > Len(file.nodes))
    <3>1. Passed = Len(file.nodes)
      <4>1. Passed <= Len(file.nodes)
        BY <2>4 DEF NewInv
      <4> QED BY <2>4, <4>1, Positions DEF Passed
    <3>2. Passed' = Len(file.nodes)
      BY <2>1, <2>4 DEF Passed
    <3> QED BY <2>1, <2>4, <3>1, <3>2 DEF NewInv
  <2> QED BY <1>3, <2>2, <2>3, <2>4 DEF NextLoop, Enter, ShapeInv
<1>4. CASE AddUnresolvedNode
  <2>1. phase = "nodes" /\ at \in DOMAIN file.nodes /\ ~Resolves(file.nodes[at]) /\ file' = file
    BY <1>4 DEF AddUnresolvedNode, Advance
  <2>2. ~Matched(file)
    BY <2>1, MatchedEndpoint
  <2> QED BY <1>1, <2>1, <2>2 DEF NewInv
<1>5. CASE PanicOnNode
  <2>1. phase = "nodes" /\ at \in DOMAIN file.nodes /\ Panics(file.nodes[at]) /\ file' = file /\ phase' = "panic"
    BY <1>5 DEF PanicOnNode, Panic
  <2> SUFFICES ASSUME Matched(file), IfacesSafe(file.nodes, Len(file.nodes)) PROVE FALSE
    BY <1>1, <2>1 DEF NewInv, IfacesSafe
  <2>2. NamesFrom(file.nodes, at - 1, endpoints, comps)
    BY <2>1 DEF NewInv, Passed
  <2>3. <<>> \in Range(file.nodes[at].ifaces) /\ ~HasIn(endpoints, file.nodes[at].xname)
    BY <2>1, HasSystemAt DEF Panics
  <2>4. First(file.nodes, at)
    BY <2>2, <2>3 DEF NamesFrom, First
  <2>5. at \in 1..Len(file.nodes)
    BY <2>1, Positions
  <2> QED BY <2>3, <2>4, <2>5 DEF IfacesSafe
<1>6. CASE AddDeprecatedNode \/ PanicOnDeprecatedNode
  <2>1. phase = "deprecated" /\ file' = file
    BY <1>6 DEF AddDeprecatedNode, PanicOnDeprecatedNode, Panic, Advance
  <2>2. ~Matched(file)
    BY <2>1 DEF ShapeInv, Matched
  <2> QED BY <1>1, <2>1, <2>2 DEF NewInv
<1>7. CASE AddToGroups
  <2>1. phase = "groups" /\ UNCHANGED <<file, phase, keys, endpoints, comps, ifaces>>
    BY <1>7 DEF AddToGroups, Advance
  <2> QED BY <1>1, <2>1 DEF NewInv, Passed
<1>8. CASE Convert
  BY <1>8 DEF Convert, Enter, NewInv
<1>9. CASE UNCHANGED vars
  <2>1. UNCHANGED <<file, phase, at, keys, endpoints, comps, ifaces>>
    BY <1>9 DEF vars, built
  <2> QED BY <1>1, <2>1 DEF NewInv, Passed
<1> QED BY <1>2, <1>3, <1>4, <1>5, <1>6, <1>7, <1>8, <1>9, AddNodeNew DEF Next, Ended

LEMMA NewHolds == Spec => []NewInv
<1>1. Init => NewInv
  BY DEF Init, NewInv
<1> QED BY <1>1, TypeCorrect, ShapeHolds, LossHolds, ApartHolds, NewStep, PTL DEF Spec

-----------------------------------------------------------------------------
(* The groups of either format *)

GroupsFrom(nodes, n, gs) == \E h : Grouping(nodes, h, n) /\ gs = h[n]

Joining == IF phase = "groups" THEN at - 1 ELSE IF phase = "done" THEN Len(file.nodes) ELSE 0

GroupsInv == phase # "panic" => Joining <= Len(file.nodes) /\ GroupsFrom(file.nodes, Joining, groups)

LEMMA GroupsStep ==
  ASSUME TypeOK, ShapeInv, GroupsInv, [Next]_vars
  PROVE  GroupsInv'
<1>1. ASSUME NEW nodes PROVE GroupsFrom(nodes, 0, NoMembers)
  <2> DEFINE h == [i \in {0} |-> NoMembers]
  <2>1. h[0] = NoMembers
    OBVIOUS
  <2> HIDE DEF h
  <2>2. Grouping(nodes, h, 0)
    BY <2>1 DEF Grouping
  <2> QED BY <2>1, <2>2 DEF GroupsFrom
<1>2. CASE ChooseFormat \/ AddBMC \/ AddUnresolvedNode \/ AddNode \/ AddDeprecatedNode
  <2>1. /\ phase \notin {"groups", "done", "panic"} /\ phase' \notin {"groups", "done", "panic"}
        /\ UNCHANGED <<file, groups>>
    BY <1>2 DEF ChooseFormat, AddBMC, AddUnresolvedNode, AddNode, AddDeprecatedNode, Enter, Advance, built
  <2>2. Joining = 0 /\ Joining' = 0
    BY <2>1 DEF Joining
  <2> QED BY <2>1, <2>2 DEF GroupsInv
<1>3. CASE NextLoop
  <2>1. UNCHANGED <<file, groups>> /\ at' = 1 /\ phase # "panic" /\ phase' # "panic"
    BY <1>3 DEF NextLoop, Enter, built
  <2>2. Joining' = Joining
    <3>1. CASE phase = "groups"
      <4>1. at > Len(file.nodes) /\ phase' = "done" /\ at - 1 <= Len(file.nodes)
        BY <1>3, <3>1 DEF NextLoop, Enter, GroupsInv, Joining
      <4> QED BY <2>1, <3>1, <4>1, Positions DEF Joining
    <3>2. CASE phase # "groups"
      <4>1. phase \in {"bmcs", "nodes", "deprecated"} /\ phase' \in {"nodes", "groups"}
        BY <1>3, <3>2 DEF NextLoop, Enter
      <4> QED BY <2>1, <4>1 DEF Joining
    <3> QED BY <3>1, <3>2
  <2> QED BY <2>1, <2>2 DEF GroupsInv
<1>4. CASE PanicOnNode \/ PanicOnDeprecatedNode
  BY <1>4 DEF PanicOnNode, PanicOnDeprecatedNode, Panic, GroupsInv
<1>5. CASE AddToGroups
  <2> DEFINE n == file.nodes[at]
             past == at - 1
  <2>1. /\ phase = "groups" /\ phase' = "groups" /\ file' = file /\ at' = at + 1 /\ at \in DOMAIN file.nodes
        /\ groups' = JoinGroups(groups, n)
    BY <1>5 DEF AddToGroups, Advance, JoinGroups
  <2>2. at \in 1..Len(file.nodes) /\ past \in Nat /\ past + 1 = at /\ at' - 1 = at
    BY <2>1, Positions
  <2>3. PICK h : Grouping(file.nodes, h, past) /\ groups = h[past]
    BY <2>1 DEF GroupsInv, Joining, GroupsFrom
  <2>4. PICK g : Grouping(file.nodes, g, at) /\ g[at] = JoinGroups(h[past], n)
    <3> HIDE DEF past
    <3>1. PICK g : Grouping(file.nodes, g, past + 1) /\ g[past + 1] = JoinGroups(h[past], file.nodes[past + 1])
      BY <2>2, <2>3, LongerGrouping
    <3> QED BY <2>2, <3>1
  <2>5. GroupsFrom(file.nodes, at, groups')
    BY <2>1, <2>3, <2>4 DEF GroupsFrom
  <2>6. Joining' = at /\ at <= Len(file.nodes)
    BY <2>1, <2>2 DEF Joining
  <2> QED BY <2>1, <2>5, <2>6 DEF GroupsInv
<1>6. CASE Convert
  <2>1. groups' = NoMembers /\ phase' = "format"
    BY <1>6 DEF Convert, Enter, NoMembers
  <2>2. Joining' = 0
    BY <2>1 DEF Joining
  <2>3. TypeOK'
    BY TypeStep
  <2>4. file'.nodes \in Seq(Node)
    BY <2>3 DEF TypeOK, File
  <2>5. 0 <= Len(file'.nodes)
    BY <2>4
  <2> QED BY <1>1, <2>1, <2>2, <2>5 DEF GroupsInv
<1>7. CASE UNCHANGED vars
  <2>1. UNCHANGED <<file, phase, at, groups>>
    BY <1>7 DEF vars, built
  <2> QED BY <2>1 DEF GroupsInv, Joining
<1> QED BY <1>2, <1>3, <1>4, <1>5, <1>6, <1>7 DEF Next, Ended

LEMMA GroupsHold == Spec => []GroupsInv
<1>1. ASSUME Init PROVE GroupsInv
  <2> DEFINE h == [i \in {0} |-> NoMembers]
  <2>1. h[0] = NoMembers
    OBVIOUS
  <2> HIDE DEF h
  <2>2. Grouping(file.nodes, h, 0)
    BY <2>1 DEF Grouping
  <2>3. groups = h[0] /\ Joining = 0
    BY <1>1, <2>1 DEF Init, NoMembers, Joining
  <2>4. GroupsFrom(file.nodes, 0, groups)
    BY <2>2, <2>3 DEF GroupsFrom
  <2>5. 0 <= Len(file.nodes)
    <3>1. TypeOK
      BY <1>1, TypeInit
    <3> QED BY <3>1, Positions
  <2> QED BY <2>3, <2>4, <2>5 DEF GroupsInv
<1>2. Init => GroupsInv
  BY <1>1
<1> QED BY <1>2, TypeCorrect, ShapeHolds, GroupsStep, PTL DEF Spec

-----------------------------------------------------------------------------
(* The conversion *)

EndpointOf(n, st) ==
  [id |-> BMCOf(n), mac |-> n.mac, of |-> 0, systems |-> st.systems[BMCOf(n)], managers |-> <<BMCOf(n)>>]
EndpointsOf(nodes, st) == {EndpointOf(nodes[i], st) : i \in DOMAIN nodes}

(***************************************************************************)
(* What a consistent list of nodes means, of which st and gs have come.    *)
(***************************************************************************)
MeaningOf(nodes, st, gs, ifs) ==
  [comps |-> st.comps, ifaces |-> ifs, groups |-> gs,
   endpoints |-> EndpointsOf(nodes, st)]

Means(nodes, m) ==
  \E h, k : /\ Reading(nodes, h, Len(nodes)) /\ Grouping(nodes, k, Len(nodes))
            /\ m = MeaningOf(nodes, h[Len(nodes)], k[Len(nodes)], m.ifaces)
            /\ m.ifaces \in Seq(IfaceType) /\ Bare(m.ifaces) = h[Len(nodes)].ifaces

(***************************************************************************)
(* An endpoint, wherever in its file its BMC is.                           *)
(***************************************************************************)
Placeless(e) == [e EXCEPT !.of = 0]
PlacelessAll(list) == {Placeless(list[e]) : e \in DOMAIN list}

LEMMA MeaningIs ==
  Meaning = [comps |-> comps, ifaces |-> ifaces, groups |-> groups, endpoints |-> PlacelessAll(endpoints)]
BY DEF Meaning, PlacelessAll, Placeless

LEMMA WithoutPosition ==
  ASSUME NEW A, NEW B, NEW C, NEW D,
         NEW e \in [id : A, mac : A, of : B, systems : C, managers : D]
  PROVE  Placeless(e)
         = [id |-> e.id, mac |-> e.mac, of |-> 0, systems |-> e.systems, managers |-> e.managers]
BY DEF Placeless

LEMMA SameEndpoints ==
  ASSUME NEW list \in Seq(EndpointType), NEW nodes, NEW st,
         \A e \in DOMAIN list :
           /\ list[e].managers = <<list[e].id>> /\ list[e].systems = st.systems[list[e].id]
           /\ \E i \in DOMAIN nodes : list[e].id = BMCOf(nodes[i]) /\ list[e].mac = nodes[i].mac,
         \A i \in DOMAIN nodes : \E e \in DOMAIN list :
           list[e].id = BMCOf(nodes[i]) /\ list[e].mac = nodes[i].mac
  PROVE  PlacelessAll(list) = EndpointsOf(nodes, st)
<1>1. ASSUME NEW e \in DOMAIN list, NEW i \in DOMAIN nodes,
             list[e].id = BMCOf(nodes[i]), list[e].mac = nodes[i].mac
      PROVE  Placeless(list[e]) = EndpointOf(nodes[i], st)
  <2>1. list[e] \in EndpointType
    OBVIOUS
  <2>2. list[e].managers = <<list[e].id>> /\ list[e].systems = st.systems[list[e].id]
    OBVIOUS
  <2>3. Placeless(list[e])
        = [id |-> list[e].id, mac |-> list[e].mac, of |-> 0,
           systems |-> list[e].systems, managers |-> list[e].managers]
    BY <2>1, WithoutPosition DEF EndpointType
  <2> QED BY <1>1, <2>2, <2>3 DEF EndpointOf
<1>2. ASSUME NEW e \in DOMAIN list
      PROVE  \E i \in DOMAIN nodes : Placeless(list[e]) = EndpointOf(nodes[i], st)
  <2>1. PICK i \in DOMAIN nodes : list[e].id = BMCOf(nodes[i]) /\ list[e].mac = nodes[i].mac
    OBVIOUS
  <2> QED BY <1>1, <2>1
<1>3. ASSUME NEW i \in DOMAIN nodes
      PROVE  \E e \in DOMAIN list : Placeless(list[e]) = EndpointOf(nodes[i], st)
  <2>1. PICK e \in DOMAIN list : list[e].id = BMCOf(nodes[i]) /\ list[e].mac = nodes[i].mac
    OBVIOUS
  <2> QED BY <1>1, <2>1
<1> DEFINE L(e) == Placeless(list[e])
           R(i) == EndpointOf(nodes[i], st)
<1>4. \A e \in DOMAIN list : \E i \in DOMAIN nodes : L(e) = R(i)
  BY <1>2
<1>5. \A i \in DOMAIN nodes : \E e \in DOMAIN list : L(e) = R(i)
  BY <1>3
<1> HIDE DEF L, R
<1>6. {L(e) : e \in DOMAIN list} = {R(i) : i \in DOMAIN nodes}
  BY <1>4, <1>5
<1> QED BY <1>6 DEF L, R, PlacelessAll, EndpointsOf

(***************************************************************************)
(* What the command makes of a consistent file of the older format.        *)
(***************************************************************************)
LEMMA OldMeans ==
  ASSUME TypeOK, OldInv, GroupsInv, phase = "done", DeprecatedFormat(file), Consistent(file.nodes)
  PROVE  Means(file.nodes, Meaning) /\ IfacesSafe(file.nodes, Len(file.nodes))
<1> DEFINE N == Len(file.nodes)
<1>1. /\ BuiltFrom(file.nodes, N, endpoints, comps, ifaces)
      /\ EndpointsAre(file.nodes, N, endpoints, keys) /\ IfacesSafe(file.nodes, N)
  BY DEF OldInv, Passed
<1>2. PICK h : /\ Reading(file.nodes, h, N) /\ comps = h[N].comps /\ Bare(ifaces) = h[N].ifaces
               /\ \A e \in DOMAIN endpoints : endpoints[e].systems = h[N].systems[endpoints[e].id]
  BY <1>1 DEF BuiltFrom
<1>3. PICK k : Grouping(file.nodes, k, N) /\ groups = k[N]
  BY DEF GroupsInv, Joining, GroupsFrom
<1>4. DOMAIN file.nodes = 1..N /\ file.nodes \in Seq(Node) /\ endpoints \in Seq(EndpointType)
  BY Positions, TypeOKEndpoints DEF TypeOK, File
<1>5. \A i, j \in DOMAIN file.nodes :
        file.nodes[i].mac = file.nodes[j].mac <=> BMCOf(file.nodes[i]) = BMCOf(file.nodes[j])
  BY <1>4, ConsistentMeans
<1> DEFINE nodes == file.nodes
<1> HIDE DEF nodes, N
<1>6. /\ \A e \in DOMAIN endpoints : endpoints[e].managers = <<endpoints[e].id>>
      /\ \A e \in DOMAIN endpoints : \E i \in DOMAIN nodes :
           endpoints[e].id = BMCOf(nodes[i]) /\ endpoints[e].mac = nodes[i].mac
      /\ \A i \in DOMAIN nodes : nodes[i].mac \in DOMAIN keys
      /\ \A x \in DOMAIN keys : endpoints[keys[x]].mac = x
  BY <1>1, <1>4 DEF EndpointsAre, nodes
<1>7. ASSUME NEW i \in DOMAIN nodes
      PROVE  \E e \in DOMAIN endpoints : endpoints[e].id = BMCOf(nodes[i]) /\ endpoints[e].mac = nodes[i].mac
  <2> DEFINE e == keys[nodes[i].mac]
  <2>1. e \in DOMAIN endpoints /\ endpoints[e].mac = nodes[i].mac
    BY <1>6 DEF TypeOK
  <2> HIDE DEF e
  <2>2. PICK j \in DOMAIN nodes : endpoints[e].id = BMCOf(nodes[j]) /\ endpoints[e].mac = nodes[j].mac
    BY <1>6, <2>1
  <2>3. BMCOf(nodes[i]) = BMCOf(nodes[j])
    BY <1>5, <2>1, <2>2 DEF nodes
  <2> QED BY <2>1, <2>2, <2>3
<1> DEFINE st == h[N]
<1>8. \A e \in DOMAIN endpoints :
        /\ endpoints[e].managers = <<endpoints[e].id>> /\ endpoints[e].systems = st.systems[endpoints[e].id]
        /\ \E i \in DOMAIN nodes : endpoints[e].id = BMCOf(nodes[i]) /\ endpoints[e].mac = nodes[i].mac
  BY <1>2, <1>6
<1> HIDE DEF st
<1>9. PlacelessAll(endpoints) = EndpointsOf(nodes, st)
  <2>1. endpoints \in Seq(EndpointType)
    BY <1>4
  <2>2. \A i \in DOMAIN nodes : \E e \in DOMAIN endpoints :
          endpoints[e].id = BMCOf(nodes[i]) /\ endpoints[e].mac = nodes[i].mac
    BY <1>7
  <2> QED BY <1>8, <2>1, <2>2, SameEndpoints
<1>10. Meaning = MeaningOf(nodes, st, k[N], ifaces) /\ Meaning.ifaces = ifaces
  BY <1>2, <1>3, <1>9, MeaningIs DEF MeaningOf, st
<1>11. ifaces \in Seq(IfaceType)
  BY TypeOKEndpoints
<1> QED BY <1>1, <1>2, <1>3, <1>10, <1>11 DEF Means, nodes, N, st

(***************************************************************************)
(* The file f is the conversion of one with these nodes.                   *)
(***************************************************************************)
ConvertedFrom(f, nodes) ==
  /\ nodes \in Seq(Node) /\ f.bmcs \in SetToSeqs(ConvertedBMCs(nodes))
  /\ f.nodes = [i \in DOMAIN nodes |-> ConvertedNode(nodes[i])]

(***************************************************************************)
(* A consistent file has one BMC for each MAC address, and with it the     *)
(* only xname it has in the file.                                          *)
(***************************************************************************)
LEMMA ConvertedBMCsAre ==
  ASSUME NEW nodes \in Seq(Node), Consistent(nodes)
  PROVE  ConvertedBMCs(nodes)
         = {[name |-> None, xname |-> BMCOf(nodes[i]), mac |-> nodes[i].mac] : i \in DOMAIN nodes}
<1>1. /\ \A i \in DOMAIN nodes : /\ DeriveBMCXname(nodes[i].xname) = BMCOf(nodes[i])
                                 /\ nodes[i].mac # None
      /\ \A i, j \in DOMAIN nodes : nodes[i].mac = nodes[j].mac <=> BMCOf(nodes[i]) = BMCOf(nodes[j])
  BY ConsistentMeans
<1>2. ASSUME NEW i \in DOMAIN nodes
      PROVE  ConvertedBMC(nodes, BMCOf(nodes[i]))
             = [name |-> None, xname |-> BMCOf(nodes[i]), mac |-> nodes[i].mac]
  <2> DEFINE x == BMCOf(nodes[i])
             given == {j \in DOMAIN nodes : DeriveBMCXname(nodes[j].xname) = x /\ nodes[j].mac # None}
  <2>1. i \in given /\ given \subseteq Nat
    BY <1>1
  <2>2. Min(given) \in given
    <3> HIDE DEF given
    <3> QED BY <2>1, LeastExists
  <2>3. Min(given) \in DOMAIN nodes /\ DeriveBMCXname(nodes[Min(given)].xname) = x
    BY <2>2
  <2>4. nodes[Min(given)].mac = nodes[i].mac
    <3> HIDE DEF given
    <3> QED BY <1>1, <2>3
  <2>5. (IF given = {} THEN None ELSE nodes[Min(given)].mac) = nodes[i].mac
    <3> HIDE DEF given
    <3> QED BY <2>1, <2>4
  <2> QED BY <2>5 DEF ConvertedBMC
<1>3. ConvertedBMCs(nodes) = {ConvertedBMC(nodes, DeriveBMCXname(nodes[i].xname)) : i \in DOMAIN nodes}
  BY DEF ConvertedBMCs, Range
<1> QED BY <1>1, <1>2, <1>3

LEMMA ConvertedNodeIs ==
  ASSUME NEW n \in Node
  PROVE  LET c == ConvertedNode(n)
         IN  /\ c.xname = n.xname /\ c.groups = n.groups /\ c.ifaces = n.ifaces
             /\ c.bmc = DeriveBMCXname(n.xname) /\ c.old = FALSE
BY DEF ConvertedNode, Node

(***************************************************************************)
(* The BMCs of a converted file are those its nodes had, each once.        *)
(***************************************************************************)
LEMMA ListedOnce ==
  ASSUME NEW S, IsFiniteSet(S), NEW s \in SetToSeqs(S)
  PROVE  /\ \A i \in DOMAIN s : s[i] \in S
         /\ \A i, j \in DOMAIN s : s[i] = s[j] => i = j
         /\ \A x \in S : \E i \in DOMAIN s : s[i] = x
<1> DEFINE D == 1..Cardinality(S)
<1>1. s \in [D -> S] /\ \A i, j \in D : i # j => s[i] # s[j]
  BY DEF SetToSeqs
<1>2. Cardinality(S) \in Nat
  BY FS_CardinalityType
<1>3. IsFiniteSet(D) /\ Cardinality(D) = Cardinality(S)
  <2> DEFINE c == Cardinality(S)
  <2> HIDE DEF c
  <2>1. c \in Nat
    BY <1>2 DEF c
  <2>2. IsFiniteSet(1..c) /\ Cardinality(1..c) = c
    BY <2>1, FS_Interval
  <2> QED BY <2>2 DEF c
<1> HIDE DEF D
<1>4. s \in Injection(D, S)
  BY <1>1 DEF Injection, IsInjective
<1>5. s \in Surjection(D, S)
  BY <1>3, <1>4, FS_Injection
<1> QED BY <1>1, <1>5 DEF Surjection

LEMMA ConvertedMatches ==
  ASSUME NEW f, NEW nodes, ConvertedFrom(f, nodes), Consistent(nodes)
  PROVE  /\ Matched(f) /\ DOMAIN f.nodes = DOMAIN nodes
         /\ \A i \in DOMAIN nodes : /\ f.nodes[i].xname = nodes[i].xname /\ f.nodes[i].groups = nodes[i].groups
                                    /\ f.nodes[i].ifaces = nodes[i].ifaces
         /\ \A j \in DOMAIN f.bmcs : \E i \in DOMAIN nodes :
              f.bmcs[j].xname = BMCOf(nodes[i]) /\ f.bmcs[j].mac = nodes[i].mac
         /\ \A i \in DOMAIN nodes : \E j \in DOMAIN f.bmcs :
              f.bmcs[j].xname = BMCOf(nodes[i]) /\ f.bmcs[j].mac = nodes[i].mac
<1> DEFINE S == ConvertedBMCs(nodes)
           R(i) == [name |-> None, xname |-> BMCOf(nodes[i]), mac |-> nodes[i].mac]
<1>1. /\ nodes \in Seq(Node) /\ f.bmcs \in SetToSeqs(S)
      /\ f.nodes = [i \in DOMAIN nodes |-> ConvertedNode(nodes[i])]
  BY DEF ConvertedFrom
<1>2. /\ \A i \in DOMAIN nodes :
           /\ BMCOf(nodes[i]) \in Xnames /\ BMCOf(nodes[i]) # None
           /\ DeriveBMCXname(nodes[i].xname) = BMCOf(nodes[i])
           /\ nodes[i].mac \in Texts \ {None}
      /\ \A i, j \in DOMAIN nodes : nodes[i].mac = nodes[j].mac <=> BMCOf(nodes[i]) = BMCOf(nodes[j])
  BY <1>1, ConsistentMeans
<1>3. S = {R(i) : i \in DOMAIN nodes}
  BY <1>1, ConvertedBMCsAre
<1>4. \A i : R(i).name = None /\ R(i).xname = BMCOf(nodes[i]) /\ R(i).mac = nodes[i].mac
  OBVIOUS
<1>5. DOMAIN nodes = 1..Len(nodes) /\ Len(nodes) \in Nat /\ \A i \in DOMAIN nodes : nodes[i] \in Node
  BY <1>1
<1> HIDE DEF S, R
<1>6. IsFiniteSet(S)
  <2> DEFINE g == [i \in 1..Len(nodes) |-> R(i)]
  <2>1. g \in Surjection(1..Len(nodes), S)
    BY <1>3, <1>5 DEF Surjection
  <2>2. IsFiniteSet(1..Len(nodes))
    BY <1>5, FS_Interval
  <2> HIDE DEF g
  <2> QED BY <2>1, <2>2, FS_Surjection
<1>7. /\ \A j \in DOMAIN f.bmcs : f.bmcs[j] \in S
      /\ \A i, j \in DOMAIN f.bmcs : f.bmcs[i] = f.bmcs[j] => i = j
      /\ \A x \in S : \E j \in DOMAIN f.bmcs : f.bmcs[j] = x
  BY <1>1, <1>6, ListedOnce
<1>8. /\ \A j \in DOMAIN f.bmcs : \E i \in DOMAIN nodes : f.bmcs[j] = R(i)
      /\ \A i \in DOMAIN nodes : \E j \in DOMAIN f.bmcs : f.bmcs[j] = R(i)
  BY <1>3, <1>7
<1>9. /\ \A j \in DOMAIN f.bmcs : \E i \in DOMAIN nodes :
           f.bmcs[j].xname = BMCOf(nodes[i]) /\ f.bmcs[j].mac = nodes[i].mac
      /\ \A i \in DOMAIN nodes : \E j \in DOMAIN f.bmcs :
           f.bmcs[j].xname = BMCOf(nodes[i]) /\ f.bmcs[j].mac = nodes[i].mac
  BY <1>4, <1>8
<1>10. /\ DOMAIN f.nodes = DOMAIN nodes
       /\ \A i \in DOMAIN nodes :
            /\ f.nodes[i].xname = nodes[i].xname /\ f.nodes[i].groups = nodes[i].groups
            /\ f.nodes[i].ifaces = nodes[i].ifaces
            /\ f.nodes[i].bmc = BMCOf(nodes[i]) /\ f.nodes[i].old = FALSE
  <2>1. \A i \in DOMAIN nodes : f.nodes[i] = ConvertedNode(nodes[i])
    BY <1>1
  <2>2. DOMAIN f.nodes = DOMAIN nodes
    BY <1>1
  <2>3. ASSUME NEW i \in DOMAIN nodes
        PROVE  LET c == ConvertedNode(nodes[i])
               IN  /\ c.xname = nodes[i].xname /\ c.groups = nodes[i].groups /\ c.ifaces = nodes[i].ifaces
                   /\ c.bmc = DeriveBMCXname(nodes[i].xname) /\ c.old = FALSE
    <3>1. nodes[i] \in Node
      BY <1>5
    <3> QED BY <3>1, ConvertedNodeIs
  <2> QED BY <1>2, <2>1, <2>2, <2>3
<1>11. \A i \in DOMAIN nodes : BMCOf(f.nodes[i]) = BMCOf(nodes[i])
  BY <1>10 DEF BMCOf
<1>12. \A j \in DOMAIN f.bmcs : /\ f.bmcs[j].name = None /\ f.bmcs[j].mac \in Texts \ {None}
                                /\ f.bmcs[j].xname \in Xnames
  <2> SUFFICES ASSUME NEW j \in DOMAIN f.bmcs
               PROVE  /\ f.bmcs[j].name = None /\ f.bmcs[j].mac \in Texts \ {None} /\ f.bmcs[j].xname \in Xnames
    OBVIOUS
  <2>1. PICK i \in DOMAIN nodes : f.bmcs[j] = R(i)
    BY <1>8
  <2> QED BY <1>2, <1>4, <2>1
<1>13. ASSUME NEW i \in DOMAIN f.bmcs, NEW j \in DOMAIN f.bmcs,
              f.bmcs[i].xname = f.bmcs[j].xname \/ f.bmcs[i].mac = f.bmcs[j].mac
       PROVE  i = j
  <2>1. PICK k \in DOMAIN nodes : f.bmcs[i] = R(k)
    BY <1>8
  <2>2. PICK l \in DOMAIN nodes : f.bmcs[j] = R(l)
    BY <1>8
  <2>3. nodes[k].mac = nodes[l].mac /\ BMCOf(nodes[k]) = BMCOf(nodes[l])
    BY <1>2, <1>4, <1>13, <2>1, <2>2
  <2>4. R(k) = R(l)
    BY <2>3 DEF R
  <2> QED BY <1>7, <2>1, <2>2, <2>4
<1>14. BMCsApart(f)
  <2> SUFFICES ASSUME NEW i \in DOMAIN f.bmcs, NEW j \in DOMAIN f.bmcs, i < j
               PROVE  f.bmcs[j].mac \notin BMCKeys(f.bmcs[i])
    BY DEF BMCsApart
  <2>1. f.bmcs[j].mac # None /\ f.bmcs[j].mac \notin Xnames
    BY <1>12, TextAssumption
  <2>2. f.bmcs[j].mac # f.bmcs[i].mac
    <3>1. i # j
      <4>1. DOMAIN f.bmcs = 1..Cardinality(S) 
        BY <1>1 DEF SetToSeqs
      <4>2. i \in Int /\ j \in Int
        BY <4>1
      <4> QED BY <4>2
    <3> QED BY <1>13, <3>1
  <2> QED BY <1>12, <2>1, <2>2 DEF BMCKeys
<1>15. ~DeprecatedFormat(f)
  BY <1>10 DEF DeprecatedFormat, Range
<1>16. Matched(f)
  <2>1. \A i \in DOMAIN f.nodes : /\ f.nodes[i].bmc = BMCOf(f.nodes[i]) /\ BMCOf(f.nodes[i]) # None
                                  /\ \E j \in DOMAIN f.bmcs : f.bmcs[j].xname = BMCOf(f.nodes[i])
    BY <1>2, <1>9, <1>10, <1>11
  <2>2. \A j \in DOMAIN f.bmcs : {f.bmcs[j].name, f.bmcs[j].mac} \subseteq Texts /\ f.bmcs[j].xname \in Xnames
    BY <1>12, TextAssumption
  <2>3. \A i, j \in DOMAIN f.bmcs : f.bmcs[i].xname = f.bmcs[j].xname => i = j
    BY <1>13
  <2> QED BY <1>14, <1>15, <2>1, <2>2, <2>3 DEF Matched
<1> QED BY <1>9, <1>10, <1>16

(***************************************************************************)
(* A converted file comes from the one before it, and what that one came   *)
(* to is what its nodes mean.                                              *)
(***************************************************************************)
BeforeInv ==
  \A old \in Range(before) :
    /\ ConvertedFrom(file, old.nodes)
    /\ Consistent(old.nodes) => Means(old.nodes, old.meaning) /\ IfacesSafe(old.nodes, Len(old.nodes))

LEMMA BeforeStep ==
  ASSUME TypeOK, OldInv, GroupsInv, BeforeInv, [Next]_vars
  PROVE  BeforeInv'
<1>1. CASE Convert
  <2> DEFINE old == [nodes |-> file.nodes, meaning |-> Meaning]
  <2>1. /\ phase = "done" /\ DeprecatedFormat(file)
        /\ file'.bmcs \in SetToSeqs(ConvertedBMCs(file.nodes))
        /\ file'.nodes = [i \in DOMAIN file.nodes |-> ConvertedNode(file.nodes[i])]
        /\ before' = <<old>>
    BY <1>1 DEF Convert
  <2>2. old.nodes = file.nodes /\ old.meaning = Meaning
    OBVIOUS
  <2> HIDE DEF old
  <2>3. file.nodes \in Seq(Node)
    BY DEF TypeOK, File
  <2>4. ConvertedFrom(file', old.nodes)
    BY <2>1, <2>2, <2>3 DEF ConvertedFrom
  <2>5. Consistent(old.nodes) => Means(old.nodes, old.meaning) /\ IfacesSafe(old.nodes, Len(old.nodes))
    BY <2>1, <2>2, OldMeans
  <2>6. \A o \in Range(before') : o = old
    BY <2>1 DEF Range
  <2>7. ASSUME NEW o \in Range(before')
        PROVE  /\ ConvertedFrom(file', o.nodes)
               /\ Consistent(o.nodes) => Means(o.nodes, o.meaning) /\ IfacesSafe(o.nodes, Len(o.nodes))
    BY <2>4, <2>5, <2>6
  <2> QED BY <2>7 DEF BeforeInv
<1>2. CASE UNCHANGED <<file, before>>
  BY <1>2 DEF BeforeInv
<1>3. [Next]_vars => Convert \/ UNCHANGED <<file, before>>
  BY DEF Next, vars, ChooseFormat, NextLoop, AddBMC, AddUnresolvedNode, AddNode, PanicOnNode,
         AddDeprecatedNode, PanicOnDeprecatedNode, AddToGroups, Ended, Panic, Advance
<1> QED BY <1>1, <1>2, <1>3

LEMMA BeforeHolds == Spec => []BeforeInv
<1>1. Init => BeforeInv
  BY DEF Init, BeforeInv, Range
<1> QED BY <1>1, TypeCorrect, OldHolds, GroupsHold, BeforeStep, PTL DEF Spec

(***************************************************************************)
(* An interface has the networks of the addresses it comes from.           *)
(***************************************************************************)
NetworksInv ==
  \A i \in DOMAIN ifaces :
    /\ ifaces[i].of \in DOMAIN file.nodes
    /\ ifaces[i].networks = Networks(file.nodes[ifaces[i].of].ifaces[ifaces[i].index])

LEMMA NetworksMore ==
  ASSUME TypeOK, NetworksInv, at \in DOMAIN file.nodes, file' = file,
         ifaces' = ifaces \/ ifaces' = ifaces \o Ifaces(file.nodes[at])
  PROVE  NetworksInv'
<1>1. \A iface : Networks(iface)' = Networks(iface)
  BY DEF Networks, DeprecatedFormat
<1>2. CASE ifaces' = ifaces
  BY <1>1, <1>2 DEF NetworksInv
<1>3. CASE ifaces' = ifaces \o Ifaces(file.nodes[at])
  <2> DEFINE n == file.nodes[at]
             more == Ifaces(n)
  <2>1. n \in Node /\ at \in Nat \ {0} /\ comps \in Seq(SystemType) /\ ifaces \in Seq(IfaceType)
    BY TypeOKEndpoints DEF TypeOK, File
  <2>2. more \in Seq(IfaceType) /\ n.ifaces \in Seq(Seq(Address))
    BY <2>1, NodeTyped DEF Node
  <2>3. \A k \in DOMAIN more :
          more[k].of = at /\ more[k].index = k /\ more[k].networks = Networks(n.ifaces[k])
    BY DEF Ifaces
  <2> HIDE DEF more
  <2>4. /\ \A i \in DOMAIN ifaces : ifaces'[i] = ifaces[i]
        /\ \A i \in DOMAIN ifaces' : i \notin DOMAIN ifaces =>
             i - Len(ifaces) \in DOMAIN more /\ ifaces'[i] = more[i - Len(ifaces)]
    BY <1>3, <2>1, <2>2 DEF more
  <2>5. ASSUME NEW i \in DOMAIN ifaces'
        PROVE  /\ ifaces'[i].of \in DOMAIN file.nodes
               /\ ifaces'[i].networks = Networks(file.nodes[ifaces'[i].of].ifaces[ifaces'[i].index])
    <3>1. CASE i \in DOMAIN ifaces
      BY <2>4, <3>1 DEF NetworksInv
    <3>2. CASE i \notin DOMAIN ifaces
      BY <2>3, <2>4, <3>2
    <3> QED BY <3>1, <3>2
  <2> QED BY <1>1, <2>5 DEF NetworksInv
<1> QED BY <1>2, <1>3

LEMMA NetworksHold == Spec => []NetworksInv
<1>1. Init => NetworksInv
  BY DEF Init, NetworksInv
<1>2. TypeOK /\ NetworksInv /\ [Next]_vars => NetworksInv'
  <2> SUFFICES ASSUME TypeOK, NetworksInv, [Next]_vars PROVE NetworksInv' OBVIOUS
  <2>1. CASE AddNode
    BY <2>1, NetworksMore DEF AddNode, Advance
  <2>2. CASE AddDeprecatedNode
    BY <2>2, NetworksMore DEF AddDeprecatedNode, Advance
  <2>3. CASE Convert
    BY <2>3 DEF Convert, NetworksInv
  <2>4. CASE UNCHANGED <<file, ifaces>>
    <3>1. file' = file /\ ifaces' = ifaces
      BY <2>4
    <3>2. \A i : Networks(i)' = Networks(i)
      BY <3>1 DEF Networks, DeprecatedFormat
    <3> QED BY <3>1, <3>2 DEF NetworksInv
  <2>5. AddNode \/ AddDeprecatedNode \/ Convert \/ UNCHANGED <<file, ifaces>>
    BY DEF Next, vars, built, ChooseFormat, NextLoop, AddBMC, AddUnresolvedNode, PanicOnNode,
       PanicOnDeprecatedNode, AddToGroups, Ended, Panic, Advance
  <2> QED BY <2>1, <2>2, <2>3, <2>4, <2>5
<1> QED BY <1>1, <1>2, TypeCorrect, PTL DEF Spec

(***************************************************************************)
(* Of two lists of interfaces that are bare the same, the second is the    *)
(* first one renamed if it has the networks of the new format.             *)
(***************************************************************************)
LEMMA RenamedIs ==
  ASSUME NEW s \in Seq(IfaceType), NEW t \in Seq(IfaceType), NEW nodes, Bare(s) = Bare(t),
         \A i \in DOMAIN t : t[i].networks = Names(nodes[t[i].of].ifaces[t[i].index])
  PROVE  t = Renamed(nodes, s)
<1>1. DOMAIN s = DOMAIN t
  <2>1. DOMAIN Bare(s) = DOMAIN s /\ DOMAIN Bare(t) = DOMAIN t
    BY DEF Bare
  <2> QED BY <2>1
<1>2. ASSUME NEW i \in DOMAIN t
      PROVE  t[i] = [s[i] EXCEPT !.networks = Names(nodes[s[i].of].ifaces[s[i].index])]
  <2>1. /\ Bare(s)[i] = [xname |-> s[i].xname, of |-> s[i].of, index |-> s[i].index]
        /\ Bare(t)[i] = [xname |-> t[i].xname, of |-> t[i].of, index |-> t[i].index]
    BY <1>1 DEF Bare
  <2>2. s[i].xname = t[i].xname /\ s[i].of = t[i].of /\ s[i].index = t[i].index
    BY <2>1
  <2>3. s[i] \in IfaceType /\ t[i] \in IfaceType
    BY <1>1
  <2> DEFINE m == Names(nodes[s[i].of].ifaces[s[i].index])
  <2>4. t[i].networks = m
    BY <2>2
  <2> HIDE DEF m
  <2>5. [s[i] EXCEPT !.networks = m]
        = [xname |-> s[i].xname, of |-> s[i].of, index |-> s[i].index, networks |-> m]
    <3>1. PICK a, b, c, d : s[i] = [xname |-> a, of |-> b, index |-> c, networks |-> d]
      BY <2>3 DEF IfaceType
    <3>2. [[xname |-> a, of |-> b, index |-> c, networks |-> d] EXCEPT !.networks = m]
          = [xname |-> a, of |-> b, index |-> c, networks |-> m]
      OBVIOUS
    <3>3. s[i].xname = a /\ s[i].of = b /\ s[i].index = c
      BY <3>1
    <3> QED BY <3>1, <3>2, <3>3
  <2>6. t[i] = [xname |-> t[i].xname, of |-> t[i].of, index |-> t[i].index, networks |-> t[i].networks]
    BY <2>3 DEF IfaceType
  <2> QED BY <2>2, <2>4, <2>5, <2>6 DEF m
<1>3. t = [i \in DOMAIN t |-> t[i]]
  OBVIOUS
<1> QED BY <1>1, <1>2, <1>3 DEF Renamed

(***************************************************************************)
(* The converted file means the same, but for the networks.                *)
(***************************************************************************)
LEMMA ConversionMeans ==
  ASSUME TypeOK, ApartInv, NewInv, GroupsInv, BeforeInv, NetworksInv
  PROVE  ConversionKeepsMeaning
<1> SUFFICES ASSUME NEW old \in Range(before), Consistent(old.nodes)
             PROVE  /\ phase # "panic"
                    /\ phase = "done" =>
                         Meaning = [old.meaning EXCEPT !.ifaces = Renamed(old.nodes, @)]
  BY DEF ConversionKeepsMeaning
<1> DEFINE nodes == old.nodes
           N == Len(nodes)
<1>1. /\ ConvertedFrom(file, nodes) /\ Consistent(nodes)
      /\ Means(nodes, old.meaning) /\ IfacesSafe(nodes, N)
  BY DEF BeforeInv
<1>2. /\ Matched(file) /\ DOMAIN file.nodes = DOMAIN nodes
      /\ \A i \in DOMAIN nodes : /\ file.nodes[i].xname = nodes[i].xname /\ file.nodes[i].groups = nodes[i].groups
                                 /\ file.nodes[i].ifaces = nodes[i].ifaces
      /\ \A j \in DOMAIN file.bmcs : \E i \in DOMAIN nodes :
           file.bmcs[j].xname = BMCOf(nodes[i]) /\ file.bmcs[j].mac = nodes[i].mac
      /\ \A i \in DOMAIN nodes : \E j \in DOMAIN file.bmcs :
           file.bmcs[j].xname = BMCOf(nodes[i]) /\ file.bmcs[j].mac = nodes[i].mac
  <2> HIDE DEF nodes, N
  <2> QED BY <1>1, ConvertedMatches
<1>3. N \in Nat /\ DOMAIN nodes = 1..N
  BY <1>1 DEF ConvertedFrom
<1>4. Len(file.nodes) = N /\ DOMAIN file.nodes = 1..N
  <2>1. file.nodes \in Seq(Node)
    BY DEF TypeOK, File
  <2> QED BY <1>2, <1>3, <2>1, LengthIs
<1> HIDE DEF nodes, N
<1>5. phase # "panic"
  <2>1. IfacesSafe(file.nodes, N)
    <3> SUFFICES ASSUME NEW i \in 1..N, <<>> \in Range(file.nodes[i].ifaces) PROVE ~First(file.nodes, i)
      BY DEF IfacesSafe
    <3>1. \A j \in 1..(i - 1) : j \in DOMAIN nodes
      BY <1>3
    <3>2. First(nodes, i) <=> First(file.nodes, i)
      BY <1>2, <1>3, <3>1 DEF First
    <3>3. <<>> \in Range(nodes[i].ifaces)
      BY <1>2, <1>3
    <3> QED BY <1>1, <3>2, <3>3 DEF IfacesSafe
  <2> QED BY <1>2, <1>4, <2>1 DEF NewInv
<1>6. ASSUME phase = "done" PROVE Meaning = [old.meaning EXCEPT !.ifaces = Renamed(nodes, @)]
  <2> DEFINE was == old.meaning.ifaces
  <2>1. PICK h, k : /\ Reading(nodes, h, N) /\ Grouping(nodes, k, N)
                    /\ old.meaning = MeaningOf(nodes, h[N], k[N], was)
                    /\ was \in Seq(IfaceType) /\ Bare(was) = h[N].ifaces
    BY <1>1 DEF Means, N
  <2> HIDE DEF was
  <2>2. BuiltFrom(file.nodes, N, endpoints, comps, ifaces) /\ GroupsFrom(file.nodes, N, groups)
    BY <1>2, <1>4, <1>6 DEF NewInv, Passed, GroupsInv, Joining
  <2>3. PICK g : /\ Reading(file.nodes, g, N) /\ comps = g[N].comps /\ Bare(ifaces) = g[N].ifaces
                 /\ \A e \in DOMAIN endpoints : endpoints[e].systems = g[N].systems[endpoints[e].id]
    BY <2>2 DEF BuiltFrom
  <2>4. PICK m : Grouping(file.nodes, m, N) /\ groups = m[N]
    BY <2>2 DEF GroupsFrom
  <2>5. h[N] = g[N]
    <3>1. \A i \in 1..N : file.nodes[i].xname = nodes[i].xname /\ file.nodes[i].ifaces = nodes[i].ifaces
      BY <1>2, <1>3
    <3> QED BY <1>3, <2>1, <2>3, <3>1, SameReading
  <2>6. k[N] = m[N]
    <3>1. \A i \in 1..N : file.nodes[i].xname = nodes[i].xname /\ file.nodes[i].groups = nodes[i].groups
      BY <1>2, <1>3
    <3> QED BY <1>3, <2>1, <2>4, <3>1, SameGrouping
  <2>7. BMCsWhole(file, DOMAIN file.bmcs, keys, endpoints)
    BY <1>2, <1>6 DEF ApartInv, PastBMCs, Matched
  <2> DEFINE st == h[N]
  <2>8. /\ \A e \in DOMAIN endpoints :
             /\ endpoints[e].managers = <<endpoints[e].id>> /\ endpoints[e].systems = st.systems[endpoints[e].id]
             /\ \E i \in DOMAIN nodes : endpoints[e].id = BMCOf(nodes[i]) /\ endpoints[e].mac = nodes[i].mac
        /\ \A i \in DOMAIN nodes : \E e \in DOMAIN endpoints :
             endpoints[e].id = BMCOf(nodes[i]) /\ endpoints[e].mac = nodes[i].mac
    BY <1>2, <2>3, <2>5, <2>7 DEF BMCsWhole
  <2> HIDE DEF st
  <2>9. endpoints \in Seq(EndpointType)
    BY TypeOKEndpoints
  <2>10. PlacelessAll(endpoints) = EndpointsOf(nodes, st)
    BY <2>8, <2>9, SameEndpoints
  <2>11. ifaces = Renamed(nodes, was)
    <3>1. ifaces \in Seq(IfaceType) /\ Bare(was) = Bare(ifaces)
      BY <2>1, <2>3, <2>5, TypeOKEndpoints
    <3>2. ASSUME NEW i \in DOMAIN ifaces
          PROVE  ifaces[i].networks = Names(nodes[ifaces[i].of].ifaces[ifaces[i].index])
      <4>1. ifaces[i].of \in DOMAIN nodes
        BY <1>2 DEF NetworksInv
      <4>2. ~DeprecatedFormat(file)
        BY <1>2 DEF Matched
      <4>3. ifaces[i].networks = Networks(nodes[ifaces[i].of].ifaces[ifaces[i].index])
        BY <1>2, <4>1 DEF NetworksInv
      <4> QED BY <4>2, <4>3 DEF Networks, Names
    <3> QED BY <2>1, <3>1, <3>2, RenamedIs
  <2>12. Meaning = MeaningOf(nodes, st, k[N], ifaces)
    BY <2>3, <2>4, <2>5, <2>6, <2>10, MeaningIs DEF MeaningOf, st
  <2>13. old.meaning = MeaningOf(nodes, st, k[N], was)
    BY <2>1 DEF st
  <2> QED BY <2>11, <2>12, <2>13 DEF MeaningOf, was
<1> QED BY <1>5, <1>6 DEF nodes

(***************************************************************************)
(* ochami-discovery-old2new.py keeps what a consistent file means: reading *)
(* the converted file neither panics nor comes to other components,        *)
(* endpoints, systems, managers, interfaces or groups than the first one.  *)
(* Only the networks are others: those the addresses have under name.      *)
(***************************************************************************)
THEOREM ConversionIsFaithful == Spec => []ConversionKeepsMeaning
BY TypeCorrect, ApartHolds, NewHolds, GroupsHold, BeforeHolds, NetworksHold, ConversionMeans, PTL

=============================================================================
