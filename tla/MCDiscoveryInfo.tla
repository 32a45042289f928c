---------------------------- MODULE MCDiscoveryInfo ----------------------------
(***************************************************************************)
(* Instances of DiscoveryInfo for TLC: every file of up to two BMCs and    *)
(* two nodes of either format, over names, MAC addresses and xnames that   *)
(* may be missing, shared or of the wrong kind.                            *)
(***************************************************************************)
EXTENDS DiscoveryInfo

CONSTANTS none, bmc, mac1, mac2, net, other, group

MCTexts == {none, bmc, mac1, mac2, net, other}
X1 == <<1, 0, 0, 0>>
X2 == <<2, 0, 0, 0>>
MCXnames == {X1, X2, X1 \o <<0>>, X1 \o <<1>>, X2 \o <<0>>, <<2, 0>>}
MCValidBMCs == {X1, X2}

UpTo2(S) == {<<>>} \cup {<<a>> : a \in S} \cup {<<a, b>> : a, b \in S}

BMCs == [name : {none, bmc}, xname : {X1, X2}, mac : {none, mac1, mac2}]

OldAddress == [network |-> net, name |-> none]
NewAddress == [network |-> none, name |-> net]

NewNodes ==
  [xname : {X1 \o <<0>>, X2 \o <<0>>, other}, bmc : {none, bmc, X2, other}, mac : {none},
   old : {FALSE}, groups : {<<group, group>>}, ifaces : {<<<<NewAddress>>, <<OldAddress, NewAddress>>>>}]
  \cup [xname : {X1 \o <<0>>, <<2, 0>>}, bmc : {none}, mac : {none}, old : {FALSE},
        groups : {<<>>}, ifaces : {<<<<NewAddress>>, <<>>>>, <<>>}]

OldNodes ==
  [xname : {X1 \o <<0>>, X1 \o <<1>>, X2 \o <<0>>, <<2, 0>>, other}, bmc : {none},
   mac : {none, mac1, mac2}, old : {TRUE}, groups : {<<>>, <<group>>}, ifaces : {<<<<>>>>, <<<<OldAddress, NewAddress>>>>}]

NewFiles == [bmcs : UpTo2(BMCs), nodes : UpTo2(NewNodes)]
OldFiles == [bmcs : {<<>>}, nodes : UpTo2(OldNodes)]
MixedFiles ==
  [bmcs : UpTo2({[name |-> bmc, xname |-> X1, mac |-> mac1]}),
   nodes : {<<m, n>> : m \in NewNodes, n \in {n \in OldNodes : n.groups = <<>>}}]

MCFiles == NewFiles \cup OldFiles \cup MixedFiles
MCGroups == {group}
=============================================================================
