SPECIFICATION Spec
CONSTANTS
  n1 = n1 n2 = n2 e1 = e1 i1 = i1 g1 = g1
  Nodes = {n1, n2} Endpoints = {e1} Interfaces = {i1} Groups = {g1}
  Brings <- MCBrings
INVARIANTS TypeOK SuccessMeansDone RerunRepairs
PROPERTY NothingOverwritten
