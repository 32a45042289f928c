SPECIFICATION Spec
CONSTANTS
  none = none
  bmc = bmc
  mac1 = mac1
  mac2 = mac2
  net = net
  other = other
  group = group
  None = none
  Texts <- MCTexts
  Xnames <- MCXnames
  ValidBMCs <- MCValidBMCs
  Groups <- MCGroups
  Files <- MCFiles
INVARIANTS
  TypeOK
  NothingTwice
  LossesExplained
  WellFormedFileIsComplete
  
