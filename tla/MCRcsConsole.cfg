SPECIFICATION Spec
CONSTANTS
  StdinKinds = {"terminal", "pipe"}
INVARIANTS
  TypeOK
  ErrChanHasRoom
  TerminalRestored
  CtrlCNeverRaces
PROPERTIES
  InterruptEndsSession
  LostPeerEndsSession
