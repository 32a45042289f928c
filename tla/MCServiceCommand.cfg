SPECIFICATION Spec
CONSTANTS
  a = a
  b = b
  Commands <- MCCommands
  Everything <- MCEverything
  Lists <- MCLists
  Inputs <- MCInputs
INVARIANTS
  TypeOK
  SuccessMeansDone
  NothingElseTouched
  AskedBeforeDelete
  PipedDeletesNeedNoConfirm
  AllAnswersPrinted
