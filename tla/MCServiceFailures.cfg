SPECIFICATION Spec
CONSTANTS
  a = a
  b = b
  Commands <- MCCommands
  Everything <- MCEverything
  Lists <- MCLists
  Inputs <- MCInputs
INVARIANTS
  FailuresAreReported
