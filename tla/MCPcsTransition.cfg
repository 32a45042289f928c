SPECIFICATION Spec
CONSTANTS
  p1 = p1
  p2 = p2
  t1 = t1
  t2 = t2
  None = None
  on = on
  onn = onn
  Procs = {p1, p2}
  Transitions = {t1, t2}
  Operations = {on, onn}
  validOperations = {on}
  Commands <- MCCommands
  MaxTasks = 1
  MaxRuns = 3
INVARIANTS TypeOK ExitTellsTheTruth
PROPERTY MonitorsEnd
