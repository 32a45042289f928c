SPECIFICATION Spec
CONSTANTS
  p1 = p1 p2 = p2 level = level timeout = timeout uri = uri v1 = v1 v2 = v2 c1 = c1 c2 = c2 c3 = c3
  NoValue = NoValue
  Options = {level, timeout} LogOptions = {level} Typed = {timeout}
  Keys = {uri}
  Procs = {p1}
  Names = {c1, c2, c3} NonStrings = {c3}
  Values = {v1, v2}
  Defaults <- MCDefaults
  Initial <- NoFile
  Commands <- AllCommands
  MaxRuns = 4
  Explicit = FALSE Faults = FALSE
PROPERTIES ImplementsStore AuthTurnedOffOnDemand
