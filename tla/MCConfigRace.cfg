SPECIFICATION Spec
CONSTANTS
  p1 = p1 p2 = p2 level = level timeout = timeout uri = uri v1 = v1 v2 = v2 c1 = c1 c2 = c2 c3 = c3
  NoValue = NoValue
  Options = {level} LogOptions = {level} Typed = {}
  Keys = {uri}
  Procs = {p1, p2}
  Names = {c1, c2} NonStrings = {}
  Values = {v1}
  Defaults <- MCDefaults
  Initial <- OldFiles
  Commands <- Racing
  MaxRuns = 2
  Explicit = TRUE Faults = TRUE
SYMMETRY Users
INVARIANTS TypeOK ClusterNamesUnique DefaultResolves
