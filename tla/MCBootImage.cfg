SPECIFICATION Spec
CONSTANTS
  p1 = p1
  p2 = p2
  e1 = e1
  e2 = e2
  x1 = x1
  x2 = x2
  i1 = i1
  i2 = i2
  r1 = r1
  r2 = r2
  Absent = Absent
  Procs = {p1, p2}
  Entries = {e1, e2}
  Names = {x1, x2}
  NamesOf <- MCNamesOf
  Images = {i1, i2}
  Rests = {r1, r2}
  MaxRuns = 1
  MaxOthers = 1
SYMMETRY Alike
INVARIANTS TypeOK SuccessMeansSet OnlyImagesChange
