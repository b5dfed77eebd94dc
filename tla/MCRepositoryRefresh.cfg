SPECIFICATION Spec
CONSTANTS
  old = old
  new = new
  foreign = foreign
  f1 = f1
  f2 = f2
  Files = {f1, f2}
  Mapped = {f1}
  Contents = {old, new, foreign}
  Original = old
  Foreign = foreign
  Absent = Absent
  Nothing = Nothing
  None = None
  Crew = 2
  MaxWrites = 2
  MaxErrors = 1
INVARIANTS TypeOK
PROPERTIES ArtifactsAreCurrent RefreshEnds
CHECK_DEADLOCK FALSE
