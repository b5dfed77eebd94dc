SPECIFICATION Spec
CONSTANTS
  code = code
  local = local
  old = old
  empty = empty
  Files = {code, local}
  GitIgnored = {local}
  Contents = {old, empty}
  Original = old
  Empty = empty
  Absent = Absent
  Unread = Unread
  None = None
  Callers = {c1, c2}
  MaxWrites = 2
  MaxCalls = 3
INVARIANT TypeOK
PROPERTIES HashIsCurrent
SYMMETRY Symmetry
CHECK_DEADLOCK FALSE
