\* Two requests at a time in two processes: two contacts, or one with two labels and two columns.
SPECIFICATION ContactDataSpec
CONSTANTS
  c1 = c1
  c2 = c2
  d1 = d1
  e1 = e1
  v1 = v1
  l1 = l1
  l2 = l2
  x1 = x1
  x2 = x2
  r1 = r1
  r2 = r2
  p1 = p1
  p2 = p2
  None = None
  Unset = Unset
  Contacts = {c1, c2}
  Subjects = {d1}
  Emails = {e1}
  Values = {v1}
  Labels = {l1, l2}
  Columns = {x1, x2}
  Requests = {r1, r2}
  Procs = {p1, p2}
  Attempts = 2
  MaxOps = 4
  MaxId = 3
  MaxDefinitionOps = 4
SYMMETRY Symmetry
INVARIANTS OneOwner PurgedStaysClean HistoryFollows ValuesKeepTheirMeaning RowsFit
CHECK_DEADLOCK FALSE
