SPECIFICATION Spec
CHECK_DEADLOCK FALSE
CONSTANTS
  c1 = c1 technical = technical
  a1 = a1 a2 = a2 a3 = a3 e1 = e1 e2 = e2
  Days <- TwoDays
  Cases = {c1}
  Departments = {technical}
  Unassigned = Unassigned
  Rebuilds = {a1, a2, a3}
  EltRebuilds = {e1, e2}
  MaxChanges = 2
  Scenarios <- Together
  Starts <- SomeStarts
  Spans <- RangeOrDay
  Statuses <- SomeStatuses
  NextStatuses <- SomeTransitions
  Slug <- Slugs
  Name <- Names
INVARIANTS
  ReportsAgree
  FinishedRebuildsShow
