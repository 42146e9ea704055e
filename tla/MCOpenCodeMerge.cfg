SPECIFICATION Spec
CONSTANTS
  c1 = c1
  c2 = c2
  Calls = {c1}
  Hookmaps <- AsShipped
  Starts <- NestedStart
  Ends <- NoEnd
  Decisions <- ObjectOverride
  MaxFresh = 4
  Throws = Throws
  Absent = Absent
  IllTyped = IllTyped
CHECK_DEADLOCK FALSE
INVARIANTS ModifyLands
