SPECIFICATION Spec
CONSTANTS
  MaxLines = 3
  LineKinds = {"proceeded", "blank"}
  FirstKinds = {"blocked", "ungoverned"}
  MaxFaults = 2
  None = None
INVARIANTS EachLineOnceInOrder ReportsAreFew BadgeIsWhatWasShown
PROPERTIES LinesAreShown TailEnds
CHECK_DEADLOCK FALSE
