SPECIFICATION Spec
CONSTANTS
  c1 = c1
  c2 = c2
  Calls = {c1, c2}
  Hookmaps <- OneChanged
  Starts <- EveryStart
  Ends <- EveryEnd
  Decisions <- EveryDecision
  MaxFresh = 8
  Throws = Throws
  Absent = Absent
  IllTyped = IllTyped
ACTION_CONSTRAINT SecondIsPlain
CHECK_DEADLOCK FALSE
INVARIANTS CallTypeOK RefusedStepsDoNotRun WithheldIsGone ModifyLands AllowedIsWhatWasShown ResultCitesItsRequest
