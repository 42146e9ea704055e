SPECIFICATION Spec
CONSTANTS
  h1 = h1
  h2 = h2
  Steps = {h1, h2}
  Events <- AllEvents
  Deployments <- BothHosts
  Configs <- BothConfigs
  Decisions <- AllDecisions
  DEFAULT_TIMEOUT_MS = 1
  OldLog <- EarlierLog
  None = None
ACTION_CONSTRAINT SecondIsPlain
CHECK_DEADLOCK FALSE
INVARIANTS ProceedIsJustified DenyStands AuditTellsTheTruth OfferedDenyHolds RepeatKeepsToTheTimeout
PROPERTIES StepsEnd
