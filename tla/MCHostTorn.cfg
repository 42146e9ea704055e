SPECIFICATION Spec
CONSTANTS
  h1 = h1
  h2 = h2
  Steps = {h1, h2}
  Events <- OneCall
  Deployments <- TearingHooks
  Configs <- NoConfigs
  Decisions <- NoDecisions
  DEFAULT_TIMEOUT_MS = 1
  OldLog <- NoLog
  None = None
SYMMETRY symmetry
CHECK_DEADLOCK FALSE
INVARIANTS ProceedIsJustified
