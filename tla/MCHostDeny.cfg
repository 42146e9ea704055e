SPECIFICATION Spec
CONSTANTS
  h1 = h1
  h2 = h2
  Steps = {h1}
  Events <- MuteCall
  Deployments <- Hooks
  Configs <- BothConfigs
  Decisions <- JustDeny
  DEFAULT_TIMEOUT_MS = 1
  OldLog <- NoLog
  None = None
CHECK_DEADLOCK FALSE
INVARIANTS ArrivingDenyIsHonoured
