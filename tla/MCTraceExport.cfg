SPECIFICATION Spec
CONSTANTS
  r1 = r1
  r2 = r2
  Requests = {r1, r2}
  Genuine = r1
  Outputs = {"file", "endpoint"}
  Signals = {"SIGINT", "SIGTERM"}
  Timeout = 1
  ExportTimeout = 1
  QueueSize = 1
  None = None
  Scenarios <- MCScenarios
CHECK_DEADLOCK FALSE
INVARIANTS TraceTypeOK TraceAgreesWithTheHost NothingIsLostAtExit
PROPERTIES CloseEnds
