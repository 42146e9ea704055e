SPECIFICATION Spec
CONSTANTS
  c1 = c1
  c2 = c2
  Calls = {c1, c2}
  Kinds <- AllKinds
  Postures <- OnePosture
  Hellos <- SomeHellos
  None = None
VIEW uncounted
CHECK_DEADLOCK FALSE
INVARIANTS SentAsOneSession RefusedInputHolds LateCallsAreRefused
PROPERTIES NatEnds
