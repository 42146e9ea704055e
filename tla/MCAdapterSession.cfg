SPECIFICATION Spec
CONSTANTS
  h1 = h1
  h2 = h2
  Hooks = {h1, h2}
  Events <- AllEvents
  ServerHellos <- Hellos
  Unwritable <- AllWrites
  MaxGen = 1
  None = None
ACTION_CONSTRAINT EndsArePlain
CHECK_DEADLOCK FALSE
INVARIANTS StartIsOnceAndFirst StartOutcomeBinds SealedIsMarked StartFailureCounted
PROPERTIES HooksEnd KeepsTheSession
