CONSTANTS
  s1 = s1
  s2 = s2
  s3 = s3
  r1 = r1
  r2 = r2
  public = public
  secret = secret
  Sessions = {s1, s2, s3}
  RequestIds = {r1, r2}
  IfcLabels = {public, secret}
  PublicLabels = public
  Intents = {"a", "b"}
  NoIntent = "no intent"
  NoRef = "no ref"
  Steps <- TwoSteps
  MaxSessions = 2
  MaxWrites = 5
  MaxRestarts = 1
SPECIFICATION StoreSpec
SYMMETRY SessionSymmetry
INVARIANTS
  ChainEntire
  BreaksAreExact
PROPERTIES
  EvictsOnlyTheIdle
\* The store has no step of its own: with the write bound spent it is at rest.
CHECK_DEADLOCK FALSE
