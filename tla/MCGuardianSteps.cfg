CONSTANTS
  s1 = s1
  s2 = s2
  a = a
  b = b
  q1 = q1
  q2 = q2
  q3 = q3
  public = public
  secret = secret
  Sessions = {s1, s2}
  RequestIds = {a, b}
  IfcLabels = {public, secret}
  PublicLabels = public
  Intents = {}
  NoIntent = "no intent"
  NoRef = "no ref"
  Steps <- AllSteps
  MaxSessions = 1
  MaxWrites = 4
  MaxRestarts = 1
  Throws = Throws
  Requests = {q1, q2}
  Envelopes <- AllEnvelopes
  Verdicts <- SomeVerdicts
  NoLabels = NoLabels
  None = None
SPECIFICATION Spec
SYMMETRY RequestSymmetry
INVARIANTS
  StepsAreOnRecord
  FindingsAreExact
  OnlyVerdictsPermit
PROPERTIES
  StoreSpec
  LabelsMoveWithVerdicts
\* Every request answered, the Guardian waits for the next.
CHECK_DEADLOCK FALSE
