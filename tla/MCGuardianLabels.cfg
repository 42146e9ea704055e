CONSTANTS
  s1 = s1
  s2 = s2
  a = a
  b = b
  q1 = q1
  q2 = q2
  q3 = q3
  public = public
  secret = secret
  Sessions = {s1, s2}
  RequestIds = {a, b}
  IfcLabels = {public, secret}
  PublicLabels = public
  Intents = {}
  NoIntent = "no intent"
  NoRef = "no ref"
  Steps <- AllSteps
  MaxSessions = 1
  MaxWrites = 6
  MaxRestarts = 1
  Throws = Throws
  Requests = {q1, q2, q3}
  Envelopes <- SomeEnvelopes
  Verdicts <- SomeVerdicts
  NoLabels = NoLabels
  None = None
SPECIFICATION Spec
SYMMETRY RequestSymmetry
VIEW StepView
PROPERTIES
  LabelsComeBack
\* Every request answered, the Guardian waits for the next.
CHECK_DEADLOCK FALSE
