SPECIFICATION Spec
CONSTANTS
  None = None
  Call = {c1, c2}
INVARIANTS
  AnswersMatch
