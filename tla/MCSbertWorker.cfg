SPECIFICATION FairSpec
CONSTANTS
  None = None
  Call = {c1, c2, c3}
INVARIANTS
  TypeOK
  PromptAnswersMatch
PROPERTIES
  LockIsReturned
