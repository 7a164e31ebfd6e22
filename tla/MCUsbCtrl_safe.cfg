SPECIFICATION Spec
CONSTANTS
  Kinds = {"read", "write", "command"}
  MaxTries = 3
  Retries = 3
INVARIANTS TypeOK StalledStatusIsAnError
PROPERTIES LateAnswerIsSilent
