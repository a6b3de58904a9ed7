\* Half an environment shadows the credentials given at the prompt.
SPECIFICATION Spec
CONSTANTS
  Configs <- HalfEnvironment
  CountCap = 3
INVARIANT
  SavedCredsUsable
