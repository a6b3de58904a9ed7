SPECIFICATION Spec
CONSTANTS
  MaxPassword = 7
  MaxReply = 6
  MaxArguments = 5
INVARIANTS
  KnownAnswer
  XEncodeInverts
  KnownChecksum
  RepliesAreRead
  ArgumentsSurvive
CHECK_DEADLOCK FALSE
