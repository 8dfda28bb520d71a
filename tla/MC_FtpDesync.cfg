\* A session of three library calls after new_ftpc, in either mode.
CONSTANTS
  MaxCalls = 3
SPECIFICATION Spec
CHECK_DEADLOCK FALSE
PROPERTY ReplyMatches
