\* A session of two library calls after new_ftpc, under fairness.
CONSTANTS
  MaxCalls = 2
SPECIFICATION FairSpec
CHECK_DEADLOCK FALSE
PROPERTY CallsReturn
