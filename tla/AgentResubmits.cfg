SPECIFICATION AgentTxSpec
CONSTANTS
  Writes = {w1}
  MAXATTEMPTS = 2
  Policies = {TRUE}
  MaxForeign = 0
  MaxTxFaults = 0
INVARIANT ResubmitsTheSameNonce
CHECK_DEADLOCK FALSE
