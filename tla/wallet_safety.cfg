SPECIFICATION FairSpec
CONSTANTS
  c1 = c1
  c2 = c2
  c3 = c3
  Command = {c1, c2, c3}
  Mixes <- CommandMixes
  Cap = 2
  MaxAllowance = 2
  MaxForgotten = 1
INVARIANTS
  RevocationHolds
  GasBudgetCoversApprovals
PROPERTIES
  SwapFindsAllowance
  CommandsEnd
CHECK_DEADLOCK FALSE
