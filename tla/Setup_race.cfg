SPECIFICATION Spec
CONSTANTS
  Requests = {r1, r2}
  Emails = {e1, e2}
  MaxAccounts = 4
  MaxFaults = 2
  MaxRecoveries = 1
SYMMETRY SetupSymmetry
PROPERTY ImplementsContract
INVARIANT NoOrphans
PROPERTY AnsweredSetupIsKept
CHECK_DEADLOCK FALSE
