SPECIFICATION Spec
\* The instance stops where no administrator is left and no profile within the bound.
CHECK_DEADLOCK FALSE
CONSTANTS
    Requests = {r1, r2}
    MaxUsers = 3
    MaxFaults = 1
    MaxInterventions = 1
SYMMETRY Symmetric
PROPERTIES RootIsKept AdminsLeaveSuperAdmins
INVARIANT DecisionsStillHold
