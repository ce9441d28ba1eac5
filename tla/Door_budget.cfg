SPECIFICATION Spec
CONSTANTS
    Requests = {r1, r2}
    ann = ann
    delegated = delegated
    service = service
    Users = {ann}
    Keys = {delegated, service}
    Addresses = {home}
    Nobody = Nobody
    KeyOwner <- MCKeyOwner
    KeyScopes <- MCKeyScopes
    KeyCap <- MCKeyCap
    Called <- MCCalled
    ReadLimit = 2
    WriteLimit = 1
    SettingsLimit = 1
    PublicLimit = 1
    RunLimit = 1
    EmailLimit = 1
    MaxArrivals = 2
    MaxWindow = 1
SYMMETRY Symmetric
INVARIANTS BudgetHolds RefusedHasSpent AuthorityWasHeld
CHECK_DEADLOCK FALSE
