SPECIFICATION PushSpec
CONSTANTS
    Requests = {r1, r2}
    Users = {root, ann}
    Admins = {root}
    SuperAdmins = {root}
    Keys = {k1}
    Tokens = {d1}
    NoUser = NoUser
    NoKey = NoKey
    NoToken = NoToken
    Phones = {p1}
    Workers = {w1}
    NoPhone = NoPhone
SYMMETRY Symmetric
INVARIANTS StaleCallersAreRefused
PROPERTIES KeysAreRevokedByTheirOwner PhonesKeepTheirRegistration TheDeactivatedAreSentNothing
