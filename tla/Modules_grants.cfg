\* Two requests at once and two users: every pair of the operations races.
SPECIFICATION Spec
CONSTANTS
    Requests = {r1, r2}
    Users = {u1, u2}
    NoUser = NoUser
SYMMETRY Symmetry
INVARIANTS
    RegistryTellsTheTruth
PROPERTIES
    MembersAreGiven
    RevokedStaysRevoked
    ImplementsGrants
