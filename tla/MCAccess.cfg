\* Two people, two workspaces, two credentials, one mailed link, two requests in flight.
CONSTANTS
    Users = {ann, bob}
    Workspaces = {1, 2}
    CredIds = {k1, k2}
    LinkIds = {1}
    Slots = {c1, c2}
    Roles = {"owner", "admin", "member"}
    Settings <- MCSettings
SYMMETRY MCSymmetry
SPECIFICATION Spec
INVARIANTS TypeOK OneBootstrap AlwaysOwned
PROPERTY NoWayBack
CHECK_DEADLOCK FALSE
