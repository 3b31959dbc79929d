\* Two people with one credential, and two requests in flight.
CONSTANTS
    Users = {ann, bob}
    Workspaces = {1, 2}
    CredIds = {k1}
    LinkIds = {}
    Slots = {c1, c2}
    Roles = {"owner", "admin", "member"}
    Settings <- MCSettings
SPECIFICATION Spec
PROPERTY OwnershipAccumulates
CHECK_DEADLOCK FALSE
