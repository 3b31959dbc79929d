\* Three handshakes, two registrations, two connections, one service.
CONSTANTS
    Workspaces = {w1, w2}
    Services = {"web"}
    Nonces = {1, 2, 3}
    MaxApps = 2
    MaxConnections = 2
    EnvConfigured = FALSE
SYMMETRY MCSymmetry
SPECIFICATION Spec
INVARIANTS TypeOK ConnectsWhereBegun ConnectionsStay FreshUnlessOverlapped
