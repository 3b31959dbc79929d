\* Two servers, two machines, one token besides the one the first machine registered
\* with, one setup run, one rotation and one fault.
CONSTANTS
    Servers = {"s1", "s2"}
    Hosts = {"h1", "h2"}
    Home = "h1"
    HomeServer = "s1"
    TokenIds = {1}
    RunIds = {1}
    MaxRotations = 1
    MaxFaults = 1
SPECIFICATION FairSpec
INVARIANTS TypeOK OneIdentity ReadinessIsOwn KeysAgree
PROPERTIES SelfHeals SetupSettles
CHECK_DEADLOCK FALSE
