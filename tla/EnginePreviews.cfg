\* A preview beside production, and its teardown; no faults.
CONSTANTS
    Services = {"web"}
    Servers = {"s1"}
    WorkspaceOf <- MCWorkspaceOf
    GitServices = {"web"}
    Refs = {"pull-5"}
    PullRequests = {"pull-5"}
    Suffix <- MCSuffix
    DeploymentIds = {1, 2}
    TeardownIds = {1}
    Private = {}
    DomainServices = {}
    MaxFaults = 0
SPECIFICATION EngineSpec
PROPERTIES RemovalJustified
CHECK_DEADLOCK FALSE
