\* Redeploys of a public and a private service, under two faults.
CONSTANTS
    Services = {"web", "db"}
    Servers = {"s1"}
    WorkspaceOf <- MCWorkspaceOf
    GitServices = {}
    Refs = {"pull-5"}
    PullRequests = {"pull-5"}
    Suffix <- MCSuffix
    DeploymentIds = {1, 2}
    TeardownIds = {}
    Private = {"db"}
    DomainServices = {"web"}
    MaxFaults = 2
SPECIFICATION FairEngineSpec
INVARIANTS EngineTypeOK NeverDark RunOnce
PROPERTIES RemovalJustified DeploymentsSettle RoutesConverge
CHECK_DEADLOCK FALSE
