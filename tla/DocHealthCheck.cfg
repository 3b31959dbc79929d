\* A route to a container that has not passed its health check.
CONSTANTS
    Services = {"web"}
    Servers = {"s1"}
    WorkspaceOf <- MCWorkspaceOf
    GitServices = {}
    Refs = {"pull-5"}
    PullRequests = {"pull-5"}
    Suffix <- MCSuffix
    DeploymentIds = {1}
    TeardownIds = {}
    Private = {}
    DomainServices = {}
    MaxFaults = 0
SPECIFICATION EngineSpec
INVARIANT RoutedAfterHealthCheck
CHECK_DEADLOCK FALSE
