\* A preview, deployed and torn down twice, under a fault.
CONSTANTS
    Services = {"web"}
    Servers = {"s1"}
    WorkspaceOf <- MCWorkspaceOf
    GitServices = {"web"}
    Refs = {"pull-5"}
    PullRequests = {"pull-5"}
    Suffix <- MCSuffix
    DeploymentIds = {1}
    TeardownIds = {1, 2}
    Private = {}
    DomainServices = {}
    MaxFaults = 1
SPECIFICATION ExpiringSpec
PROPERTIES Spec TeardownsSettle PreviewsExpire
CHECK_DEADLOCK FALSE
