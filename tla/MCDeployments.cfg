\* Two deployments and one teardown job, every operation, any agent.
CONSTANTS
    Services <- MCServices
    Servers <- MCServers
    WorkspaceOf <- MCWorkspaceOf
    GitServices = {"web"}
    Refs = {"branch-pr-5", "pull-5"}
    PullRequests = {"pull-5"}
    Suffix <- MCSuffix
    DeploymentIds = {1, 2}
    TeardownIds = {1}
SPECIFICATION Spec
INVARIANTS TypeOK TenantIsolation KeyDiscipline URLTracksProduction
PROPERTIES PreviewIsolation
