\* Two backups, one restore, two services, and one fault of any kind.
CONSTANTS
    Services = {"db", "other"}
    Servers = {"s1"}
    Hosts = {"h1", "h2"}
    HomeOf <- MCHomeOf
    Tables = {"t1"}
    ContainerIds = {1, 2}
    BackupIds = {1, 2}
    RestoreIds = {1}
    MaxFaults = 1
SPECIFICATION FairSpec
INVARIANTS TypeOK ArtifactKept RestoreTruthful OwnDataOnly
PROPERTIES OutcomeStable JobsSettle ImplementsQueues
