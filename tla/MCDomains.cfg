\* One service in service, one hostname, two deploys and one fault, with both loops.
CONSTANTS
    Services = {"web"}
    InService = {"web"}
    Hostnames = {"h"}
    MaxDeploys = 2
    MaxFaults = 1
SPECIFICATION FairSpec
INVARIANTS TypeOK OnlyProved
PROPERTIES RoutesRecover VerifiedSettles
CHECK_DEADLOCK FALSE
