\* One service in service, one hostname, one deploy and no fault, with both loops.
CONSTANTS
    Services = {"web"}
    InService = {"web"}
    Hostnames = {"h"}
    MaxDeploys = 1
    MaxFaults = 0
SPECIFICATION FairSpec
PROPERTY ActiveIsRouted
CHECK_DEADLOCK FALSE
