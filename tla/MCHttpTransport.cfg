SPECIFICATION Spec
CONSTANTS
    r1 = r1
    r2 = r2
    r3 = r3
    github = github
    pypi = pypi
    Requests <- MCRequests
    Hosts <- MCHosts
    HostOf <- MCHostOf
    ConfiguredLimit = 0
    DefaultLimit = 1
    MaxRetries = 1
INVARIANTS
    TypeOK
    HostBound
    QuotaOfOwnHost
PROPERTIES
    OutcomeHonest
    ImplementsLimiter
    EveryRequestEnds
