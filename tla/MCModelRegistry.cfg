CONSTANTS
    Processes = {worker, api}
    Apis = {api}
    Torn = Torn
    Keep = 2
    MaxTrainings = 4
    MaxRollbacks = 1
    MaxCrashes = 1
SPECIFICATION FairSpec
INVARIANTS
    TypeOK
    ManifestIsCoherent
    OnlyDumpedIsUsed
    RegistryAgrees
    DeathCostsOneArtifact
PROPERTIES
    OperationsEnd
CHECK_DEADLOCK FALSE
