CONSTANTS
    Processes = {worker, api, api2}
    Apis = {api, api2}
    Torn = Torn
    Keep = 2
    MaxTrainings = 2
    MaxRollbacks = 1
    MaxCrashes = 0
SPECIFICATION Spec
PROPERTIES
    RollbackReachesEveryProcess
CHECK_DEADLOCK FALSE
