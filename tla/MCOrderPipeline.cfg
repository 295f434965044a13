CONSTANTS
    Requests = {r1}
    OrderIds = {o1}
    NoId = NoId
    alice = alice
    Users = {alice}
    Bodies <- MCBodies
    MaxDialAttempts = 1
    MaxServiceCrashes = 1
    MaxBrokerOutages = 1
    Messages = {"envelope"}
    Kind <- MCKind
    NotificationConsumers = {notifier}
    RetrainingConsumers = {trainer}
    Consumers = {notifier, trainer}
    TrainInterval = 2
    MaxPublished = 1
    MaxSessionLosses = 1
    MaxNotificationFaults = 1
    MaxRetrainingFaults = 0
    Subjects <- MCSubjects
    MaxRetries = 1
    MaxTaskFaults = 2
    MaxRedeliveries = 1
    MaxFaults = 2
SPECIFICATION PipelineSpec
INVARIANTS
    PipelineTypeOK
    NotificationsAreDue
PROPERTIES
    ConfirmedIsNotified
CHECK_DEADLOCK FALSE
