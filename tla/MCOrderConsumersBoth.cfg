CONSTANTS
    Messages = {"envelope", "incomplete", "not_object", "not_json"}
    Kind <- MCKind
    NotificationConsumers = {notifier}
    RetrainingConsumers = {trainer}
    Consumers = {notifier, trainer}
    TrainInterval = 2
    MaxPublished = 2
    MaxSessionLosses = 1
    MaxNotificationFaults = 1
    MaxRetrainingFaults = 1
SPECIFICATION Spec
INVARIANTS
    BothWorkersConsumeEachOrder
CHECK_DEADLOCK FALSE
