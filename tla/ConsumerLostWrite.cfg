SPECIFICATION Spec
CONSTANTS
    Consumers = {c1}
    NoConsumer = NoConsumer
    Messages <- MixedMessages
    NoSourceId = NoSourceId
    OffsetReset = "earliest"
    Faults = {"db_write"}
    MaxLog = 2
    MaxCrashes = 0
    MaxRebalances = 0
INVARIANT
    CommittedResolved
