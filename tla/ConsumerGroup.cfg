SPECIFICATION ConsumersSpec
CONSTANTS
    Consumers = {c1, c2}
    NoConsumer = NoConsumer
    Messages <- MixedMessages
    NoSourceId = NoSourceId
    OffsetReset = "earliest"
    Faults = {"db_ack_lost"}
    MaxLog = 2
    OneProcess = c1
    SingleMaxLog = 3
    MaxCrashes = 1
    MaxRebalances = 1
INVARIANTS
    CommittedResolved
    IInv
    TriggerOnce
PROPERTIES
    ImplementsContract
    EveryMessageResolved
