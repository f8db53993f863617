SPECIFICATION FairSpec
CONSTANTS
    Partitions = {p1, p2}
    Messages <- MCMessages
    None = None
    MaxAttempts = 2
    Retention = 2
    MaxLog = 2
    MaxFaults = 1
PROPERTIES
    DeliverySpec
    EveryMessageAccounted
