CONSTANTS
    MaxEvents = 3
    DeliveryIds = {d1, d2, d3, d4}
    MaxAbandoned = 1
    MaxCrashes = 1
    NoDelivery = NoDelivery
SPECIFICATION FairSpec
INVARIANTS
    DeliveredIsPrefix
PROPERTIES
    ImplementsInbox
    OnlyHandledIsSettled
