SPECIFICATION FairSpec
CONSTANTS
    NRooms = 2
    MaxMessage = 2
    MISMATCH_STREAK_LIMIT = 2
    MaxFaults = 1
INVARIANTS DeliveredOnce InOrder
PROPERTIES EventuallyBehind
CHECK_DEADLOCK FALSE
