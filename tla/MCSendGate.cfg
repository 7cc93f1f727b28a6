SPECIFICATION Spec
CONSTANTS
    Rooms = {memo, room}
    Memo = memo
    Runs = {p1, p2}
    Grades = {"smoke", "memo", "fake"}
    BOT_LOOP_ALTERNATIONS = 1
    BURST_WINDOW = 1
    BURST_MAX_COMMITS = 1
    SPIKE_WINDOW = 2
    SpikePercent = 30
    SMOKE_CAP = 1
    Base = 1
    InOrder = TRUE
    StoreFails = TRUE
    MaxTime = 4
SYMMETRY RunSymmetry
CONSTRAINT MemoIsQuiet
INVARIANTS TicketsPrecedeTrips CountedIsPaced SmokeCapHolds
PROPERTY TripKept
CHECK_DEADLOCK FALSE
