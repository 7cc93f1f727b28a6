SPECIFICATION ChannelsSpec
CONSTANTS
    Texts = {t, u}
    Digests = {u}
    MaxSends = 3
    Posters = {a, b}
    MaxItem = 3
    MaxSlot = 3
    MAX_ITEMS = 2
    SEEN_CAP = 2
    SLOTS_CAP = 2
    FeedLength = 2
    Links = {x, y}
    Rooms = {r, s}
    MaxLinks = 2
    MaxMentions = 2
    FORWARD_LEDGER_MAX_PER_ROOM = 1
    HEALTH_TIMEOUT = 1
    ASIDE_COLLECT_TIMEOUT = 2
    COLLECT_DEADLINE = 3
    FORWARD_DEADLINE = 4
    Durations = {1}
    MaxRequests = 2
    Swaps = {p, q}
    Calls = {c}
    Flash = f
    Big = g
    MaxServers = 2
    MaxLosses = 1
    MaxTogether = 3
    MaxFaults = 2
SYMMETRY Symmetry
INVARIANTS DraftKept OnePostPerSend UnavailableIsUntouched SlotPostedOnce ItemPostedOnce OncePerRoom LedgerIsTrue NeverBoth CallsUndisturbed SelectionIsResident CancelKept
CHECK_DEADLOCK FALSE
