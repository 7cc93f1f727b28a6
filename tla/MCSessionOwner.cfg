SPECIFICATION Spec
CONSTANTS
    MaxGen = 2
    MaxRow = 1
    MaxFaults = 2
PROPERTY OwnerNotReplaced
CHECK_DEADLOCK FALSE
