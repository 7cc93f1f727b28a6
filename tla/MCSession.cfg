SPECIFICATION Spec
CONSTANTS
    MaxGen = 2
    MaxRow = 2
    MaxFaults = 1
INVARIANTS NothingSkipped OneWorker
PROPERTIES ReplayIsDrained OwnerAdvances
CHECK_DEADLOCK FALSE
