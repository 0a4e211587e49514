SPECIFICATION ContextFairSpec
CONSTANTS
    Entry = {e1}
    MaxChange = 2
    MaxFault = 1
    MaxDrop = 1
    MaxRead = 1
    MaxWire = 1
CHECK_DEADLOCK FALSE
INVARIANTS AckedIsUnreadable
PROPERTIES RestoredStays WithdrawalLands
