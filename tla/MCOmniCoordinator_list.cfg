SPECIFICATION CoordSpec
CONSTANTS
    a = a
    b = b
    Addr = {a, b}
    MaxInFlight = 1
    HighWater = 1
    MaxFaults = 2
INVARIANT CoordTypeOK
PROPERTIES
    HubCatchesUp
    ListTellsWhoLives
    NeverRelisted
