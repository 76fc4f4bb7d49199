SPECIFICATION FairSpec
CONSTANTS
    Clients = {"a", "b"}
    Messages = {"cmd_scan_wifi", "station", "station0", "access-point",
                "other", "malformed"}
    none = none
    MaxMessages = 2
    MaxAttempts = 1
    MaxFiles = 2
    MaxRestarts = 1
INVARIANTS TypeOK FlagKnowsMode FirstMessageLost
PROPERTIES OnlyApUnsticks ClientAccepted
CHECK_DEADLOCK FALSE
