SPECIFICATION Spec
CONSTANTS
    c1 = c1
    c2 = c2
    t1 = t1
    t2 = t2
    n1 = n1
    n2 = n2
    Conns = {c1, c2}
    Numbers = {n1, n2}
    none = none
    Threads = {t1, t2}
    Loops = {"main", "worker"}
    main = "main"
    INVALID_SOCKET = INVALID_SOCKET
    StateCommands = {}
    OtherCommands = {"OTHER"}
    InboxBound = 0
    QueueBound = 1
    MaxAcceptFailures = 1
SYMMETRY AllAlike
CONSTRAINT ClientsStay
INVARIANTS CurrentIsOpen OwnershipUnlessOverlap NumberConserved
PROPERTIES CrowdStays
CHECK_DEADLOCK FALSE
