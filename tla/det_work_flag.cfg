SPECIFICATION DetSpec
CONSTANTS
    c1 = c1
    t1 = t1
    o1 = o1
    o2 = o2
    n1 = n1
    Conns = {c1}
    Numbers = {n1}
    none = none
    Threads = {t1}
    Workers = {"w1"}
    Loops = {"main", "w1"}
    main = "main"
    INVALID_SOCKET = INVALID_SOCKET
    null = null
    Objects = {o1, o2}
    StateCommands = {"WORK"}
    OtherCommands = {}
    InboxBound = 1
    QueueBound = 1
    MaxAcceptFailures = 0
    IMX8_SOM = TRUE
    ImageSize = 1
    ChunkSize = 1
INVARIANTS WorkFlagMeaning
CHECK_DEADLOCK FALSE
