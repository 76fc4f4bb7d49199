SPECIFICATION DetSpec
CONSTANTS
    c1 = c1
    c2 = c2
    t1 = t1
    t2 = t2
    o1 = o1
    o2 = o2
    n1 = n1
    n2 = n2
    Conns = {c1, c2}
    Numbers = {n1, n2}
    none = none
    Threads = {t1, t2}
    Workers = {"w1"}
    Loops = {"main", "w1"}
    main = "main"
    INVALID_SOCKET = INVALID_SOCKET
    null = null
    Objects = {o1, o2}
    StateCommands = {"CLOSE"}
    OtherCommands = {}
    InboxBound = 1
    QueueBound = 1
    MaxAcceptFailures = 0
    IMX8_SOM = FALSE
    ImageSize = 1
    ChunkSize = 1
SYMMETRY AllAlike
CONSTRAINT ClientsStayIdle
INVARIANTS LostOnlyByStaleClose
CHECK_DEADLOCK FALSE
