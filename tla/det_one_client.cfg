SPECIFICATION DetSpec
CONSTANTS
    c1 = c1
    t1 = t1
    w1 = w1
    w2 = w2
    o1 = o1
    o2 = o2
    n1 = n1
    Conns = {c1}
    Numbers = {n1}
    none = none
    Threads = {t1}
    Workers = {w1, w2}
    Loops = {main, w1, w2}
    main = main
    INVALID_SOCKET = INVALID_SOCKET
    null = null
    Objects = {o1, o2}
    StateCommands = {"WORK", "CLOSE"}
    OtherCommands = {}
    InboxBound = 1
    QueueBound = 1
    MaxAcceptFailures = 0
    IMX8_SOM = TRUE
    ImageSize = 2
    ChunkSize = 2
SYMMETRY ObjectsAndWorkersAlike
CONSTRAINT NoReset
INVARIANTS DetTypeOK WorkFlagAccounted OneWorkAtATime TransitionsIntact CompleteUnlessFailed
PROPERTIES HandlerSpec
CHECK_DEADLOCK FALSE
