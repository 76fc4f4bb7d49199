SPECIFICATION IdleSpec
CONSTANTS
    c1 = c1
    t1 = t1
    n1 = n1
    Conns = {c1}
    Numbers = {n1}
    none = none
    Threads = {t1}
    Loops = {"main"}
    main = "main"
    INVALID_SOCKET = INVALID_SOCKET
    StateCommands = {"SLEEP"}
    OtherCommands = {"OTHER"}
    InboxBound = 3
    QueueBound = 2
    MaxAcceptFailures = 0
INVARIANTS TypeOK
PROPERTIES MessagesRead
CHECK_DEADLOCK FALSE
