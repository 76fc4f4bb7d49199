SPECIFICATION FairSpec
CONSTANTS
    Workers = {"w1", "w2"}
    null = null
    N_BUF = 2
    MaxGranted = 3
    ImageChunks = 2
INVARIANTS TypeOK ImageOnlyIfStopFailed LeftOpenIffStopFailed CrashNeedsFailure
PROPERTIES StaysAbandoned NoneAfterFailure AcquisitionEnds ImplementsRegister
CONSTRAINT OddAnswersAreRare
CHECK_DEADLOCK FALSE
