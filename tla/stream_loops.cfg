SPECIFICATION FairSpec
CONSTANTS
    Length = 2
    Capacity = 2
    MaxSignals = 1
INVARIANTS TypeOK NoByteLost ShortForAReason
PROPERTIES CallsEnd SpinsAtEnd
