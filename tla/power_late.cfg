SPECIFICATION Spec
CONSTANTS
    Registers = {1, 10}
    Displayed = {16}
    AnyByte = {0, 4, 255}
    TtyBound = 18
    MaxPorts = 2
    MaxLate = 2
INVARIANTS TypeOK AnswersInOrder
CONSTRAINT OneAnswerAtATime
CHECK_DEADLOCK FALSE
