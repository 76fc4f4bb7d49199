SPECIFICATION Spec
CONSTANTS
    Objects = {o1, o2, o3}
    Handles = {h1, h2, h3}
    INVALID_SOCKET = INVALID_SOCKET
SYMMETRY ObjectsAndHandles
INVARIANTS OneOwner Accounted ConnectedIfTrue FailureReported
PROPERTIES ImplementsOwnership
