SPECIFICATION Spec
CONSTANT MaxConn = 3
INVARIANTS
    LastThreadsEnded
CHECK_DEADLOCK FALSE
