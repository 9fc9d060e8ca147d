SPECIFICATION OrderlySpec
CONSTANT MaxConn = 4
INVARIANTS
    LastThreadsEnded
    ServesOneClient
    NoDescriptorLeft
PROPERTIES
    DialledIsServed
CHECK_DEADLOCK FALSE
