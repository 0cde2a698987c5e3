\* Two CPUs, two colliding connections, a threshold of 1 byte and then 1 byte
\* per millisecond (2 milliseconds per tick); byte_count wraps at 6.
CONSTANTS
    Cpu = {k1, k2}
    Conn <- MCConn
    FLOW_TABLE_SIZE = 2
    threshold = 1
    rate = 1
    HZ = 500
    PayloadLen = {0, 1}
    UINT = 6
    ULONG = 64
    MaxTime = 4
    MaxPackets = 8
SPECIFICATION Spec
INVARIANTS TypeOK RateBound
PROPERTIES DropJustified
SYMMETRY Symmetry
CHECK_DEADLOCK FALSE
