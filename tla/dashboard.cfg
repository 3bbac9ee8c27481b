SPECIFICATION Spec
CONSTANTS
    s1 = s1  s2 = s2  s3 = s3
    Sockets <- MCSockets
    None = None
    MaxDrops = 3
INVARIANTS TypeOK SocketsBounded
PROPERTIES KeepsHearing
\* Before the first mount nothing happens.
CHECK_DEADLOCK FALSE
