\* Sequence numbers wrap within the first bytes; segments carry two bytes.
CONSTANTS
    NoInode = NoInode
    Tasks = {t1, t2, t3}
    Inodes = {i1, i2}
    MaxFds = 1
    c1 = c1
    c2 = c2
    srv = srv
    ChTasks <- Instances
    MaxSent = 4
    Uses <- MCChannelUses
    p1 = p1
    p2 = p2
    TcpPorts = {p1, p2}
    MAX_SEGMENT_SIZE = 2
    SeqSpan = 16
    INITIAL_SEQ = 14
    MaxBuffer = 3
    TcpUses <- MCLinks
SPECIFICATION CallSpec
PROPERTY CallWakesReceiver
CHECK_DEADLOCK FALSE
