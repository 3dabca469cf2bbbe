CONSTANTS
    Hosts = {h1}
    Macs = {m1, m2}
    local_ip = me
    Bits = {0, 1}
    Metrics = {0, 1}
    Keys = {k1, k2}
    Datagrams <- MCDatagrams
    Mtus = {2, 3}
    Ports = {p1}
    ARP_EXPIRY_TICKS = 3
    ARP_EXPIRE_CHECK_INTERVAL = 2
    FRAGMENT_TIMEOUT_TICKS = 1
    MAX_FRAGMENT_SETS = 1
    MAX_FRAGMENTS_PER_DATAGRAM = 3
    UDP_QUEUE_MAX_DEPTH = 2
    MaxTick = 4
    MaxRoutes = 3
    MaxSent = 2
    Word = 4
    NetUses <- MCUses
SPECIFICATION Spec
INVARIANTS NetSound 
CHECK_DEADLOCK FALSE
CONSTANTS
    Clients = {c1, c2}
    Servers = {s1, s2}
    Addresses = {a1, a2}
    LeaseTime = 2
    Zero = zero
    MaxAge = 1
    MaxReplies = 2
    Names <- MCNames
    DnsServer = srv
    Others = {other}
    DNS_MAX_RETRIES = 2
    MaxCalls = 2
SYMMETRY Symmetric
