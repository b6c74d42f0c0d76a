CONSTANTS
    Procs = {p1, p2}
    NETIN = netin
    IPOUT = ipout
    Hosts = {h1, h2}
    NONE = none
    UDP_SLOTS = 1
    UDP_QSIZ = 2
    ICMP_SLOTS = 1
    ICMP_QSIZ = 1
    ARP_SIZ = 1
    ARP_RETRY = 2
    IP_OQSIZ = 1
    Foreign = FALSE
    SharedSlots = FALSE
    Sessions = {{"udp", "icmp", "echo"}, {"icmp", "arp", "send"}, {"udp", "echo", "send"}}
SPECIFICATION LiveSpec
INVARIANT BuffersConserved
INVARIANT ReceiverServed
INVARIANT PendingAwaited
PROPERTY NeverUnresolved
PROPERTY NetinGoesOn
VIEW StateView
CHECK_DEADLOCK FALSE
