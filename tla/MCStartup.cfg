SPECIFICATION Spec
CONSTANTS
    NodeAmnt = 2
    IP_SERVER_PORT = 0
    PORT_BASE = 1
    Hosts = {0, 1}
    MAX_TRIES = 4
    BACKLOG = 1
    Claws <- MCClaws
    Base = 3
    HEADER_SIZE = 2
    CHUNK_SIZE = 2
    SockBuf = 2
    Links <- MCLinks
    Traffic <- MCTraffic
INVARIANTS
    WholeMessages
    Partners
    SameClawFree
PROPERTIES
    Started
