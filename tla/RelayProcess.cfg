SPECIFICATION ProcessSpec
CONSTANTS
    Runs = {1, 2}
    Roles = {"guard", "exit"}
    Proxies = {"absent", "no port", "socks5"}
    Ports = {25, 443}
    Allowed = {{443}}
    MaxHead = 1
    TTL = 1
    MaxStarts = 2
    MaxRemovals = 1
    MaxFollowed = 1
INVARIANTS
    WrittenKeyKept
    StartsComplete
    ExitDials
    OneLink
PROPERTIES
    ExitsIffNotified
    ConnectionsEnd
    StaleRowRetired
CHECK_DEADLOCK FALSE
