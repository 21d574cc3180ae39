SPECIFICATION FairSpec
CONSTANTS
    a1 = a1
    a2 = a2
    b1 = b1
    Addrs <- MCAddrs
    Ident <- MCIdent
    NoAddr = NoAddr
    NoOne = NoOne
    Collectors = {c1}
    Pages = {p1}
    Readers = {r1}
    MaxSaves = 2
    MaxClears = 0
    MaxCrashes = 1
    MaxBusy = 1
PROPERTIES
    SwitchCompletes
