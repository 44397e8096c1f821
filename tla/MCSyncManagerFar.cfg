SPECIFICATION Spec
CONSTANTS
    na = na
    nb = nb
    nc = nc
    None = None
    Order <- MCOrder
    Networks <- FarNetworks
    Producers = {nb}
    MaxHead = 6
    LibLag = 2
    sync_req_span = 2
INVARIANTS QuietIsCaughtUp
CHECK_DEADLOCK FALSE
