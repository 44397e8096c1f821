SPECIFICATION FairSpec
CONSTANTS
    na = na
    nb = nb
    nc = nc
    None = None
    Order <- MCOrder
    Networks <- GoodNetworks
    Producers = {nb}
    MaxHead = 6
    LibLag = 2
    sync_req_span = 2
INVARIANTS TypeOK CatchupIsWatched QuietIsCaughtUp
PROPERTIES LeavesCatchupDone EventuallySynced
CHECK_DEADLOCK FALSE
