SPECIFICATION Spec
CONSTANTS
    pa = pa
    pb = pb
    pc = pc
    Schedules <- NewSchedules
    Local = {pa}
    producer_repetitions = 2
    block_interval = 1
    MinSleep = 1
    MaxHeadAge = 5
    FutureLimit = 2
    produce_time_offset = 0
    last_block_time_offset = 0
    Offers <- NewOffers
    MaxTime = 8
    MaxFaults = 0
    MaxPauses = 0
INVARIANTS ConfirmsOnce
CHECK_DEADLOCK FALSE
