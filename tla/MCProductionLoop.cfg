SPECIFICATION Spec
CONSTANTS
    pa = pa
    pb = pb
    pc = pc
    Schedules <- FixedSchedules
    Local = {pa}
    producer_repetitions = 2
    block_interval = 3
    MinSleep = 2
    MaxHeadAge = 6
    FutureLimit = 6
    produce_time_offset = 0
    last_block_time_offset <- SoonerByOne
    Offers <- FixedOffers
    MaxTime = 14
    MaxFaults = 1
    MaxPauses = 1
INVARIANTS TypeOK ProducesWhatItScheduled LoopAlive ConfirmsOnce WakesInTime
CHECK_DEADLOCK FALSE
