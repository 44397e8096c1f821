SPECIFICATION Spec
CONSTANTS
    ua = ua
    ub = ub
    stake = stake
    NoTrx = NoTrx
    NoRefund = NoRefund
    Accounts = {ua, ub}
    Ids = {ua, ub}
    Holders = {ua, ub, stake}
    max_supply = 2
    deferred_trx_expiration_window = 0
    refund_delay = 2
    EscrowPeriod = 2
    PeriodCounts = {0, 1, 2}
    Amounts = {0, 1}
    Endowments <- MCEndowments
    MaxEscrows = 2
    MaxTime = 3
INVARIANTS TypeOK TokensConserved StakeIsBacked RamMatchesQueue ScheduledRefundIsDue RefundIsScheduled EscrowIsHeld
PROPERTIES ImplementsLedger
CHECK_DEADLOCK FALSE
