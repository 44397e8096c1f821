--------------------------- MODULE ProductionLoop ---------------------------
(***************************************************************************)
(* The block production loop of a node (producer_plugin.cpp): the pending  *)
(* block and its mode, the one timer with its correlation id, watermarks,  *)
(* pause and resume, and the blocks of other producers that interrupt it.  *)
(*                                                                         *)
(* Time is counted in ticks; a slot is block_interval ticks.  A block is   *)
(* the branch that ends with it: the sequence of the blocks from genesis.  *)
(* There are two producer schedules.  A block is ready when it makes the   *)
(* block that proposed the second one irreversible: the next block then    *)
(* has the second schedule as its active one.                              *)
(***************************************************************************)
EXTENDS Integers, Sequences, FiniteSetsExt

CONSTANTS
    Schedules,            \* <<first, second>>: sequences of producers
    Local,                \* _producers: the producers of this node
    producer_repetitions, \* slots in a row of one producer
    block_interval,       \* ticks of a slot
    MinSleep,             \* block_interval_us / 10
    MaxHeadAge,           \* age of the head at which speculation stops
    FutureLimit,          \* how far ahead an incoming block may be
    produce_time_offset,
    last_block_time_offset,
    MaxTime,              \* bound: ticks
    Offers,               \* bound: number, slot and readiness of the blocks others produce
    MaxFaults,            \* bound: rejected blocks, failing start_block and produce_block
    MaxPauses             \* bound: calls of pause

VARIABLES
    now,     \* fc::time_point::now()
    node,    \* the fields of producer_plugin_impl and of the controller
    signed,  \* history: the branches this node has signed, with their confirmations
    faults, pauses  \* counters of the bounds

vars == <<now, node, signed, faults, pauses>>

ASSUME LoopAssumption ==
    /\ \A i \in 1 .. 2 :
          /\ Schedules[i] \in Seq(Range(Schedules[i])) /\ Schedules[i] # <<>>
          /\ \A j, k \in DOMAIN Schedules[i] : Schedules[i][j] = Schedules[i][k] => j = k
    /\ {producer_repetitions, block_interval} \subseteq Nat \ {0}
    /\ {MinSleep, MaxHeadAge, FutureLimit, MaxTime, MaxFaults, MaxPauses} \subseteq Nat
    /\ {produce_time_offset, last_block_time_offset} \subseteq Int
    /\ Offers \subseteq [num : Nat, slot : Nat, ready : BOOLEAN]

-----------------------------------------------------------------------------
(* Blocks and branches                                                     *)

Genesis == [slot |-> 0, producer |-> Schedules[1][1], ready |-> FALSE]
BlockNum(branch) == Len(branch)
Tip(branch) == branch[Len(branch)]
SlotTime(slot) == slot * block_interval
HeadTime(branch) == SlotTime(Tip(branch).slot)

(* The active schedule of the state of a block: promoted once its parent   *)
(* was ready.                                                              *)
ActiveSchedule(branch) ==
    IF Len(branch) > 1 /\ branch[Len(branch) - 1].ready THEN Schedules[2] ELSE Schedules[1]

ScheduledProducer(branch, slot) ==
    LET active == ActiveSchedule(branch)
    IN  active[((slot % (Len(active) * producer_repetitions)) \div producer_repetitions) + 1]

(* Fork choice: the irreversible block first, then the height.             *)
Better(b, c) ==
    \/ Tip(b).ready /\ ~Tip(c).ready
    \/ Tip(b).ready = Tip(c).ready /\ Len(b) > Len(c)

-----------------------------------------------------------------------------
(* The timer: what its handler is (a failed start_block is retried), when  *)
(* it expires, the correlation id captured by the handler and, as history, *)
(* the slot and the head it was set for.                                   *)
NoTimer == [kind |-> "none", at |-> 0, cid |-> 0, for |-> <<>>]
NoBlock == [slot |-> 0, producer |-> Genesis.producer, confirm |-> 0, prev |-> <<>>]

SetTimerSameIdMutant(s, kind, at, slot) ==
    [s EXCEPT !.timer = [kind |-> kind, at |-> at, cid |-> s.cid, for |-> <<slot, s.head>>]]

SetTimerLostIdMutant(s, kind, at, slot) ==
    [s EXCEPT !.timer = [kind |-> kind, at |-> at, cid |-> s.cid + 1, for |-> <<slot, s.head>>]]

SetTimer(s, kind, at, slot) ==
    [s EXCEPT !.cid = @ + 1,
              !.timer = [kind |-> kind, at |-> at, cid |-> s.cid + 1, for |-> <<slot, s.head>>]]

(* A handler that has expired can no longer be cancelled.                  *)
CancelTimer(s) == [s EXCEPT !.timer = NoTimer]

AbortBlock(s) == [s EXCEPT !.pending = NoBlock]

ProductionDisabledByPolicy(s) == ~s.enabled \/ s.paused

CalculatePendingBlockTime(s, t) ==
    LET base == IF HeadTime(s.head) > t THEN HeadTime(s.head) ELSE t
        next == (base \div block_interval + 1) * block_interval
    IN  IF next - t < MinSleep THEN next + block_interval ELSE next

CalculateBlockDeadline(slot) ==
    SlotTime(slot) + IF slot % producer_repetitions = producer_repetitions - 1
                     THEN last_block_time_offset ELSE produce_time_offset

(* The offset of the first slot a watermark allows, assuming that no block *)
(* is dropped.                                                             *)
MinimumOffset(s, p) ==
    LET num == BlockNum(s.head) + IF s.pending # NoBlock THEN 1 ELSE 0
    IN  IF s.watermark[p] > num THEN s.watermark[p] - num + 1 ELSE 1

CalculateNextBlockSlotMutant(s, p, current) ==
    LET active   == ActiveSchedule(s.head)
        index    == CHOOSE i \in 0 .. Len(active) - 1 : active[i + 1] = p
        minimum  == current + MinimumOffset(s, p)
        minIndex == (minimum % (Len(active) * producer_repetitions)) \div producer_repetitions
    IN  IF index = minIndex THEN minimum
        ELSE minimum + ((index - minIndex) % Len(active)) * producer_repetitions

CalculateNextBlockSlot(s, p, current) ==
    LET active   == ActiveSchedule(s.head)
        index    == CHOOSE i \in 0 .. Len(active) - 1 : active[i + 1] = p
        minimum  == current + MinimumOffset(s, p)
        minIndex == (minimum % (Len(active) * producer_repetitions)) \div producer_repetitions
        distance == IF index < minIndex THEN index - minIndex + Len(active) ELSE index - minIndex
    IN  IF index = minIndex THEN minimum
        ELSE minimum - (minimum % producer_repetitions) + distance * producer_repetitions

ScheduleDelayedProductionLoop(s, current) ==
    LET listed == Local \cap Range(ActiveSchedule(s.head))
        wake   == {SlotTime(CalculateNextBlockSlot(s, p, current) - 1) : p \in listed}
    IN  IF listed = {} THEN s ELSE SetTimer(s, "loop", Min(wake), current)

-----------------------------------------------------------------------------
(* start_block and schedule_production_loop, at time t; the controller's   *)
(* start_block may fail, and the transactions of the new block are         *)
(* processed until time u.                                                 *)

MayProduceMutant(s, p) ==
    s.enabled /\ p \in Local /\ ~s.paused

MayProduce(s, p) ==
    /\ s.enabled /\ p \in Local /\ ~s.paused
    /\ ~(s.watermark[p] >= BlockNum(s.head) + 1)

BlocksToConfirm(s, p) ==
    IF s.watermark[p] # 0 /\ s.watermark[p] < BlockNum(s.head)
    THEN (BlockNum(s.head) - s.watermark[p]) % 65536 ELSE 0

ScheduleProductionLoopMutant(s, t, u, fails) ==
    LET slot      == CalculatePendingBlockTime(s, t) \div block_interval
        producer  == ScheduledProducer(s.head, slot)
        producing == MayProduce(s, producer)
        m         == [CancelTimer(s) EXCEPT !.mode = IF producing THEN "producing" ELSE "speculating"]
        block     == [slot |-> slot, producer |-> producer, prev |-> s.head,
                      confirm |-> IF producing THEN BlocksToConfirm(s, producer) ELSE 0]
        started   == IF fails THEN AbortBlock(m) ELSE [m EXCEPT !.pending = block]
        deadline  == CalculateBlockDeadline(slot)
    IN  IF fails THEN started
        ELSE IF producing THEN SetTimer(started, "produce", IF deadline > u THEN deadline ELSE u, slot)
        ELSE IF ProductionDisabledByPolicy(m) THEN started
        ELSE ScheduleDelayedProductionLoop(started, slot)

ScheduleProductionLoop(s, t, u, fails) ==
    LET slot      == CalculatePendingBlockTime(s, t) \div block_interval
        producer  == ScheduledProducer(s.head, slot)
        producing == MayProduce(s, producer)
        m         == [CancelTimer(s) EXCEPT !.mode = IF producing THEN "producing" ELSE "speculating"]
        block     == [slot |-> slot, producer |-> producer, prev |-> s.head,
                      confirm |-> IF producing THEN BlocksToConfirm(s, producer) ELSE 0]
        started   == IF fails THEN AbortBlock(m) ELSE [m EXCEPT !.pending = block]
        deadline  == CalculateBlockDeadline(slot)
        expect    == SlotTime(slot - 1)
    IN  IF ~producing /\ t - HeadTime(s.head) > MaxHeadAge
        THEN IF ProductionDisabledByPolicy(m) THEN m
             ELSE ScheduleDelayedProductionLoop(m, slot)
        ELSE IF fails THEN SetTimer(started, "retry", t + MinSleep, slot)
        ELSE IF producing
        THEN SetTimer(started, "produce",
                      IF deadline > u THEN deadline ELSE IF u >= expect THEN u ELSE expect, slot)
        ELSE IF ProductionDisabledByPolicy(m) THEN started
        ELSE ScheduleDelayedProductionLoop(started, slot)

(* _start_time: time is counted from the start of the plugin.              *)
StartTime == 0

(* How long the transactions of a new block may take, in ticks.            *)
Spending == 0 .. 1

(* What every handler below ends with, after failed faults of its own.     *)
ThenSchedule(s, failed) ==
    \E u \in Spending, fails \in 0 .. 1 :
        /\ now + u <= MaxTime
        /\ now' = now + u
        /\ faults' = faults + failed + fails /\ faults' <= MaxFaults
        /\ node' = ScheduleProductionLoop(s, now, now + u, fails = 1)

-----------------------------------------------------------------------------
(* on_block, called with the state of every block as it is applied, unless *)
(* the block is not beyond the last one the node has signed a confirmation *)
(* of: a producer of this node that the next block installs gets the       *)
(* block's number as its watermark.                                        *)
OnBlock(s, branch) ==
    LET block     == Tip(branch)
        active    == Range(ActiveSchedule(branch))
        promotes  == block.ready /\ ActiveSchedule(branch) = Schedules[1]
        installed == Local \cap (Range(Schedules[2]) \ active)
        confirms  == (Local \cap active) \ {block.producer} # {}
    IN  IF \/ block.slot <= s.lastSigned.slot
           \/ SlotTime(block.slot) <= StartTime
           \/ BlockNum(branch) <= s.lastSigned.num
        THEN s
        ELSE [s EXCEPT !.lastSigned = IF confirms
                           THEN [slot |-> block.slot, num |-> BlockNum(branch)] ELSE @,
                       !.watermark = [p \in Local |->
                           IF promotes /\ p \in installed THEN BlockNum(branch) ELSE @[p]]]

CommonPrefix(b, c) ==
    Max({n \in 1 .. Len(c) : n <= Len(b) /\ SubSeq(b, 1, n) = SubSeq(c, 1, n)})

OnBlocks(s, from, to) ==
    LET common == CommonPrefix(from, to)
        after[n \in common .. Len(to)] ==
            IF n = common THEN s ELSE OnBlock(after[n - 1], SubSeq(to, 1, n))
    IN  after[Len(to)]

(* Whether a block is ready depends on the confirmations of others.        *)
ReadyChoices(branch) ==
    IF Tip(branch).ready THEN {TRUE} ELSE {o.ready : o \in Offers}

(* A block of another producer: the pending block is aborted, whether the  *)
(* block is then applied, kept on a worse fork or rejected.                *)
OnIncomingBlock ==
    \E parent \in node.known, o \in Offers, valid \in BOOLEAN :
        LET block    == [slot |-> o.slot, ready |-> o.ready,
                         producer |-> ScheduledProducer(parent, o.slot)]
            branch   == Append(parent, block)
            aborted  == AbortBlock(node)
            applied  == IF Better(branch, node.head)
                        THEN [OnBlocks(aborted, node.head, branch) EXCEPT
                                 !.head = branch, !.known = @ \cup {branch}]
                        ELSE [aborted EXCEPT !.known = @ \cup {branch}]
            accepted == [applied EXCEPT !.enabled =
                            @ \/ HeadTime(applied.head) + block_interval >= now]
        IN  /\ node.started
            /\ o.num = BlockNum(branch) /\ o.ready \in ReadyChoices(parent)
            /\ o.slot > Tip(parent).slot /\ SlotTime(o.slot) < now + FutureLimit
            /\ block.producer \notin Local /\ branch \notin node.known
            /\ IF valid THEN ThenSchedule(accepted, 0) ELSE ThenSchedule(aborted, 1)
            /\ UNCHANGED <<signed, pauses>>

ProduceBlock(s, ready) ==
    LET b      == s.pending
        branch == Append(s.head, [slot |-> b.slot, producer |-> b.producer, ready |-> ready])
    IN  [OnBlock(s, branch) EXCEPT !.head = branch, !.known = @ \cup {branch},
                                   !.pending = NoBlock,
                                   !.watermark[b.producer] = BlockNum(branch)]

(* The handler of an expired timer.                                        *)
MaybeProduceBlock(s) ==
    LET able == s.mode = "producing" /\ s.pending # NoBlock
    IN  \/ \E ready \in ReadyChoices(s.head) :
             /\ able
             /\ ThenSchedule(ProduceBlock(s, ready), 0)
             /\ signed' = signed \cup {[branch |-> ProduceBlock(s, ready).head,
                                        confirm |-> s.pending.confirm]}
        \/ /\ ThenSchedule(AbortBlock(s), IF able THEN 1 ELSE 0)
           /\ UNCHANGED signed

RunHandler(h) ==
    LET s == [node EXCEPT !.queued = @ \ {h}]
    IN  /\ IF h.cid # node.cid
           THEN node' = s /\ UNCHANGED <<now, signed, faults>>
           ELSE IF h.kind = "produce" THEN MaybeProduceBlock(s)
           ELSE ThenSchedule(s, 0) /\ UNCHANGED signed
        /\ UNCHANGED pauses

TimerExpires ==
    /\ node.timer # NoTimer /\ now >= node.timer.at
    /\ node' = [node EXCEPT !.timer = NoTimer, !.queued = @ \cup {node.timer}]
    /\ UNCHANGED <<now, signed, faults, pauses>>

Startup ==
    /\ ~node.started
    /\ ThenSchedule([node EXCEPT !.started = TRUE], 0)
    /\ UNCHANGED <<signed, pauses>>

Pause ==
    /\ node.started /\ pauses < MaxPauses
    /\ node' = [node EXCEPT !.paused = TRUE]
    /\ pauses' = pauses + 1
    /\ UNCHANGED <<now, signed, faults>>

Resume ==
    LET s == [node EXCEPT !.paused = FALSE]
    IN  /\ node.paused
        /\ IF s.mode = "speculating" THEN ThenSchedule(AbortBlock(s), 0)
           ELSE node' = s /\ UNCHANGED <<now, faults>>
        /\ UNCHANGED <<signed, pauses>>

Tick ==
    /\ now < MaxTime
    /\ now' = now + 1
    /\ UNCHANGED <<node, signed, faults, pauses>>

Init ==
    /\ now = 0
    /\ \E enable_stale_production \in BOOLEAN :
         node = [started |-> FALSE, enabled |-> enable_stale_production, paused |-> FALSE,
                 mode |-> "speculating", pending |-> NoBlock, timer |-> NoTimer, queued |-> {},
                 cid |-> 0, watermark |-> [p \in Local |-> 0], lastSigned |-> [slot |-> 0, num |-> 0],
                 head |-> <<Genesis>>, known |-> {<<Genesis>>}]
    /\ signed = {}
    /\ faults = 0 /\ pauses = 0

Next ==
    \/ Startup
    \/ OnIncomingBlock
    \/ TimerExpires
    \/ \E h \in node.queued : RunHandler(h)
    \/ Pause
    \/ Resume
    \/ Tick

Spec == Init /\ [][Next]_vars

-----------------------------------------------------------------------------
(* Properties                                                              *)

(* Every field has its type, and the timer never carries an id that was    *)
(* not handed out.                                                         *)
TypeOK ==
    /\ now \in 0 .. MaxTime
    /\ faults \in 0 .. MaxFaults /\ pauses \in 0 .. MaxPauses
    /\ {node.started, node.enabled, node.paused} \subseteq BOOLEAN
    /\ node.mode \in {"producing", "speculating"}
    /\ node.watermark \in [Local -> Nat]
    /\ node.head \in node.known
    /\ \A h \in node.queued \cup {node.timer} : h.cid \in 0 .. node.cid

(* The pending block always extends the head, at a later time, because     *)
(* every change of the head aborts it first, and a production handler that *)
(* passes the check of its correlation id while the node is producing      *)
(* finds the very block it was scheduled for.                              *)
ProducesWhatItScheduled ==
    /\ node.pending # NoBlock =>
          node.pending.prev = node.head /\ node.pending.slot > Tip(node.head).slot
    /\ \A h \in node.queued \cup {node.timer} :
          h.kind = "produce" /\ h.cid = node.cid /\ node.mode = "producing"
              => h.for = <<node.pending.slot, node.pending.prev>>

(* schedule_production_loop never lets the loop die: a node that may       *)
(* produce, with a producer in the active schedule, always has a timer or  *)
(* an expired handler that will be obeyed.                                 *)
LoopAlive ==
    node.started /\ ~ProductionDisabledByPolicy(node)
        /\ Local \cap Range(ActiveSchedule(node.head)) # {}
      => \E h \in node.queued \cup {node.timer} : h # NoTimer /\ h.cid = node.cid

(* A producer confirms a height once: no block it signs confirms, or is    *)
(* at, a height that another branch signed by it already has confirmed.    *)
(* This is what the watermarks are for.                                    *)
Confirms(x) == Len(x.branch) - x.confirm .. Len(x.branch)
ConfirmsOnce ==
    \A x, y \in signed :
        x # y /\ Tip(x.branch).producer = Tip(y.branch).producer
            => Confirms(x) \cap Confirms(y) = {}

(* When schedule_delayed_production_loop sets the timer, from a slot on, it *)
(* wakes the node one slot ahead of the first later slot in which a        *)
(* producer of its own may produce.                                        *)
WakesInTime ==
    node.timer.kind = "loop" =>
        LET current == node.timer.for[1]
            wake    == node.timer.at \div block_interval
            own     == {slot \in current + 1 .. wake :
                           LET p == ScheduledProducer(node.head, slot)
                           IN  p \in Local /\ slot >= current + MinimumOffset(node, p)}
        IN  own = {} /\ ScheduledProducer(node.head, wake + 1) \in Local

=============================================================================
