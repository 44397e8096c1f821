-------------------------- MODULE BlockHeaderState --------------------------
(***************************************************************************)
(* The header state a node keeps for every block and how it is computed    *)
(* from the header state of the parent: libraries/chain/                   *)
(* block_header_state.cpp.  Everything here is a pure operator; the state  *)
(* machines of the project are built from them.                            *)
(*                                                                         *)
(* Fields keep the source's names, shortened where they are long:          *)
(*   dpos_proposed      dpos_proposed_irreversible_blocknum                *)
(*   dpos_irreversible  dpos_irreversible_blocknum                         *)
(*   active, pending    active_schedule, pending_schedule                  *)
(*   pending_lib        pending_schedule_lib_num                           *)
(*   last_produced      producer_to_last_produced                          *)
(*   last_implied_irb   producer_to_last_implied_irb                       *)
(* timestamp is the slot number of the block's time.  Signing keys, merkle *)
(* roots and ids carry no control and are left out; bft_irreversible is    *)
(* left out because no code path of the node feeds the fork database a     *)
(* header_confirmation, so that it is 0 in every header state.             *)
(***************************************************************************)
EXTENDS Integers, Sequences, FiniteSets

CONSTANTS
  ProducerRepetitions,  \* config::producer_repetitions: consecutive slots of a producer
  MaxTracked            \* config::maximum_tracked_dpos_confirmations

ASSUME RepetitionsAssumption == ProducerRepetitions \in Nat \ {0}
ASSUME MaxTrackedAssumption == MaxTracked \in Nat \ {0}

-----------------------------------------------------------------------------
(* flat_map::operator[] used as an assignment. *)
Put(map, key, value) ==
  [k \in DOMAIN map \cup {key} |-> IF k = key THEN value ELSE map[k]]

ProducersOf(schedule) == {schedule.producers[i] : i \in DOMAIN schedule.producers}

RequiredConfsTwoThirds(schedule) == (Len(schedule.producers) * 2) \div 3

(* Confirmations a block needs: more than two thirds of the schedule. *)
RequiredConfs(schedule) == (Len(schedule.producers) * 2) \div 3 + 1

get_scheduled_producer(hs, when) ==
  LET n == Len(hs.active.producers)
  IN  hs.active.producers[(when % (n * ProducerRepetitions)) \div ProducerRepetitions + 1]

LibIndexUpperThird(n) == n \div 3

(* Position of the last irreversible block among the sorted implied numbers. *)
LibIndex(n) == (n - 1) \div 3

(* Element (size-1)/3 of the sorted implied irreversible block numbers: the *)
(* value with at most that many entries below it and more than that many at *)
(* or below it.                                                             *)
calc_dpos_last_irreversible(implied_irb) ==
  LET k == LibIndex(Cardinality(DOMAIN implied_irb))
  IN  IF DOMAIN implied_irb = {} THEN 0
      ELSE CHOOSE v \in {implied_irb[p] : p \in DOMAIN implied_irb} :
             /\ Cardinality({p \in DOMAIN implied_irb : implied_irb[p] < v}) <= k
             /\ Cardinality({p \in DOMAIN implied_irb : implied_irb[p] <= v}) > k

GrowConfirmCountUnbounded(confirm_count, required_confs) == Append(confirm_count, required_confs)

(* The confirm counter of the new block is appended; at the limit the       *)
(* oldest counter makes room for it.                                        *)
GrowConfirmCount(confirm_count, required_confs) ==
  Append(IF Len(confirm_count) < MaxTracked THEN confirm_count ELSE Tail(confirm_count),
         required_confs)

(* Template of the block after hs at slot when, before it confirms any      *)
(* block.                                                                   *)
generate_next(hs, when) ==
  LET producer == get_scheduled_producer(hs, when)
      implied  == Put(hs.last_implied_irb, producer, hs.dpos_proposed)
  IN  [hs EXCEPT !.block_num         = hs.block_num + 1,
                 !.timestamp         = when,
                 !.producer          = producer,
                 !.schedule_version  = hs.active.version,
                 !.new_producers     = <<>>,
                 !.last_produced     = Put(hs.last_produced, producer, hs.block_num + 1),
                 !.last_implied_irb  = implied,
                 !.dpos_irreversible = calc_dpos_last_irreversible(implied),
                 !.confirm_count     = GrowConfirmCount(hs.confirm_count, RequiredConfs(hs.active))]

BlockNumForOffByOne(hs, i) == hs.block_num - (Len(hs.confirm_count) - 1 - i)

(* The block whose counter is entry i of confirm_count. *)
BlockNumFor(hs, i) == hs.block_num - (Len(hs.confirm_count) - i)

(* The block confirms itself and the num_prev_blocks blocks before it:      *)
(* their counters are decremented from the newest on, and the first one     *)
(* that reaches zero makes its block the proposed irreversible block and    *)
(* drops its counter and all the older ones.                                *)
set_confirmed(hs, num_prev_blocks) ==
  LET cc      == hs.confirm_count
      first   == IF num_prev_blocks < Len(cc) THEN Len(cc) - num_prev_blocks ELSE 1
      reached == {i \in first..Len(cc) : cc[i] = 1}
      last    == CHOOSE i \in reached : \A j \in reached : j <= i
  IN  IF reached = {}
      THEN [hs EXCEPT !.confirmed     = num_prev_blocks,
                      !.confirm_count = [i \in 1..Len(cc) |-> IF i >= first THEN cc[i] - 1 ELSE cc[i]]]
      ELSE [hs EXCEPT !.confirmed     = num_prev_blocks,
                      !.dpos_proposed = BlockNumFor(hs, last),
                      !.confirm_count = [i \in 1..(Len(cc) - last) |-> cc[last + i] - 1]]

(* The pending schedule becomes active once the block that announced it is  *)
(* irreversible.  Producers that stay keep their entries, new ones start at *)
(* the last irreversible block.                                             *)
PendingPromotable(hs) ==
  hs.pending.producers # <<>> /\ hs.dpos_irreversible >= hs.pending_lib

InheritFromZero(map, producers, default) ==
  [p \in producers |-> IF p \in DOMAIN map THEN map[p] ELSE 0]

Inherit(map, producers, default) ==
  [p \in producers |-> IF p \in DOMAIN map THEN map[p] ELSE default]

maybe_promote_pending(hs) ==
  LET producers == ProducersOf(hs.pending)
  IN  IF ~PendingPromotable(hs) THEN hs
      ELSE [hs EXCEPT !.active           = hs.pending,
                      !.pending          = [hs.pending EXCEPT !.producers = <<>>],
                      !.last_produced    = Put(Inherit(hs.last_produced, producers, hs.dpos_irreversible),
                                               hs.producer, hs.block_num),
                      !.last_implied_irb = Inherit(hs.last_implied_irb, producers, hs.dpos_irreversible)]

(* The two assertions of set_new_producers. *)
CanSetNewProducers(hs, schedule) ==
  schedule.version = hs.active.version + 1 /\ hs.pending.producers = <<>>

set_new_producers(hs, schedule) ==
  [hs EXCEPT !.new_producers = <<schedule>>,
             !.pending       = schedule,
             !.pending_lib   = hs.block_num]

-----------------------------------------------------------------------------
(* The fields of a header state that a signed block header carries. *)
HeaderOf(hs) ==
  [timestamp |-> hs.timestamp, producer |-> hs.producer, confirmed |-> hs.confirmed,
   schedule_version |-> hs.schedule_version, new_producers |-> hs.new_producers]

(* The double-confirm check, last < block_num - confirmed in uint32_t: the   *)
(* difference wraps above every block number when confirmed > block_num.    *)
ConfirmsOnlyNew(last, block_num, confirmed) ==
  last < block_num - confirmed \/ confirmed > block_num

(* The assertions a received header h has to pass on top of hs. *)
CanNext(hs, h) ==
  LET template == generate_next(hs, h.timestamp)
      settled  == set_confirmed(template, h.confirmed)
  IN  /\ h.timestamp > hs.timestamp
      /\ h.producer = template.producer
      /\ h.schedule_version = template.schedule_version
      /\ h.producer \in DOMAIN hs.last_produced
           => ConfirmsOnlyNew(hs.last_produced[h.producer], template.block_num, h.confirmed)
      /\ h.new_producers # <<>> =>
           /\ ~PendingPromotable(settled)
           /\ CanSetNewProducers(settled, h.new_producers[1])

(* Header state after the block with header h, as a validator computes it. *)
next(hs, h) ==
  LET settled == maybe_promote_pending(set_confirmed(generate_next(hs, h.timestamp), h.confirmed))
  IN  IF h.new_producers = <<>> THEN settled
      ELSE set_new_producers(settled, h.new_producers[1])

(* controller_impl::initialize_fork_db: one initial schedule, both active   *)
(* and pending, and empty producer maps.                                    *)
GenesisState(initial_schedule) ==
  [block_num |-> 1, timestamp |-> 0, producer |-> "", confirmed |-> 1,
   schedule_version |-> 0, new_producers |-> <<>>,
   active |-> initial_schedule, pending |-> initial_schedule, pending_lib |-> 0,
   last_produced |-> [p \in {} |-> 0], last_implied_irb |-> [p \in {} |-> 0],
   confirm_count |-> <<>>, dpos_proposed |-> 0, dpos_irreversible |-> 0]

=============================================================================
