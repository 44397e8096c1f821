---------------------------- MODULE HeaderChain ----------------------------
(***************************************************************************)
(* One chain of blocks as the producers of a network build it: the         *)
(* controller's start_block / set_proposed_producers / commit_block /      *)
(* abort_block cycle on top of the head header state, driven by the        *)
(* producer plugin's watermarks.  Which producer misses its slot, which    *)
(* node restarts (and forgets its watermark) and when the system contract  *)
(* proposes a schedule is nondeterministic.                                *)
(*                                                                         *)
(* history is an auxiliary variable: it records, per block of the chain,   *)
(* what the block's confirmation claims, and no action reads it.           *)
(***************************************************************************)
EXTENDS BlockHeaderState

CONSTANTS
  SystemAccount,   \* config::system_account_name, the only producer at genesis
  Schedules,       \* producer lists the system contract may propose
  MaxBlockNum,     \* bound: blocks beyond this number are not started
  MaxMissed,       \* bound: slots in a row that pass without a block
  MaxRestarts      \* bound: restarts of producer nodes

(* wasm_interface.cpp refuses an empty schedule and one that names a        *)
(* producer twice.                                                          *)
ASSUME SchedulesAssumption ==
  \A s \in Schedules : /\ s \in Seq({s[i] : i \in DOMAIN s}) /\ Len(s) > 0
                       /\ \A i, j \in DOMAIN s : s[i] = s[j] => i = j
ASSUME BoundsAssumption == MaxBlockNum \in Nat /\ MaxMissed \in Nat /\ MaxRestarts \in Nat

VARIABLES
  head,        \* controller_impl::head, its header state
  pending,     \* controller_impl::pending: <<>> or one record [bs, gpo]
  gpo,         \* global_property_object: the proposed schedule, num 0 when there is none
  watermark,   \* producer_plugin_impl::_producer_watermarks of the producers' nodes
  restarts,    \* restarts so far
  history      \* auxiliary: per block number, what the chain claims for it

vars == <<head, pending, gpo, watermark, restarts, history>>

InitialSchedule == [version |-> 0, producers |-> <<SystemAccount>>]
NoProposal == [num |-> 0, schedule |-> [version |-> 0, producers |-> <<>>]]

-----------------------------------------------------------------------------
Init ==
  /\ head = GenesisState(InitialSchedule)
  /\ pending = <<>>
  /\ gpo = NoProposal
  /\ watermark = [p \in {} |-> 0]
  /\ restarts = 0
  /\ history = <<[producer |-> "", required |-> 1, confirmers |-> {}, proposed |-> 0, floor |-> 0]>>

blocks_to_confirm_own(producer) ==
  IF producer \in DOMAIN watermark THEN head.block_num + 1 - watermark[producer] ELSE 0

(* producer_plugin_impl::start_block: how many blocks before its own a      *)
(* producer may confirm.                                                    *)
blocks_to_confirm(producer) ==
  IF producer \in DOMAIN watermark /\ watermark[producer] < head.block_num
  THEN (head.block_num - watermark[producer]) % 65536   \* uint16_t
  ELSE 0

WatermarkAllows(producer) ==
  producer \in DOMAIN watermark => watermark[producer] < head.block_num + 1

ProposalReadyAnyBlock(bs, was_pending_promoted) ==
  gpo.num # 0 /\ gpo.num <= bs.dpos_irreversible /\ bs.pending.producers = <<>>

(* controller_impl::start_block promotes a proposed schedule to pending     *)
(* when the block that proposed it is irreversible and there is room.       *)
ProposalReady(bs, was_pending_promoted) ==
  /\ gpo.num # 0
  /\ gpo.num <= bs.dpos_irreversible
  /\ bs.pending.producers = <<>>
  /\ ~was_pending_promoted

(* The block of slot when on top of the head, before pending is promoted.   *)
Confirmed(when) ==
  set_confirmed(generate_next(head, when), blocks_to_confirm(get_scheduled_producer(head, when)))

StartBlock(when) ==
  LET promoted == PendingPromotable(Confirmed(when))
      bs       == maybe_promote_pending(Confirmed(when))
  IN  /\ pending = <<>>
      /\ head.block_num < MaxBlockNum
      /\ when > head.timestamp
      /\ WatermarkAllows(get_scheduled_producer(head, when))
      /\ \/ /\ ProposalReady(bs, promoted)
            /\ CanSetNewProducers(bs, gpo.schedule)
            /\ pending' = <<[bs |-> set_new_producers(bs, gpo.schedule), gpo |-> NoProposal]>>
         \/ /\ ~ProposalReady(bs, promoted)
            /\ pending' = <<[bs |-> bs, gpo |-> gpo]>>
      /\ UNCHANGED <<head, gpo, watermark, restarts, history>>

ReferenceScheduleActive(bs) == bs.active

(* The schedule a new proposal will replace. *)
ReferenceSchedule(bs) == IF bs.pending.producers = <<>> THEN bs.active ELSE bs.pending

(* controller::set_proposed_producers, called by an action of the pending   *)
(* block.  It is refused while an older proposal waits and when the list    *)
(* would change nothing.                                                    *)
SetProposedProducers(producers) ==
  LET p   == pending[1]
      cur == head.block_num + 1
      ref == ReferenceSchedule(p.bs)
  IN  /\ pending # <<>>
      /\ p.gpo.num # 0 => p.gpo.num = cur /\ p.gpo.schedule.producers # producers
      /\ producers # ref.producers
      /\ pending' = <<[p EXCEPT !.gpo = [num |-> cur,
                         schedule |-> [version |-> ref.version + 1, producers |-> producers]]]>>
      /\ UNCHANGED <<head, gpo, watermark, restarts, history>>

(* fork_database orders by (dpos_irreversible, bft_irreversible, block_num) *)
(* and commit_block asserts that the new block is first in that order.      *)
Outranks(bs, other) ==
  \/ bs.dpos_irreversible > other.dpos_irreversible
  \/ bs.dpos_irreversible = other.dpos_irreversible /\ bs.block_num > other.block_num

(* producer_plugin_impl::on_block: producers that the next block will make  *)
(* active start with the accepted block as their watermark.                 *)
NewlyActive(bs) ==
  LET new_bs == generate_next(bs, bs.timestamp + 1)
  IN  IF PendingPromotable(new_bs) /\ bs.active.version # new_bs.pending.version
      THEN ProducersOf(new_bs.pending) \ ProducersOf(bs.active)
      ELSE {}

(* Auxiliary: the block with header state bs confirms itself and the        *)
(* bs.confirmed blocks before it.                                           *)
Recorded(bs) ==
  LET n     == bs.block_num
      first == n - bs.confirmed
      entry == [producer |-> bs.producer, required |-> RequiredConfs(head.active),
                confirmers |-> {}, proposed |-> bs.dpos_proposed,
                floor |-> IF bs.active # head.active THEN bs.dpos_irreversible
                                                     ELSE history[n - 1].floor]
      grown == Append(history, entry)
  IN  [i \in 1..n |-> IF i < first THEN grown[i]
                      ELSE [grown[i] EXCEPT !.confirmers = @ \cup {bs.producer}]]

(* produce_block: finalize, sign, commit_block; then the watermark.         *)
CommitBlock ==
  LET bs == pending[1].bs
      marked == NewlyActive(bs)
  IN  /\ pending # <<>>
      /\ Outranks(bs, head)
      /\ head' = bs
      /\ gpo' = pending[1].gpo
      /\ pending' = <<>>
      /\ watermark' = [p \in DOMAIN watermark \cup marked \cup {bs.producer} |->
                         IF p \in marked \cup {bs.producer} THEN bs.block_num ELSE watermark[p]]
      /\ history' = Recorded(bs)
      /\ UNCHANGED restarts

(* commit_block's assertion fails: the block is aborted and the head stays. *)
CommitRejected ==
  /\ pending # <<>>
  /\ ~Outranks(pending[1].bs, head)
  /\ pending' = <<>>
  /\ UNCHANGED <<head, gpo, watermark, restarts, history>>

AbortBlock ==
  /\ pending # <<>>
  /\ pending' = <<>>
  /\ UNCHANGED <<head, gpo, watermark, restarts, history>>

(* The node of producer p restarts: watermarks live in memory only.         *)
Restart(p) ==
  /\ pending = <<>>
  /\ restarts < MaxRestarts
  /\ watermark' = [q \in DOMAIN watermark \ {p} |-> watermark[q]]
  /\ restarts' = restarts + 1
  /\ UNCHANGED <<head, pending, gpo, history>>

NextSlots == head.timestamp + 1 .. head.timestamp + 1 + MaxMissed

Next ==
  \/ \E when \in NextSlots : StartBlock(when)
  \/ \E producers \in Schedules : SetProposedProducers(producers)
  \/ CommitBlock
  \/ CommitRejected
  \/ AbortBlock
  \/ \E p \in DOMAIN watermark : Restart(p)

Spec == Init /\ [][Next]_vars

-----------------------------------------------------------------------------
(* Invariants and action properties. *)

Accounts == {SystemAccount} \cup UNION {{s[i] : i \in DOMAIN s} : s \in Schedules}
BlockProducers == Accounts \cup {""}   \* the genesis block names no producer
ScheduleType == [version : Nat, producers : Seq(Accounts)]
HeaderFields ==
  {"block_num", "timestamp", "producer", "confirmed", "schedule_version", "new_producers",
   "active", "pending", "pending_lib", "last_produced", "last_implied_irb", "confirm_count",
   "dpos_proposed", "dpos_irreversible"}
IsNumMap(map, keys) ==
  DOMAIN map \subseteq keys /\ IsFiniteSet(DOMAIN map) /\ map \in [DOMAIN map -> Nat]
IsHeaderState(hs) ==
  /\ hs = [f \in HeaderFields |-> hs[f]]
  /\ hs.block_num \in Nat \ {0} /\ hs.timestamp \in Nat /\ hs.confirmed \in Nat
  /\ hs.producer \in BlockProducers /\ hs.schedule_version \in Nat
  /\ hs.new_producers \in Seq(ScheduleType)
  /\ hs.active \in ScheduleType /\ hs.active.producers # <<>>
  /\ hs.pending \in ScheduleType /\ hs.pending_lib \in Nat
  /\ IsNumMap(hs.last_produced, BlockProducers) /\ IsNumMap(hs.last_implied_irb, Accounts)
  /\ hs.confirm_count \in Seq(Nat \ {0})
  /\ hs.dpos_proposed \in Nat /\ hs.dpos_irreversible \in Nat

(* Every variable keeps its type; in particular the active schedule is      *)
(* never empty (get_scheduled_producer indexes it) and no confirm counter   *)
(* is ever zero, so that the uint8_t decrement of set_confirmed cannot      *)
(* wrap.                                                                    *)
TypeOK ==
  /\ IsHeaderState(head)
  /\ pending # <<>> => /\ pending = <<pending[1]>>
                       /\ IsHeaderState(pending[1].bs)
                       /\ pending[1].gpo \in [num : Nat, schedule : ScheduleType]
  /\ gpo \in [num : Nat, schedule : ScheduleType]
  /\ IsNumMap(watermark, BlockProducers)
  /\ restarts \in 0..MaxRestarts
  /\ Len(history) = head.block_num

(* Irreversibility is two-phase: generate_next and set_confirmed never let  *)
(* a block be irreversible before it is proposed irreversible, nor proposed *)
(* before it exists, whatever slots are missed and whatever schedules come. *)
(* What a producer implied irreversible is never ahead of what is proposed. *)
BehindProposed(hs) ==
  /\ hs.dpos_irreversible <= hs.dpos_proposed
  /\ hs.dpos_proposed <= hs.block_num
  /\ \A p \in DOMAIN hs.last_implied_irb : hs.last_implied_irb[p] <= hs.dpos_proposed
LibBehindProposed == BehindProposed(head) /\ (pending # <<>> => BehindProposed(pending[1].bs))

(* set_confirmed turns an index of confirm_count into a block number by     *)
(* counting from the back.  That is right because the counters are exactly  *)
(* those of the newest blocks after the proposed one, at most MaxTracked.   *)
Aligned(hs) ==
  LET untracked == IF hs.dpos_proposed = 0 THEN 1 ELSE hs.dpos_proposed
      waiting   == hs.block_num - untracked
  IN  Len(hs.confirm_count) = IF waiting <= MaxTracked THEN waiting ELSE MaxTracked
ConfirmCountAligned == Aligned(head) /\ (pending # <<>> => Aligned(pending[1].bs))

(* A proposed irreversible block has been confirmed by more than two thirds *)
(* of the schedule that signed it, each producer counted once: watermarks,  *)
(* restarts and schedule changes never make confirm_count count a producer  *)
(* twice.                                                                   *)
ProposedHasQuorum ==
  head.dpos_proposed > 0 =>
    Cardinality(history[head.dpos_proposed].confirmers) >= history[head.dpos_proposed].required

(* A block that became irreversible under the active schedule was seen as   *)
(* proposed irreversible by more than two thirds of that schedule, each in  *)
(* a block of its own built after the proposal.                             *)
IrreversibleHasQuorum ==
  LET lib       == head.dpos_irreversible
      n         == Len(head.active.producers)
      witnesses == {p \in ProducersOf(head.active) :
                      \E i \in 2..head.block_num : history[i].producer = p /\ history[i - 1].proposed >= lib}
  IN  lib > history[head.block_num].floor => Cardinality(witnesses) >= n - (n - 1) \div 3

(* The header state a producer builds with start_block is the one every     *)
(* validator computes from the block's header with next, and next accepts   *)
(* that header.  The one assertion of next that can fail is the check for   *)
(* double confirmation, and only for a producer whose watermark is older    *)
(* than the number producer_to_last_produced holds for it.                  *)
StaleWatermark(p) ==
  /\ p \in DOMAIN watermark \cap DOMAIN head.last_produced
  /\ watermark[p] < head.last_produced[p]
ValidatorAgrees ==
  pending # <<>> => LET bs == pending[1].bs
                    IN  /\ next(head, HeaderOf(bs)) = bs
                        /\ CanNext(head, HeaderOf(bs)) \/ StaleWatermark(bs.producer)

(* What next asserts of every block, that its producer confirms no block a  *)
(* second time, is true of the blocks the producer plugin builds.           *)
NeverDoubleConfirms == pending # <<>> => CanNext(head, HeaderOf(pending[1].bs))

(* A waiting proposal always carries the version that set_new_producers     *)
(* will ask for, although active and pending schedules move between the     *)
(* proposal and its promotion; otherwise start_block would throw for ever.  *)
ProposalVersionFits ==
  gpo.num # 0 => gpo.schedule.version =
                   1 + (IF head.pending.producers = <<>> THEN head.active ELSE head.pending).version

(* What generate_next computes as the irreversible number of the next block *)
(* is lower than that of the block just committed only when that block has  *)
(* activated a schedule in which a lower rank counts: implied numbers grow  *)
(* and new producers start at the irreversible number, so that missed       *)
(* slots, producers that are replaced and larger schedules never lower it.  *)
Round(hs) == hs.timestamp + 1 .. hs.timestamp + Len(hs.active.producers) * ProducerRepetitions
RankOf(hs) == LibIndex(Len(hs.active.producers))
LibFallsOnlyOnShrink ==
  [][head' # head /\ RankOf(head') >= RankOf(head) =>
       \A when \in Round(head') :
         generate_next(head', when).dpos_irreversible >= head'.dpos_irreversible]_vars

(* Whatever the irreversible number does when the schedule changes, within  *)
(* one round of slots some producer can extend the head with a block that   *)
(* commit_block accepts: the chain is never stuck for good.                 *)
SomeProducerExtends ==
  \E when \in Round(head) :
    Outranks(maybe_promote_pending(Confirmed(when)), head)

(* commit_block asserts that the block it commits becomes the head of the   *)
(* fork database: a block built on the head outranks it.                    *)
PendingOutranksHead == pending # <<>> => Outranks(pending[1].bs, head)

=============================================================================
