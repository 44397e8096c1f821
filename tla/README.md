# Verification of the Snax block chain core

Snax is a delegated-proof-of-stake block chain node (an EOSIO derivative). This
directory holds TLA+ models of the parts of the node that decide which blocks are
final and what a node keeps of them, that produce blocks and fetch them from peers, and
of the contract that holds the staked tokens; TLC configurations that check them on small
instances; and TLAPS proofs for all instances.

## The system and its parts

| Part | Source | State | Operations | What must hold |
|---|---|---|---|---|
| Block header state | `libraries/chain/block_header_state.cpp` | schedules, confirm counters, last produced and implied numbers, proposed and irreversible number | generate_next, set_confirmed, maybe_promote_pending, set_new_producers, next | irreversibility is backed by quorums and falls back only where a smaller schedule ranks the producers anew; validators compute what the producer computed |
| Block production | `controller.cpp`, `producer_plugin.cpp` | head, pending block, proposed schedule, watermarks | start_block, set_proposed_producers, commit_block, abort_block, on_block | a block built on the head becomes the head; no producer confirms a height twice |
| Production loop | `producer_plugin.cpp` | pending block and mode, timer and correlation id, watermarks | schedule_production_loop, maybe_produce_block, on_incoming_block, pause, resume | a stale timer produces nothing; the loop never dies and wakes in time |
| Fork database | `fork_database.cpp` | index of blocks, head, in_current_chain | add, prune, remove, fetch_branch_from, close, load | best block is elected; no holes; nothing contradicts the block log |
| Controller | `controller.cpp` | head, chain state with undo, reversible blocks, block log | push_block, fork switch, pop_block, on_irreversible, replay, init | all stores describe one chain at every instant; restarts find it again |
| Network sync | `net_plugin.cpp` | sync state, requested ranges, connections with queues and timers | handlers of messages, writes, timeouts, connection_monitor | a lagging node catches up and no node waits for an answer that nobody owes |
| Generated transactions | `controller.cpp`, `apply_context.cpp` | the table, RAM billed for it | schedule, replace, cancel, run, fail, onerror, expire | each ends once, or is back in the table; RAM is given back exactly |
| Token contract | `contracts/snax.token` | balances, supply | issue, transfer | no token is created or lost |
| System contract: staking | `contracts/snax.system/delegate_bandwidth.cpp` | delegations, resources, votes, refunds, escrows | delegatebw, escrowbw, undelegatebw, refund | staked tokens are backed, and paid back once and in time |

The producer plugin calls the controller; the controller extends header states, keeps
them in the fork database, and gets the irreversible blocks back from it; the network
plugin feeds received blocks to the producer plugin, which hands them to the controller.
The producer plugin also takes ready generated transactions, among them the refunds that
the system contract schedules, and the system contract moves tokens with inline actions of
the token contract. `PROJECT.json` lists every part, also those left out, and the hazards
with the lines where they bite.

## Modules

**BlockHeaderState** has the pure operators of `block_header_state.cpp` under their source
names. Signing keys, merkle roots and ids are left out. The bft numbers are left out
because no caller feeds the fork database a header confirmation.

**HeaderChain** is one chain as producers build it. `head`, `pending`, `gpo` and
`watermark` are the controller's head and pending block, the global property object and
the producer plugin's watermarks. The actions are `StartBlock`, `SetProposedProducers`,
`CommitBlock` (with the watermark update of `on_block`), `CommitRejected` (the assertion
of commit_block fails), `AbortBlock` and `Restart` (a producer's node forgets its
watermark). commit_block of an own block does not run the checks of `next`; those are
what other nodes do with it. `history` is auxiliary and read by no action.

**HeaderChainProofs** and **QuorumProofs** prove the theorems about it.

**Controller** is one node: `index`, `fork_head`, `in_current_chain` are the fork
database; `head`, `applied` and `committed` the controller's head and chainbase (the
blocks whose effects the state holds, and the revision up to which undo information is
gone); `reversible` and `blog` the two block stores on disk. The tree of blocks that
may arrive is a constant. A received block runs through phases in `task`:
`PushBlock` inserts and prunes, then `StayOnHead`, `ExtendHead` or `SwitchForks`,
`PopBlock`, `ApplyBranch` and, after a failure, `PopBlock` and `RestoreBranch`. The node
is single threaded, so that between these steps only a crash can happen. `ProduceBlock`
is start_block to commit_block of an own block. `Restart` is a clean stop and start:
close writes the index to forkdb.dat and only then prunes; equals come back in any order
because the file is in hash order. `Crash` and `CrashInLog` lose everything but the block
log and the reversible blocks (`CrashInLog` between the two writes of on_irreversible);
`ReplayBlock` and `ReplayEnd` are the replay of the next start. Applying a block is
success or failure: `Invalid` holds the blocks that fail. chainbase is not part of the
sources; `Committed` and `Undone` model it from its use. The flag `validated` only selects
which checks apply_block may skip and is left out, as are read mode irreversible and
starts from a snapshot.

**BlockStoreProofs**, **ForkSwitchProofs** and **ControllerProofs** prove the theorems
about it: the operators first, then the invariant with the steps of push_block, then
production, crash, restart and replay, and the results.

**SyncManager** is the network: every node runs the handlers of `net_plugin.cpp`, and
`wire` holds what is on its way. `node[n]` has the fields of sync_manager and one
connection object per peer: socket, `fork_head`, the last handshakes, the range the peer
asked for, the three write queues and the response timer. One action is one handler of the
io_service: `Read` (a message, or the end of the stream), `WriteDone` and `WriteFailed`
(the completion of async_write), `TimerExpires` and `SyncTimeout` (expiry and handler are
two steps, because a handler that is queued can no longer be cancelled), `Connect` and
`Erase` (connection_monitor), `Produce`. `Drop` is the network breaking a connection. The
chain is linear and a block is its number: the messages carry numbers, and the checks of
ids that only matter between forks are left out.

**ProductionLoop** is one node's producer plugin: `node` has its fields and the
controller's head; a block is the branch that ends with it. The handlers are `Startup`,
`OnIncomingBlock`, `RunHandler` (an expired timer, which first compares its correlation
id), `Pause` and `Resume`; all end in `ScheduleProductionLoop`, with start_block inside.
`TimerExpires` and `RunHandler` are apart for the same reason as above. The transactions of
a block are the time they take, and starting, applying or finishing a block may fail.
Whether a block makes the second schedule active depends on confirmations of others and is
chosen (`ReadyChoices`). `signed` is a history variable, and so is the slot and head that
a timer is set for.

**ProductionLoopProofs** proves the theorems about it.

**Token**, **ScheduledTransactions** and **Staking** compose: Staking extends the other
two. In Token a missing row is a balance of 0. In ScheduledTransactions `queue` holds the
table, the RAM billed for it and how the latest transaction of each id ended; a failure is
one of three classes of exceptions, and the result of onerror is another.
Staking has the tables of `delegate_bandwidth.cpp` under their names. One action is one
transaction with its inline actions: either every assert holds or nothing happens.
Accounts may send or issue tokens to each other and to snax.stake; out of snax.stake only
the contract sends. `changebw` is the whole function, with the inline transfer, the cancellation and the
renewal of the deferred refund; `refund` is the owner's claim and
`push_scheduled_transaction` the deferred one with its four endings. `EscrowScan` is the
loop of undelegatebw, record by record; a record with period_count 0 traps it. Time is in seconds, the resolution of now(). Assumed: the
accounts have not voted, none is b1 or snax.stake, the resource market is open, the chain
is activated, and the producer bills cpu itself (no explicit_billed_cpu_time). RAM quotas
and the RAM of table rows are left out. The system contract's onerror does nothing
(`native.hpp:109`).

**StakeLedger** is the abstract specification of staking: an owner's tokens are liquid,
staked or unstaking, and unstaking tokens become liquid together, not before
`refund_delay` has passed since the owner last unstaked. It knows no deferred
transactions, weights, delegations or escrows. `Ledger` in Staking is the refinement
mapping: a refund request is the owner's unstaking tokens, snax.stake's balance the pool.
The pool may also be given tokens that nobody owns any more (`Give`, `Endow`); they never
leave it.

**StakingProofs** and **StakeBackingProofs** prove the theorems about Staking; the second
has those about sums over all accounts.

**MCHeaderChain**, **MCController**, **MCSyncManager**, **MCProductionLoop** and
**MCStaking** instantiate them. MCController takes its tree from a table; an assumption
checks the irreversible numbers in the table against BlockHeaderState, with producers that
confirm as the producer plugin does, and another checks that the trees satisfy what the
theorems about Controller assume of a tree.

## Runs

| Run | Bounds | Shows |
|---|---|---|
| header_chain | 11 blocks, 4 tracked counters, four producers and three of them in turn, one missed slot in a row, one restart | quorums, alignment of counters, agreement of producer and validator, schedule versions through the schedule changes; the number computed for the next block falls only where a schedule with a lower rank came in, and the chain can always be extended; the tracking limit is reached |
| header_chain_shrink | 14 blocks, no missed slots | *violation*: commit_block's assertion fails after a schedule shrinks |
| header_chain_turns | 14 blocks, two pairs of producers in turn, one missed slot in a row | *violation*: a producer that comes back builds a block that next rejects |
| controller_forks | 21 blocks on two forks, one restart, two crashes | the block log is final, the index has no holes, undo information outlives its need, restarts succeed, replay restores the head |
| controller_invalid | 17 blocks on three branches, one invalid, one crash | all stores agree at every step of a switch and of its reversal; the head never gets worse; push_block ends |
| controller_early_crash | one crash | *violation*: no replay when the block log holds only genesis |
| controller_ties | two clean restarts, one invalid block | *violation*: after a reordering of equals the node starts with a head its chain state does not have |
| sync | three small networks: one peer with a broken connection and an early timeout, two equal peers, three near heads; 6 blocks, chunks of 2, irreversible 2 behind | a catch-up always has an open request and a timer and does not end early; when nothing is left to do connected nodes have the same blocks, and they get there and leave every catch-up; without faults all peers end connected |
| sync_far | one network: two peers, 3 and 5 blocks ahead, no faults | *violation*: the node stops behind its peer |
| production_loop | 14 ticks of a third of a block interval, blocks on two forks, one of which lowers the head, one fault, one pause | the loop never dies and wakes in time, produces only what it scheduled on the head, confirms no height twice |
| production_promote | 8 ticks, two forks that install the producer at different blocks | *violation*: a height is confirmed twice |
| staking | two accounts (one token and none), supply up to 2, amounts 0 and 1, refund delay 2, expiration window 0, two escrows of 0, 1 or 2 periods of 2, time up to 3 | tokens are conserved, stake is backed, tables agree, RAM is given back, refunds are due and scheduled, escrows hold, and the contract implements StakeLedger |

The controller trees begin at genesis, so that they include the change from the initial
producer to the schedule of four, and are long enough for the irreversible number to
pass the fork point, where pruning removes the losing branch. The sync networks have more
blocks than a chunk, so that a catch-up takes several requests, and distances on both
sides of the lag of irreversibility, which decides between the two catch-ups. In
`production_loop` fourteen ticks hold a full round of two producers with two blocks each:
the node signs in slot 4, a block with a higher irreversible number but a lower height
becomes its head, and slot 5 would be its own again. Only the watermark then keeps it from
signing a height twice, and the offset of calculate_next_block_time is above 1. In
`staking` the time goes past the refund delay by one, so that a deferred refund can run,
expire after the window, or be renewed before it is due; amounts of 0 make one-sided
changes of net and cpu. Two tokens are enough for one to be staked while the other waits
for its refund, is given to snax.stake or backs a second account.

Deadlock is not checked for Controller because a finite tree of blocks runs out and a
failed start stops the node, for SyncManager because a network in sync comes to rest, and
for HeaderChain, ProductionLoop and Staking because blocks or time are bounded.

Fairness. `ComesToRest` (Controller) assumes weak fairness of the handler's steps:
push_block and replay are loops of one thread that nothing else in the process can
disable. Nothing is assumed about blocks arriving. `EventuallySynced` (SyncManager) assumes
only that some handler runs while one is ready: the io_service of a node that is up does
that, and timers expire. Which handler, and in which order, is free, and faults are not
fair.

## Findings

- A schedule of four replaced by three of its members can lower the irreversible number of
  the next block, which then does not become the fork database's head, contrary to the
  assertion in `controller.cpp:708` (run header_chain_shrink). Other producers can
  extend the chain (`SomeProducerExtends`).
- on_block looks one slot ahead to set the watermarks of producers that a promotion brings
  in (`producer_plugin.cpp:228`). When that slot is missed, a producer that was active
  before keeps its old watermark and confirms blocks that `next` says it has confirmed:
  every node rejects its block (run header_chain_turns). `ValidatorAgrees` states, and
  `ValidatorsAgree` proves, that this is the only way for a validator to disagree.
- After a crash with only genesis in the block log, replay is skipped and the node
  refuses to start with the advice to replay (run controller_early_crash).
  `NodeStartsAgain` proves that it is the only such case, under the hypotheses below.
- Equal blocks come back from forkdb.dat in another order; an invalid block then leaves
  fork database and controller on different heads, and the next clean restart keeps the
  chain state of one with the head of the other (run controller_ties). The assertion that
  should notice compares numbers only.
- A sync that starts in state head_catchup requests a chunk but keeps the state
  (`net_plugin.cpp:1466`). recv_block then takes the answers for head blocks and goes to
  in_sync without the handshakes that end a lib_catchup (`net_plugin.cpp:1658`) and start
  the next sync, although `protocol.hpp:218` promises a constant queue of requests (run
  sync_far). The node stays behind until something else makes the two exchange messages.
- on_block overwrites the watermark of a newly installed producer
  (`producer_plugin.cpp:241`), also when a second fork installs it below a block it has
  signed; the next block confirms a height twice, which the comment at line 1085
  excludes (run production_promote). `HeightsConfirmedOnce` proves that there is no other
  way.

Met while modelling, part of the models, and without a run of their own:

- A delegation to another account, or with transfer, cancels the sender's deferred refund
  while the request stays; so does a failure or expiry of the deferred transaction. The
  owner then claims with `refund`. `RefundIsScheduled` states what remains true.
- undelegatebw's loop over escrow records stops at the first that covers the amount, so
  later records are not counted; `EscrowIsHeld` is stated for a single record. Vesting
  divides before it multiplies: an escrow smaller than its number of periods never vests.
- escrowbw takes any period_count, and undelegatebw divides by it. An account that has a
  record with 0 cannot undelegate from itself once the loop reaches that record: the
  transaction traps, whatever else is free.
- The comment at `delegate_bandwidth.cpp:496` says that a refund might be had early, since
  now() is the time of the previous block. In this code base it is not: current_time is
  pending_block_time (`wasm_interface.cpp:895`), the time of the block that the action is
  in, for the request as for the claim. The model has one time for both, and
  `ImplementsLedger` shows that no refund is paid before refund_delay has passed.
- schedule_deferred_transaction can replace a waiting transaction (`apply_context.cpp:377`).
  changebw always cancels first (`delegate_bandwidth.cpp:348`), so that the branch, which
  `ScheduleDeferred` models, is not reached in Staking: `RamMatchesQueue` is checked for
  creation, cancellation and the four endings of a run.
- A write that fails leaves its messages in the out queue of the connection object
  (`net_plugin.cpp:1084` is not reached), and an object with a nonempty out queue writes
  nothing, also after connection_monitor has connected it again. The comment of
  ready_to_send takes a nonempty out queue for a write in progress. After a fault the
  properties of SyncManager therefore speak of connected peers only.
- schedule_production_loop advances the correlation id only when it sets a timer, so that
  an expired handler of the previous block can still match while no timer is set;
  `ProducesWhatItScheduled` shows that it never produces another block than the one it
  was set for.

## Proofs

All theorems hold for every value of the constants that satisfies the named assumptions,
which TLC evaluates on every run.

### Header chain

Assumed: `ProducerRepetitions` and `MaxTracked` are positive, bounds are naturals, and a
schedule is a nonempty sequence that lists nobody twice (`set_proposed_producers` and
`voting.cpp` produce no other).

`HeaderChainProofs`, first part: `TypeCorrect`, `TwoPhase` (irreversible behind proposed
behind head) and `CountersAligned`. The inductive invariant `IInv` says that the head and
the pending header state are *sound*: typed, behind proposed, and aligned. The parts need
each other: the proposed number is computed from a position in confirm_count, which is a
number of an existing block only when the counters are aligned, and they stay aligned only
when that number is right. Each stage of a block keeps soundness (one lemma each);
`NextIInv` has one step per action.

Second part: `ProposalsFit`, `AnnouncementsFit` and `ValidatorsAgree`, from the invariant
`BInv`. It adds to `IInv` how the pending block came about: it is what start_block makes
of the head for some slot, with the confirmations its producer's watermark allows; nobody
is recorded as having produced a later block than the head; and the waiting proposal fits
the schedules (`Fits`), also the one that the pending block would leave.

`QuorumProofs`: `ProposedBacked` from the invariant `CInv`, and `IrreversibleBacked` from
`LInv`. `CInv` relates each counter of confirm_count to the history (`Tally`): what the
counter has been decremented is at most the number of producers whose blocks confirm that
height. This needs that no producer is counted twice for a height, which the watermarks
give: a producer that confirms a block has a watermark at least as high, or none after a
restart, when it confirms nothing. `LInv` says that the implied number of each producer
is the proposed number that some block of its own was built on, or at most the
irreversible number at which the schedule came in; the rank taken from the sorted list
then has enough producers at or above it.

`LibFallsOnlyByRank`, an action property, says when the number that
calc_dpos_last_irreversible computes for the next block can be lower than the head's: only
when the commit has brought in a schedule with a lower rank. The argument counts
(`Ranked`): at most as many producers as the rank have an implied number below the head's
irreversible number. The number was taken at that rank, implied numbers only grow, and
maybe_promote_pending gives newcomers the irreversible number itself, so neither
set_confirmed nor a promotion adds a producer to that set. With the same or a higher rank
the next number is then at least as high. With a lower rank it need not be (run
header_chain_shrink).

### Controller

The theorems hold for every tree of blocks (`TreeAssumption`), whatever blocks of it
arrive, in whatever order, however often, and for any number of restarts and crashes.

Hypotheses on the tree, together `WellBehaved`:

- `LibsGrow`: a block does not lower the irreversible number of its parent. A schedule that
  shrinks breaks it (run header_chain_shrink).
- `LibsAgree`: a branch that makes a block irreversible after the fork leaves the other
  branch without irreversible blocks at the fork. This is what two thirds of the producers
  buy, and it is about all of them and not about this node; `QuorumProofs` proves the
  quorums on one chain.
- `InvalidGainNothing`: nothing becomes irreversible by a block that does not apply or by a
  block on top of it: honest producers do not build on it.
- `TiesKeepOrder`: no invalid block, or no clean restart. The two together are the finding
  of run controller_ties.

A node that crashes in a fork switch comes back on the block it was at and takes that for
its head. A block it had left can then outrank it although it contradicts the log, if an
abandoned branch is longer than everything the branches have in common. `CrashSafe`
excludes crashes in the middle of a switch for such trees; a tree with `NoOvertaking` has
no such branch, and needs nothing (`CrashAnywhere`). The trees of the runs satisfy
`LibsGrow`, `LibsAgree`, `InvalidGainNothing` and `NoOvertaking`
(`WellBehavedAssumption`).

Proved: `ControllerTypes`, `StateFollowsHead`, `LogStaysFinal`, `ChainStaysDurable`,
`RestsOnBest`, `IndexStaysConnected`, `PopsSucceed`, `NodeStartsAgain`,
`CrashRestoresHead`, `PushNeverWorsens` and `CrashAnywhere`: every safety property of the
passing Controller runs.

The invariant `Inv` has one part per phase of a push_block or of a replay, because what
the stores owe each other changes with every step:

- At rest (`IdleInv`) the fork database's head is the controller's and outranked by no
  block of the index (`Supreme`), the chain state enumerates its chain, the log and the
  reversible blocks hold exactly that chain (`Durable`), and every block off the log's last
  block is outranked by the head (`Guarded`). `Guarded` is what keeps the log final: it says
  that no block that can still arrive makes the node leave it.
- After add (`ChooseInv`) the elected block is the head, its child, or leaves it at a block
  that is still in the index. This is why fetch_branch_from finds the common block: pruning
  never takes a block above it (`PrunedIsShared`).
- During a switch and its reversal (`SwitchInv`) the log ends at or below the common block,
  so that no pop touches it, and `Guarded` is kept for the block the node came from. If the
  new branch fails, what is left in the index elects that block again (`Leads`).
- During a replay (`ReplayInv`) the stores hold the chain of the block to come back to.
- A node is down only with an empty block log (`DownInv`).

`BlockStoreProofs` has the tree (`ChainLinear`, `ForkFacts`), the index under insertion,
pruning, removal and reordering, and the stores under on_irreversible; `AddIndex` and
`AddStores` put them together for add. There is one lemma per action, and `InvGives`
derives the properties.

### Production loop

Assumed (`LoopAssumption`): schedules are nonempty and list nobody twice, intervals and
repetitions are positive; the offsets may be negative.

`ProductionLoopProofs`: `LoopTypes`, `ScheduledBlocksOnly`, `LoopNeverDies`,
`DelayedLoopWakes` from the invariant `NInv`, and `HeightsConfirmedOnce` from `SInv`.
`NInv` says that the node is *settled* between two handlers: the pending block extends
the head, its producer is of this node, allowed by its watermark and entitled to what the
block confirms; a production handler with the current id has the pending block's slot and
head; some handler with the current id is waiting when the node may produce; and a delayed
timer was computed from the head as it still is. `DelayedLoopWakes` rests on the
arithmetic of turns (`DivMod` to `FirstSlotIsFirst`): the distance that
calculate_next_block_time computes with a modulus, and aligns to the repetitions when it
has to wait beyond the first slot, leads to the first slot of the producer that is not too
early. `SInv` adds that a producer's watermark is at least the height of every block it
has signed on any fork. `HeightsConfirmedOnce` has the hypothesis `NoNewcomer`: the second
schedule brings this node no producer that the first does not have. Without it the
statement is false (production_promote).

### Staking

Assumed (`StakingAssumption`): the accounts are finitely many and none is snax.stake;
the refund delay and the length of a period are positive; the other delays, counts of
periods and amounts are naturals.

`StakingProofs`: `StakingTypeCorrect` (nothing becomes negative), `QueueIsBilled`,
`RefundsAreDue`, `RefundsAreScheduled` and `StakingImplementsLedger`, the refinement of
StakeLedger. Its `IInv` joins three things: types, the soundness of the queue (the RAM
billed is that of the table) and, for each account, that request and queue agree: a
request is not empty and not from the future, its deferred refund is not ready before it
is due, and if there is none it was cancelled or failed. None is inductive alone: a change
that settles a request renews the deferred transaction at the request's new time, and a
deferred refund pays what it finds. `ChangeCases` splits changebw into the change that
settles with a request (`SettledChange`) and the one that does not (`PlainChange`), and
every other proof uses only these two. In the refinement a plain change is a Stake; a
settled one is an Unstake when it undelegates and otherwise a Restake or a Stake; a claim
and an executed deferred refund are Pay; failures and expiry stutter; transfers are Send
and issues Receive, or Give and Endow when they go to snax.stake, and a block is Tick.

`StakeBackingProofs`: `TokensAreConserved`, `StakeBacked` and `RefundsAreCovered` (the
transfer of a refund passes its asserts in every state). snax.stake holds at least what is
claimed from it: whatever else it is sent stays there. The invariant `Backed` joins the
sums, because a change of bandwidth moves an amount between a delegation, a vote, a refund
and two balances at once. `SumChange` says what such a change of one row does to a sum over
any finite table.

`EscrowHeld`, the last part of `StakingProofs`, holds for any number of records; the loop
of undelegatebw is a recursive function over the records, and what it keeps of them is an
induction over their number.

### How the proofs are built

The provers have no induction rule that they can instantiate. Where data has to be
inducted over (sums, the escrow loop, the ancestors of a block), the proof takes a
smallest counterexample: `MinimalSubset`, `SmallestNumber` and `LeastNumber` follow from
the theorems on well-founded relations.

Most leaves name their prover. Zenon takes those that need no arithmetic. The time to
translate an obligation for the SMT solver is limited and grows with everything in scope,
so the solver is kept for leaves with numbers, and the modules are split. For the same
reason the lemmas about Controller do not extend the theorems about finite sets: what they
need of them is their hypothesis `Counting`, and `CountingHolds` discharges it before the
theorems of `ControllerProofs`.

### Only model-checked

- `SomeProducerExtends` (HeaderChain): whether some producer's next block outranks the head
  depends on the whole history of a schedule change.
- All of SyncManager: its invariants relate the messages under way to the states of all
  nodes, and an inductive one would have to describe every message that can be on the wire.
- Liveness (`ComesToRest`, `EventuallySynced`), which the provers do not cover.
- `PendingOutranksHead`, `NeverDoubleConfirms`, `StateMatchesHead` without
  `TiesKeepOrder`, `NeverDown`, `QuietIsCaughtUp` with distant peers, and `ConfirmsOnce` without
  `NoNewcomer` are false in general; see the findings.

## Not modelled

- Computations in floating point: the RAM market, vote weights, producer pay and the
  platform's reward rounds. TLA+ has no faithful counterpart.
- Resource limits: moving averages in 128 bit arithmetic, whose interesting inputs lie far
  above what can be enumerated. Staking stops at the call of set_resource_limits.
- Authorization, and the multisig contract that rests on it: a recursion over a tree of
  permissions within one call.
- Forks between peers, transaction relay, keepalive, duplicate connections, refused
  handshakes, old protocol versions and the limit of the write queue in the network
  plugin; the bnet plugin, which is not loaded by default.
- Read mode irreversible, snapshots and the file format of the block log in the
  controller; header confirmations, which have no caller.
- In the producer plugin: the choice of transactions; the limit on the age of the
  irreversible block (lines 451 and 1053 of `producer_plugin.cpp`), which is off by
  default; and the signing keys (lines 1047, 1103 and 1537): a node is taken to have the
  keys of its producers.
- Delayed user transactions, which have no sender, and several senders per id.
- In the system contract: name bids, platform steps, and accounts that have voted.
- WebAssembly, ABI serialisation, wallet, HTTP, history exporters, airdrop and command
  line tools: data transformation or I/O without protocol state.

Three hazards have no property. One is the out queue above, one the escrow with
period_count 0. The third is the subtraction of `block_header_state.cpp:156`, which wraps
when a header confirms more blocks than exist. `ConfirmsOnlyNew` keeps the wrap, but the
producers of HeaderChain never confirm that many.
