----------------------------- MODULE Controller -----------------------------
(***************************************************************************)
(* How one node keeps its blocks: the fork database (fork_database.cpp),   *)
(* the controller's handling of received, produced, popped and replayed    *)
(* blocks (controller.cpp), and what survives a clean restart or a crash.  *)
(*                                                                         *)
(* The blocks that may reach the node form a tree that is a constant of    *)
(* the module: previous, block_num and dpos_irreversible are what their    *)
(* headers say (module BlockHeaderState computes the last one), Chain[b]   *)
(* is b with all its ancestors, and Invalid holds the blocks whose header  *)
(* is accepted but whose transactions fail to apply.                       *)
(*                                                                         *)
(* The node is single threaded: while a push_block or a replay is under    *)
(* way (task.phase is not "idle") only its own next step or a crash can    *)
(* happen.  The chain state (chainbase) is the sequence of the blocks whose *)
(* effects it contains, its revision is the length of that sequence, and   *)
(* undo information is gone up to revision committed.                      *)
(***************************************************************************)
EXTENDS Integers, Sequences, FiniteSets

CONSTANTS
  Blocks,              \* every block that can reach the node
  Genesis,             \* the genesis block
  previous,            \* [Blocks -> Blocks], previous[Genesis] = Genesis
  block_num,           \* [Blocks -> Nat]
  dpos_irreversible,   \* [Blocks -> Nat]: dpos_irreversible_blocknum of the header state
  Chain,               \* [Blocks -> SUBSET Blocks]: a block and its ancestors
  Invalid,             \* blocks that fail in apply_block
  MaxRestarts,         \* bound: clean restarts
  MaxCrashes           \* bound: crashes

ASSUME TreeAssumption ==
  /\ Genesis \in Blocks /\ Invalid \subseteq Blocks \ {Genesis}
  /\ previous \in [Blocks -> Blocks] /\ previous[Genesis] = Genesis
  /\ block_num \in [Blocks -> Nat] /\ block_num[Genesis] = 1
  /\ dpos_irreversible \in [Blocks -> Nat] /\ dpos_irreversible[Genesis] = 0
  /\ Chain \in [Blocks -> SUBSET Blocks] /\ Chain[Genesis] = {Genesis}
  /\ \A b \in Blocks \ {Genesis} :
       /\ block_num[b] = block_num[previous[b]] + 1
       /\ b \notin Chain[previous[b]] /\ Chain[b] = {b} \cup Chain[previous[b]]
       /\ dpos_irreversible[b] < block_num[b]
ASSUME RestartsAssumption == MaxRestarts \in Nat /\ MaxCrashes \in Nat

VARIABLES
  index,             \* fork_database index: block -> order of insertion among equals
  fork_head,         \* fork_database head
  in_current_chain,  \* blocks of the index with this flag
  head,              \* controller_impl::head
  applied,           \* chain state: the blocks applied, oldest first
  committed,         \* revision up to which undo information is gone
  reversible,        \* reversible block database
  blog,              \* block log, entry i is block number i
  task,              \* progress of push_block or of a replay
  restarts,          \* clean restarts so far
  crashes            \* crashes so far

stops == <<restarts, crashes>>
forkdb == <<index, fork_head, in_current_chain>>
ledger == <<applied, committed, reversible, blog>>
vars == <<forkdb, head, ledger, task, stops>>

Phases == {"idle", "choose", "popping", "applying", "unwinding", "restoring", "replay", "down"}
Idle == [phase |-> "idle", from |-> Genesis, to |-> Genesis, base |-> Genesis]
In(phase) == [Idle EXCEPT !.phase = phase]
Known == DOMAIN index

-----------------------------------------------------------------------------
(* fork_database *)

(* by_lib_block_num: greatest irreversible number, then greatest number,    *)
(* then first inserted.                                                     *)
SameRank(x, y) == dpos_irreversible[x] = dpos_irreversible[y] /\ block_num[x] = block_num[y]

BeforeByLength(idx, x, y) ==
  \/ block_num[x] > block_num[y]
  \/ block_num[x] = block_num[y] /\ dpos_irreversible[x] > dpos_irreversible[y]
  \/ SameRank(x, y) /\ idx[x] < idx[y]

Before(idx, x, y) ==
  \/ dpos_irreversible[x] > dpos_irreversible[y]
  \/ dpos_irreversible[x] = dpos_irreversible[y] /\ block_num[x] > block_num[y]
  \/ SameRank(x, y) /\ idx[x] < idx[y]

Best(idx) == CHOOSE x \in DOMAIN idx : \A y \in DOMAIN idx \ {x} : Before(idx, x, y)

InsertedUnranked(b) == [x \in Known \cup {b} |-> IF x = b THEN 0 ELSE index[x]]

Inserted(b) ==
  LET peers == {index[x] : x \in {y \in Known : SameRank(y, b)}}
      last  == IF peers = {} THEN 0 ELSE CHOOSE n \in peers : \A m \in peers : m <= n
  IN  [x \in Known \cup {b} |-> IF x = b THEN last + 1 ELSE index[x]]

(* remove: blocks with all that is built on them. *)
Without(idx, removed) ==
  [x \in {y \in DOMAIN idx : Chain[y] \cap removed = {}} |-> idx[x]]

(* by_block_num: the lowest blocks, those of the current chain first. *)
Oldest(idx, current) ==
  {x \in DOMAIN idx : \A y \in DOMAIN idx :
     \/ block_num[x] < block_num[y]
     \/ block_num[x] = block_num[y] /\ (x \in current \/ y \notin current)}

(* The assertions of on_irreversible on the block log. *)
CanLog(s) ==
  \/ block_num[s] <= Len(blog)
  \/ block_num[s] = Len(blog) + 1 /\ previous[s] = blog[Len(blog)]
Logged(s) == IF block_num[s] > Len(blog) THEN Append(blog, s) ELSE blog

LaterByTwo(s, new) == {r \in reversible \cup new : block_num[r] > block_num[s] + 1}

(* What is left of the reversible blocks; new is what the caller adds.      *)
Later(s, new) == {r \in reversible \cup new : block_num[r] > block_num[s]}

(* The committed revision; floor is committed in any case.                  *)
Committed(s, floor) ==
  LET n == IF block_num[s] < Len(applied) THEN block_num[s] ELSE Len(applied)
  IN  IF n > floor THEN n ELSE floor

(* The block log grows, undo information and reversible blocks up to s are  *)
(* dropped.                                                                 *)
on_irreversible(s, new, floor) ==
  /\ blog' = Logged(s)
  /\ committed' = Committed(s, floor)
  /\ reversible' = Later(s, new)

(* add and prune: the block is inserted, the head is the best block, and    *)
(* when the lowest block is below the head's irreversible number it leaves  *)
(* the index through on_irreversible, and every other block of its height   *)
(* is removed with all that is built on it.  prune swallows exceptions.     *)
PrunableBelowHead(idx, current) ==
  {s \in Oldest(idx, current) : block_num[s] + 1 < block_num[Best(idx)] /\ CanLog(s)}

Prunable(idx, current) ==
  {s \in Oldest(idx, current) : block_num[s] < dpos_irreversible[Best(idx)] /\ CanLog(s)}

PrunedIndexWithSiblings(idx, s) == [x \in DOMAIN idx \ {s} |-> idx[x]]

PrunedIndex(idx, s) ==
  LET siblings == {x \in DOMAIN idx \ {s} : block_num[x] = block_num[s]}
      rest     == Without(idx, siblings)
  IN  [x \in DOMAIN rest \ {s} |-> rest[x]]

add(b, current, new, floor) ==
  LET idx == Inserted(b)
  IN  \/ \E s \in Prunable(idx, current) :
           /\ on_irreversible(s, new, floor)
           /\ index' = PrunedIndex(idx, s)
           /\ fork_head' = IF DOMAIN PrunedIndex(idx, s) = DOMAIN idx \ {s}
                           THEN Best(idx) ELSE Best(PrunedIndex(idx, s))
      \/ /\ Prunable(idx, current) = {}
         /\ reversible' = reversible \cup new
         /\ index' = idx
         /\ fork_head' = Best(idx)
         /\ committed' = floor
         /\ UNCHANGED blog

Linkable(b) == b \notin Known /\ previous[b] \in Known

-----------------------------------------------------------------------------
(* push_block and maybe_switch_forks *)

Init ==
  /\ index = [x \in {Genesis} |-> 1]
  /\ fork_head = Genesis
  /\ in_current_chain = {}
  /\ head = Genesis
  /\ applied = <<Genesis>>
  /\ committed = 1
  /\ reversible = {}
  /\ blog = <<Genesis>>
  /\ task = Idle
  /\ restarts = 0 /\ crashes = 0

PushBlock(b) ==
  /\ task.phase = "idle"
  /\ Linkable(b)
  /\ add(b, in_current_chain, {}, committed)
  /\ in_current_chain' = in_current_chain \cap DOMAIN index'
  /\ task' = [In("choose") EXCEPT !.from = head]
  /\ UNCHANGED <<head, applied, stops>>

(* apply_block succeeds: the revision check of start_block, the block's     *)
(* transactions, and the unique number in the reversible block database.    *)
Applies(n) ==
  /\ Len(applied) = block_num[head]
  /\ n \notin Invalid
  /\ \A r \in reversible : block_num[r] # block_num[n]
apply_block_unrecorded(n) ==
  /\ Applies(n)
  /\ applied' = Append(applied, n)
  /\ head' = n
  /\ in_current_chain' = in_current_chain \cup ({n} \cap Known)
  /\ UNCHANGED <<index, fork_head, committed, reversible, blog>>
apply_block_unmarked(n) ==
  /\ Applies(n)
  /\ applied' = Append(applied, n)
  /\ reversible' = reversible \cup {n}
  /\ head' = n
  /\ UNCHANGED <<forkdb, committed, blog>>

apply_block(n) ==
  /\ Applies(n)
  /\ applied' = Append(applied, n)
  /\ reversible' = reversible \cup {n}
  /\ head' = n
  /\ in_current_chain' = in_current_chain \cup ({n} \cap Known)
  /\ UNCHANGED <<index, fork_head, committed, blog>>

(* set_validity(false) after a failed apply_block. *)
drop_invalid(n) ==
  /\ ~Applies(n)
  /\ index' = Without(index, {n})
  /\ fork_head' = Best(Without(index, {n}))
  /\ in_current_chain' = in_current_chain \cap DOMAIN index'
  /\ UNCHANGED <<head, ledger>>

StayOnHead ==
  /\ task.phase = "choose"
  /\ fork_head = head
  /\ task' = Idle
  /\ UNCHANGED <<forkdb, head, ledger, stops>>

ExtendHeadRetry ==
  /\ task.phase = "choose"
  /\ previous[fork_head] = head /\ fork_head # head
  /\ apply_block(fork_head)
  /\ task' = Idle
  /\ UNCHANGED stops

ExtendHead ==
  /\ task.phase = "choose"
  /\ previous[fork_head] = head /\ fork_head # head
  /\ apply_block(fork_head) \/ drop_invalid(fork_head)
  /\ task' = Idle
  /\ UNCHANGED stops

(* fetch_branch_from: the block both branches are built on.  When one head  *)
(* is an ancestor of the other the branches still share that block.         *)
ForkPoint(x, y) ==
  CHOOSE c \in Chain[x] \cap Chain[y] : \A d \in Chain[x] \cap Chain[y] : block_num[d] <= block_num[c]
Base(x, y) == LET c == ForkPoint(x, y) IN IF c \in {x, y} THEN previous[c] ELSE c

(* A block of a branch is missing: fetch_branch_from dereferences null.     *)
BranchesKnown(x, y) == (Chain[x] \cup Chain[y]) \ Chain[Base(x, y)] \subseteq Known

SwitchForks ==
  /\ task.phase = "choose"
  /\ fork_head # head /\ previous[fork_head] # head
  /\ task' = IF BranchesKnown(head, fork_head)
             THEN [phase |-> "popping", from |-> head, to |-> fork_head, base |-> Base(head, fork_head)]
             ELSE In("down")
  /\ UNCHANGED <<forkdb, head, ledger, stops>>

NotUndone == applied

(* db.undo: nothing happens when there is no undo information. *)
Undone == IF Len(applied) > committed THEN SubSeq(applied, 1, Len(applied) - 1) ELSE applied
(* pop_block after mark_in_current_chain(false).  Without the previous      *)
(* block in the index it throws and push_block ends.                        *)
PopBlock ==
  LET prev == previous[head]
      done == IF task.phase = "popping" THEN "applying" ELSE "restoring"
  IN  /\ task.phase \in {"popping", "unwinding"}
      /\ in_current_chain' = in_current_chain \ {head}
      /\ IF prev \in Known
         THEN /\ reversible' = {r \in reversible : block_num[r] # block_num[head]}
              /\ head' = prev
              /\ applied' = Undone
              /\ task' = IF prev = task.base THEN [task EXCEPT !.phase = done] ELSE task
         ELSE /\ task' = Idle
              /\ UNCHANGED <<reversible, head, applied>>
      /\ UNCHANGED <<index, fork_head, committed, blog, stops>>

Towards(target) == CHOOSE n \in Chain[target] : previous[n] = head /\ n # head

(* The new branch, oldest block first.  A block that fails is removed and   *)
(* the blocks applied so far are popped again.                              *)
ApplyBranch ==
  LET n == Towards(task.to)
  IN  /\ task.phase = "applying"
      /\ \/ /\ apply_block(n)
            /\ task' = IF n = task.to THEN Idle ELSE task
         \/ /\ drop_invalid(n)
            /\ task' = [task EXCEPT !.phase = IF head = task.base THEN "restoring" ELSE "unwinding"]
      /\ UNCHANGED stops

(* The old branch is applied again; an exception here leaves push_block.    *)
RestoreBranch ==
  LET n == Towards(task.from)
  IN  /\ task.phase = "restoring"
      /\ IF Applies(n)
         THEN /\ apply_block(n)
              /\ task' = IF n = task.from \/ n \notin Known THEN Idle ELSE task
         ELSE /\ task' = Idle
              /\ UNCHANGED <<forkdb, head, ledger>>
      /\ UNCHANGED stops

(* start_block, finalize_block, sign_block and commit_block of a block the  *)
(* node produces.  The head is set before the assertion that may fail.      *)
ProduceBlock(b) ==
  /\ task.phase = "idle"
  /\ previous[b] = head /\ b \notin Known \cup Invalid /\ b # head
  /\ Len(applied) = block_num[head]
  /\ \E new \in {{b}, {}} :
       /\ add(b, in_current_chain \cup {b}, new, committed)
       /\ new = {b} <=> fork_head' = b
       /\ applied' = IF new = {b} THEN Append(applied, b) ELSE applied
  /\ head' = fork_head'
  /\ in_current_chain' = (in_current_chain \cup {b}) \cap DOMAIN index'
  /\ UNCHANGED <<task, stops>>

-----------------------------------------------------------------------------
(* Restarts *)

MaxNum(S) == CHOOSE n \in {block_num[r] : r \in S} : \A r \in S : block_num[r] <= n

(* The assertions at the end of controller_impl::init. *)
InitAccepts(hd, state, rblocks, log) ==
  /\ IF rblocks # {} THEN MaxNum(rblocks) = block_num[hd] ELSE Len(log) = block_num[hd]
  /\ Len(state) >= block_num[hd]

(* What init does next: replay when the log is ahead of the head, else the  *)
(* assertions.  task.to remembers the head the node had before it stopped.  *)
Startup(hd, state, rblocks, log) ==
  IF Len(log) > block_num[hd] THEN [In("replay") EXCEPT !.to = head]
  ELSE IF InitAccepts(hd, state, rblocks, log) THEN Idle ELSE In("down")

(* Clean shutdown and start: close writes the index and the head to         *)
(* forkdb.dat and only then prunes the lowest block; the constructor reads  *)
(* the file, where equals come back in any order.                           *)
Peers(idx, x) == {y \in DOMAIN idx : SameRank(x, y)}
Tied(idx) == {x \in DOMAIN idx : Peers(idx, x) # {x}}
Orders(idx) ==
  {f \in [Tied(idx) -> UNION {1..Cardinality(Peers(idx, x)) : x \in Tied(idx)}] :
     \A x \in Tied(idx) : {f[y] : y \in Peers(idx, x)} = 1..Cardinality(Peers(idx, x))}
Reordered(idx) == {[x \in DOMAIN idx |-> IF x \in Tied(idx) THEN f[x] ELSE 1] : f \in Orders(idx)}

Restart ==
  /\ task.phase = "idle"
  /\ restarts < MaxRestarts
  /\ restarts' = restarts + 1
  /\ \/ \E s \in Oldest(index, in_current_chain) :
          /\ block_num[s] <= dpos_irreversible[fork_head] /\ CanLog(s)
          /\ on_irreversible(s, {}, committed)
     \/ /\ \A s \in Oldest(index, in_current_chain) :
             block_num[s] > dpos_irreversible[fork_head] \/ ~CanLog(s)
        /\ UNCHANGED <<blog, committed, reversible>>
  /\ index' \in Reordered(index)
  /\ head' = fork_head
  /\ applied' = SubSeq(applied, 1, IF Len(applied) < block_num[fork_head] THEN Len(applied) ELSE block_num[fork_head])
  /\ task' = Startup(fork_head, applied, reversible', blog')
  /\ UNCHANGED <<fork_head, in_current_chain, crashes>>

(* After a crash the state database is dirty and the fork database was not  *)
(* written: the node starts from genesis, replays the block log and then    *)
(* the reversible blocks.                                                   *)
StartOver(log) ==
  /\ crashes < MaxCrashes
  /\ crashes' = crashes + 1
  /\ index' = [x \in {Genesis} |-> 1]
  /\ fork_head' = Genesis
  /\ in_current_chain' = {}
  /\ head' = Genesis
  /\ applied' = <<Genesis>>
  /\ committed' = 1
  /\ blog' = log
  /\ task' = Startup(Genesis, <<Genesis>>, reversible, log)
  /\ UNCHANGED <<reversible, restarts>>

Crash ==
  /\ task.phase \notin {"replay", "down"}
  /\ StartOver(blog)

(* The crash hits on_irreversible between the append to the block log and   *)
(* the removal from the reversible blocks.                                  *)
CrashInLog(b) ==
  /\ task.phase = "idle"
  /\ Linkable(b)
  /\ \E s \in Prunable(Inserted(b), in_current_chain) :
       block_num[s] > Len(blog) /\ StartOver(Append(blog, s))

ReplayNum == block_num[head] + 1
ReplayFromLog == ReplayNum <= Len(blog)
Replayable == IF ReplayFromLog THEN {blog[ReplayNum]} ELSE {r \in reversible : block_num[r] = ReplayNum}

(* replay_push_block: sessions are skipped for blocks of the log, so that   *)
(* nothing before the end of the log can be undone.  A block that does not  *)
(* become the head is pushed again, which throws and ends the startup.      *)
ReplayBlock(n) ==
  /\ task.phase = "replay"
  /\ n \in Replayable
  /\ Linkable(n) /\ n \notin Invalid
  /\ add(n, in_current_chain, {}, IF ReplayFromLog THEN ReplayNum ELSE committed)
  /\ IF fork_head' = n
     THEN /\ head' = n
          /\ applied' = Append(applied, n)
          /\ in_current_chain' = (in_current_chain \cup {n}) \cap DOMAIN index'
          /\ UNCHANGED task
     ELSE /\ task' = In("down")
          /\ UNCHANGED <<head, applied, in_current_chain>>
  /\ UNCHANGED stops

ReplayEnd ==
  /\ task.phase = "replay"
  /\ \A n \in Replayable : ~Linkable(n) \/ n \in Invalid
  /\ task' = IF Replayable = {} /\ InitAccepts(head, applied, reversible, blog) THEN Idle ELSE In("down")
  /\ UNCHANGED <<forkdb, head, ledger, stops>>

Next ==
  \/ \E b \in Blocks : PushBlock(b) \/ ProduceBlock(b) \/ CrashInLog(b) \/ ReplayBlock(b)
  \/ StayOnHead \/ ExtendHead \/ SwitchForks \/ PopBlock \/ ApplyBranch \/ RestoreBranch
  \/ Restart \/ Crash \/ ReplayEnd

(* The thread runs push_block and a replay to their end. *)
Handler ==
  \/ StayOnHead \/ ExtendHead \/ SwitchForks \/ PopBlock \/ ApplyBranch \/ RestoreBranch
  \/ ReplayEnd \/ \E b \in Blocks : ReplayBlock(b)

Spec == Init /\ [][Next]_vars
FairSpec == Spec /\ WF_vars(Handler)

-----------------------------------------------------------------------------
ToSet(seq) == {seq[i] : i \in DOMAIN seq}

(* Every variable keeps its type; a flag in_current_chain is only ever set  *)
(* on a block of the index.                                                 *)
TypeOK ==
  /\ Known \subseteq Blocks /\ index \in [Known -> Nat \ {0}]
  /\ fork_head \in Blocks /\ head \in Blocks
  /\ in_current_chain \subseteq Known
  /\ applied \in Seq(Blocks) /\ blog \in Seq(Blocks)
  /\ committed \in Nat
  /\ reversible \subseteq Blocks
  /\ task \in [phase : Phases, from : Blocks, to : Blocks, base : Blocks]
  /\ restarts \in 0..MaxRestarts /\ crashes \in 0..MaxCrashes

(* At every step of a fork switch, of its reversal and of a replay the      *)
(* chain state holds the effects of exactly the blocks on the chain of the  *)
(* head, so that the revision check of start_block always passes.           *)
StateMatchesHead ==
  task.phase # "down" => /\ Len(applied) = block_num[head]
                         /\ ToSet(applied) = Chain[head]

(* No block of the block log is ever left: whatever forks the node is shown *)
(* before or after a restart, the block it is on and the block the fork     *)
(* database elects both descend from the log.                               *)
LogIsFinal ==
  task.phase \notin {"replay", "down"} => ToSet(blog) \subseteq Chain[head] \cap Chain[fork_head]

(* The block log and the reversible blocks together hold the whole chain of *)
(* the head at every instant a crash may come, so that no applied block is  *)
(* lost by it.                                                              *)
ChainIsDurable ==
  task.phase \notin {"replay", "down"}
    => ToSet(blog) \cup reversible = Chain[head]

(* Between two blocks the node is on the best block it knows, both sides    *)
(* agree which one that is, and the flags in_current_chain mark its chain.  *)
AtRest ==
  task.phase = "idle" =>
    /\ head = fork_head /\ head \in Known
    /\ in_current_chain = (Chain[head] \cap Known) \ {Genesis}

(* The index has no holes, on whichever fork: the walk of fetch_branch_from *)
(* from two blocks to the one they share never meets a missing block.       *)
IndexConnected == \A b, c \in Known : block_num[b] > block_num[c] => previous[b] \in Known

(* pop_block never fails half way through a fork switch: the previous block *)
(* is still in the index ("attempt to pop beyond last irreversible block"), *)
(* and undo information is discarded only for blocks in the block log.      *)
CanPop ==
  /\ task.phase \in {"popping", "unwinding"} => previous[head] \in Known
  /\ task.phase # "replay" => committed <= Len(blog)

(* A node that stops, cleanly or by a crash, starts again: what the stores  *)
(* hold never fails an assertion of init and no branch is missing.          *)
NeverDown == task.phase # "down"

(* The same once a block has been appended to the block log.                *)
StartsAgain == Len(blog) > 1 => NeverDown

(* A node that crashed, at whichever step, comes back on the block that was *)
(* its head when it crashed.                                                *)
ReplayRestoresHead == [][task.phase = "replay" /\ task'.phase = "idle" => head' = task.to]_vars

(* However a push_block ends, by extending the head, by a fork switch, by   *)
(* the reversal of one or by an exception, the node is on the block it came *)
(* from or on one with a higher irreversible number, or with the same one   *)
(* and a longer or at least as long chain.                                  *)
HeadNeverWorse ==
  [][task.phase \notin {"idle", "replay"} /\ task'.phase = "idle" /\ UNCHANGED stops
       => \/ dpos_irreversible[head'] > dpos_irreversible[task.from]
          \/ /\ dpos_irreversible[head'] = dpos_irreversible[task.from]
             /\ block_num[head'] >= block_num[task.from]]_vars

(* A received block is dealt with: the node always gets back to rest.       *)
ComesToRest == (task.phase \notin {"idle", "down"}) ~> (task.phase \in {"idle", "down"})

-----------------------------------------------------------------------------
(* The trees of blocks that producers who follow the protocol build; the    *)
(* theorems about this module assume them.                                  *)

(* The last irreversible number of a block; genesis is irreversible.        *)
Final(b) == IF dpos_irreversible[b] > 1 THEN dpos_irreversible[b] ELSE 1

(* A block is preferred to another whatever the order of their arrival.     *)
Outranks(x, y) ==
  \/ dpos_irreversible[x] > dpos_irreversible[y]
  \/ dpos_irreversible[x] = dpos_irreversible[y] /\ block_num[x] > block_num[y]

(* Blocks on two branches that leave each other at block c.                 *)
Forked(x, y, c) ==
  /\ c \in Chain[x] /\ c \in Chain[y] /\ c # x /\ c # y
  /\ \A d \in Chain[x] \cap Chain[y] : block_num[d] <= block_num[c]

(* No block of the chain fails in apply_block.                              *)
Valid(b) == Chain[b] \cap Invalid = {}

(* A block never lowers the irreversible number of its parent: a schedule   *)
(* that shrinks is the one exception in calc_dpos_last_irreversible.        *)
LibsGrow == \A b \in Blocks : dpos_irreversible[previous[b]] <= dpos_irreversible[b]

(* What two thirds of the producers guarantee: when a branch makes a block  *)
(* irreversible that the other branch does not have, then no block of the   *)
(* other branch takes the block where they part for irreversible.           *)
LibsAgree ==
  \A x, y, c \in Blocks : Forked(x, y, c) /\ Final(y) > block_num[c] => Final(x) < block_num[c]

(* Nothing becomes irreversible by a block that does not apply, or by one   *)
(* built on it.                                                             *)
InvalidGainNothing == \A b \in Blocks : Valid(b) \/ dpos_irreversible[b] = dpos_irreversible[previous[b]]

(* Blocks of one rank keep their order, which a clean restart loses, where  *)
(* it decides what is left after a block that does not apply.               *)
TiesKeepOrder == Invalid = {} \/ MaxRestarts = 0

WellBehaved == LibsGrow /\ LibsAgree /\ InvalidGainNothing /\ TiesKeepOrder

(* Where two branches part, the block they part at ranks above every block  *)
(* that lacks a block irreversible on the way to it: no abandoned branch    *)
(* is longer than the part of the chain that all have in common.            *)
NoOvertaking ==
  \A x, y, c \in Blocks : Forked(x, y, c) =>
    \A u \in Chain[c] : \A w, z \in Blocks :
      u \in Chain[w] /\ block_num[u] <= Final(w) /\ u \notin Chain[z] => Outranks(c, z)
=============================================================================
