-------------------------- MODULE ForkSwitchProofs --------------------------
(***************************************************************************)
(* The inductive invariant of Controller, and that push_block keeps it up  *)
(* to the choice of the head and at every step of a fork switch and of its *)
(* reversal.                                                               *)
(***************************************************************************)
EXTENDS BlockStoreProofs

(* The inductive invariant *)

(* The node is on h: its chain state, and the flags of the index.           *)
OnHead(idx, cur, seq, h) ==
  h \in DOMAIN idx /\ Valid(h) /\ Enumerates(seq, h) /\ cur = Marked(idx, h)

(* Where a block may fail to apply, x comes first but for y, which is       *)
(* preferred to it: what is left when y fails is x.                         *)
Leads(idx, x, y) ==
  Invalid # {} => /\ x = y \/ Outranks(y, x)
                  /\ \A z \in DOMAIN idx \ {x, y} : Before(idx, x, z)

(* At every step.                                                           *)
Basics ==
  /\ IndexOK(index) /\ LogOK(blog) /\ fork_head \in Blocks
  /\ committed \in Nat /\ committed <= Len(blog)
  /\ task \in [phase : Phases, from : Blocks, to : Blocks, base : Blocks]
  /\ restarts \in 0..MaxRestarts /\ crashes \in 0..MaxCrashes

(* Between two blocks.                                                      *)
IdleInv ==
  /\ OnHead(index, in_current_chain, applied, head)
  /\ Durable(blog, reversible, head) /\ Guarded(blog, head)
  /\ fork_head = head /\ Supreme(index, head) /\ Leads(index, head, head) /\ Low(index, Final(head))

(* After add: the elected block is the head, on top of it, or the end of a  *)
(* branch that leaves it at a block of the index.                           *)
ChooseInv ==
  /\ OnHead(index, in_current_chain, applied, head)
  /\ Durable(blog, reversible, head) /\ Guarded(blog, head) /\ task.from = head
  /\ Supreme(index, fork_head) /\ Leads(index, head, fork_head) /\ Low(index, Final(fork_head))
  /\ ~Valid(fork_head) => dpos_irreversible[fork_head] <= dpos_irreversible[head]
  /\ \/ fork_head = head
     \/ fork_head # head /\ fork_head # Genesis /\ previous[fork_head] = head
     \/ \E c \in Known : Forked(head, fork_head, c)

(* During a fork switch: nothing below the base is touched, and the log     *)
(* ends at or below it.                                                     *)
SwitchInv ==
  /\ OnHead(index, in_current_chain, applied, head)
  /\ Durable(blog, reversible, head) /\ Guarded(blog, task.from)
  /\ task.from \in Known /\ Valid(task.from)
  /\ Forked(task.from, task.to, task.base) /\ task.base \in Known
  /\ Top(blog) \in Chain[task.base] /\ task.base \in Chain[head]

(* On the way to the new branch.                                            *)
ForwardInv ==
  /\ SwitchInv /\ fork_head = task.to
  /\ Supreme(index, task.to) /\ Leads(index, task.from, task.to) /\ Low(index, Final(task.to))
  /\ ~Valid(task.to) => dpos_irreversible[task.to] <= dpos_irreversible[task.from]

(* On the way back.                                                         *)
BackInv ==
  /\ SwitchInv /\ fork_head = task.from
  /\ Supreme(index, task.from) /\ Leads(index, task.from, task.from) /\ Low(index, Final(task.from))

PoppingInv == ForwardInv /\ head \in Chain[task.from] /\ head # task.base
ApplyingInv == ForwardInv /\ head \in Chain[task.to] /\ head # task.to
UnwindingInv == BackInv /\ head \in Chain[task.to] /\ head # task.base
RestoringInv == BackInv /\ head \in Chain[task.from] /\ head # task.from

(* During a replay: the stores hold the chain of the block the node was on, *)
(* and what was replayed so far is part of it.                              *)
ReplayInv ==
  /\ OnHead(index, in_current_chain, applied, head)
  /\ head \in Chain[task.to] /\ Valid(task.to)
  /\ Durable(blog, reversible, task.to) /\ Guarded(blog, task.to) /\ Len(blog) > 1
  /\ fork_head = head /\ Known \subseteq Chain[head] /\ Low(index, Final(head))

(* A node does not start again only with an empty block log.                *)
DownInv ==
  /\ Len(blog) = 1 /\ head \in Blocks /\ applied \in Seq(Blocks)
  /\ reversible \subseteq Blocks /\ in_current_chain \subseteq Known

Inv ==
  /\ Basics
  /\ task.phase = "idle" => IdleInv
  /\ task.phase = "choose" => ChooseInv
  /\ task.phase = "popping" => PoppingInv
  /\ task.phase = "applying" => ApplyingInv
  /\ task.phase = "unwinding" => UnwindingInv
  /\ task.phase = "restoring" => RestoringInv
  /\ task.phase = "replay" => ReplayInv
  /\ task.phase = "down" => DownInv

(* The genesis block alone.                                                 *)
LEMMA GenesisFacts ==
  ASSUME Counting, NEW idx, idx = [x \in {Genesis} |-> 1]
  PROVE  /\ IndexOK(idx) /\ DOMAIN idx = {Genesis} /\ Low(idx, Final(Genesis))
         /\ OnHead(idx, {}, <<Genesis>>, Genesis) /\ Supreme(idx, Genesis) /\ Leads(idx, Genesis, Genesis)
  <1>1. /\ Genesis \in Blocks /\ block_num[Genesis] = 1 /\ Chain[Genesis] = {Genesis}
        /\ dpos_irreversible[Genesis] = 0 /\ Valid(Genesis)
    BY TreeAssumption, Zenon DEF Valid
  <1>2. DOMAIN idx = {Genesis} /\ idx[Genesis] = 1 /\ idx \in [{Genesis} -> Nat \ {0}]
    OBVIOUS
  <1>3. IsFiniteSet({Genesis})
    BY Zenon DEF Counting
  <1>4. \E k \in Nat : \A x \in {Genesis} : block_num[x] <= k /\ idx[x] <= k
    BY <1>1, <1>2
  <1>5. Closed(idx)
    BY <1>1, <1>2, Zenon DEF Closed
  <1>6. IndexOK(idx)
    BY <1>1, <1>2, <1>3, <1>4, <1>5, Zenon DEF IndexOK
  <1>7. Low(idx, Final(Genesis))
    BY <1>1, <1>2 DEF Low, Final
  <1>8. Enumerates(<<Genesis>>, Genesis)
    BY <1>1 DEF Enumerates
  <1>9. Marked(idx, Genesis) = {}
    BY <1>1, <1>2, Zenon DEF Marked
  <1>10. Supreme(idx, Genesis) /\ Leads(idx, Genesis, Genesis)
    BY <1>1, <1>2 DEF Supreme, Leads, Outranks
  <1> QED BY <1>1, <1>2, <1>6, <1>7, <1>8, <1>9, <1>10, Zenon DEF OnHead

(* The invariant holds before the first block.                              *)
LEMMA InitInv ==
  ASSUME Counting
  PROVE  Init => Inv
  <1> SUFFICES ASSUME Init PROVE Inv
    BY Zenon
  <1>1. /\ index = [x \in {Genesis} |-> 1] /\ fork_head = Genesis /\ in_current_chain = {} /\ head = Genesis
        /\ applied = <<Genesis>> /\ committed = 1 /\ reversible = {} /\ blog = <<Genesis>> /\ task = Idle
        /\ restarts = 0 /\ crashes = 0
    BY Zenon DEF Init
  <1>2. /\ Genesis \in Blocks /\ block_num[Genesis] = 1 /\ Chain[Genesis] = {Genesis}
    BY TreeAssumption, Zenon
  <1>3. Len(blog) = 1 /\ Top(blog) = Genesis /\ blog \in Seq(Blocks)
    BY <1>1, <1>2 DEF Top
  <1>4. Enumerates(blog, Genesis)
    BY <1>1, <1>2, <1>3 DEF Enumerates
  <1>5. LogOK(blog)
    <2>1. 1 <= Final(Genesis)
      BY RankFacts, <1>2
    <2> QED BY <1>2, <1>3, <1>4, <2>1 DEF LogOK
  <1>6. Durable(blog, reversible, head)
    BY <1>1, <1>2, <1>3 DEF Durable
  <1>7. Guarded(blog, head)
    BY <1>3, GenesisInChain, Zenon DEF Guarded
  <1>8. /\ task.phase = "idle" /\ task \in [phase : Phases, from : Blocks, to : Blocks, base : Blocks]
    BY <1>1, <1>2, Zenon DEF Idle, Phases
  <1>9. restarts \in 0..MaxRestarts /\ crashes \in 0..MaxCrashes
    BY <1>1, RestartsAssumption
  <1>10. /\ IndexOK(index) /\ Low(index, Final(Genesis)) /\ OnHead(index, {}, <<Genesis>>, Genesis)
         /\ Supreme(index, Genesis) /\ Leads(index, Genesis, Genesis)
    BY <1>1, GenesisFacts, Zenon
  <1>11. IdleInv
    BY <1>1, <1>6, <1>7, <1>10, Zenon DEF IdleInv
  <1>12. Basics
    BY <1>1, <1>2, <1>3, <1>5, <1>8, <1>9, <1>10 DEF Basics
  <1> QED BY <1>8, <1>11, <1>12, Zenon DEF Inv

(* Two blocks do not come before each other.                                *)
LEMMA BeforeOneWay ==
  ASSUME Counting, NEW idx, IndexOK(idx), NEW x \in DOMAIN idx, NEW y \in DOMAIN idx, Before(idx, x, y)
  PROVE  ~Before(idx, y, x)
  <1>1. x \in Blocks /\ y \in Blocks /\ idx[x] \in Nat /\ idx[y] \in Nat
    BY Zenon DEF IndexOK
  <1>2. /\ dpos_irreversible[x] \in Nat /\ dpos_irreversible[y] \in Nat
        /\ block_num[x] \in Nat /\ block_num[y] \in Nat
    BY <1>1, BlockFacts, Zenon
  <1> QED BY <1>1, <1>2 DEF Before, SameRank

(* A new block does not come before the head but by its rank.               *)
LEMMA AddLeads ==
  ASSUME Counting, IndexOK(index), head \in Known, Leads(index, head, head), NEW b \in Blocks, Linkable(b),
         NEW B, B = Best(Inserted(b)), NEW idx, head \in DOMAIN idx, B \in DOMAIN idx,
         DOMAIN idx \subseteq Known \cup {b}, \A x \in DOMAIN idx : idx[x] = Inserted(b)[x]
  PROVE  Leads(idx, head, B)
  <1> DEFINE ins == Inserted(b)
  <1>1. /\ IndexOK(ins) /\ DOMAIN ins = Known \cup {b}
        /\ \A x, y \in Known : Before(index, x, y) <=> Before(ins, x, y)
        /\ \A x \in Known : SameRank(x, b) => Before(ins, x, b)
    BY InsertedFacts, Zenon
  <1>2. /\ B \in Known \cup {b} /\ \A y \in (Known \cup {b}) \ {B} : Before(ins, B, y)
    BY <1>1, BestExists, Zenon
  <1>3. \A x, y \in DOMAIN idx : Before(ins, x, y) => Before(idx, x, y)
    BY Zenon DEF Before
  <1> HIDE DEF ins
  <1> SUFFICES ASSUME Invalid # {}
               PROVE  /\ head = B \/ Outranks(B, head)
                      /\ \A z \in DOMAIN idx \ {head, B} : Before(idx, head, z)
    BY Zenon DEF Leads
  <1>4. \A z \in Known \ {head} : Before(ins, head, z)
    BY <1>1, Zenon DEF Leads, Known
  <1>5. B = head \/ B = b
    <2> SUFFICES ASSUME B # head, B \in Known PROVE FALSE
      BY <1>2, Zenon
    <2>1. Before(ins, head, B) /\ Before(ins, B, head)
      BY <1>2, <1>4, Zenon
    <2> QED BY <1>1, <2>1, BeforeOneWay, Zenon
  <1>6. ASSUME B # head PROVE Outranks(B, head)
    <2>1. Before(ins, b, head) /\ B = b
      BY <1>2, <1>5, <1>6, Zenon
    <2>2. ~Before(ins, head, b)
      BY <1>1, <2>1, BeforeOneWay, Zenon
    <2>3. ~SameRank(head, b)
      BY <1>1, <2>2, Zenon
    <2>4. ~SameRank(b, head)
      BY <2>3, Zenon DEF SameRank
    <2> QED BY <2>1, <2>4, BeforeFacts, Zenon
  <1>7. ASSUME NEW z \in DOMAIN idx \ {head, B} PROVE Before(idx, head, z)
    <2>1. CASE z \in Known
      BY <1>3, <1>4, <2>1, Zenon
    <2>2. CASE z = b
      <3>1. B = head
        BY <1>5, <2>2, Zenon
      <3>2. Before(ins, head, z)
        BY <1>2, <2>2, <3>1, Zenon
      <3> QED BY <1>3, <3>2, Zenon
    <2> QED BY <2>1, <2>2, Zenon
  <1> QED BY <1>6, <1>7, Zenon

(* The elected block leads once it is the head.                             *)
LEMMA LeadsOn ==
  ASSUME Counting,
         NEW idx, DOMAIN idx \subseteq Blocks, NEW x \in DOMAIN idx, NEW y \in DOMAIN idx, Leads(idx, x, y)
  PROVE  Leads(idx, y, y)
  <1> SUFFICES ASSUME Invalid # {}, NEW z \in DOMAIN idx, z # y PROVE Before(idx, y, z)
    BY Zenon DEF Leads
  <1>1. (x = y \/ Outranks(y, x)) /\ \A v \in DOMAIN idx \ {x, y} : Before(idx, x, v)
    BY Zenon DEF Leads
  <1>2. CASE x = y
    BY <1>1, <1>2, Zenon
  <1>3. CASE x # y /\ z = x
    BY <1>1, <1>3, BeforeFacts, Zenon
  <1>4. CASE x # y /\ z # x
    <2>1. Before(idx, x, z) /\ Outranks(y, x)
      BY <1>1, <1>4, Zenon
    <2>2. Outranks(x, z) \/ SameRank(x, z)
      BY <2>1, BeforeFacts, Zenon
    <2>3. x \in Blocks /\ y \in Blocks /\ z \in Blocks
      BY Zenon
    <2>4. ~Outranks(z, x)
      <3>1. SameRank(x, z) => SameRank(z, x)
        BY Zenon DEF SameRank
      <3> QED BY <2>2, <2>3, <3>1, RankFacts, Zenon
    <2>5. Outranks(y, z)
      BY <2>1, <2>3, <2>4, OutranksTransitive, Zenon
    <2> QED BY <2>5, BeforeFacts, Zenon
  <1> QED BY <1>2, <1>3, <1>4, Zenon

(* push_block up to the choice of the head.                                 *)
LEMMA PushStep ==
  ASSUME Counting, WellBehaved, Inv, NEW b \in Blocks, PushBlock(b)
  PROVE  Inv'
  <1> DEFINE B == Best(Inserted(b))
  <1>1. LibsGrow /\ LibsAgree /\ InvalidGainNothing
    BY Zenon DEF WellBehaved
  <1>2. /\ task.phase = "idle" /\ Linkable(b) /\ add(b, in_current_chain, {}, committed)
        /\ in_current_chain' = in_current_chain \cap DOMAIN index'
        /\ task' = [In("choose") EXCEPT !.from = head]
        /\ head' = head /\ applied' = applied /\ restarts' = restarts /\ crashes' = crashes
    BY Zenon DEF PushBlock, stops
  <1>3. Basics /\ IdleInv
    BY <1>2, Zenon DEF Inv
  <1>4. /\ IndexOK(index) /\ LogOK(blog) /\ committed \in Nat /\ committed <= Len(blog)
        /\ restarts \in 0..MaxRestarts /\ crashes \in 0..MaxCrashes
    BY <1>3, Zenon DEF Basics
  <1>5. /\ head \in Known /\ Valid(head) /\ Enumerates(applied, head) /\ in_current_chain = Marked(index, head)
        /\ Durable(blog, reversible, head) /\ Guarded(blog, head)
        /\ Supreme(index, head) /\ Leads(index, head, head) /\ Low(index, Final(head))
    BY <1>3, Zenon DEF IdleInv, OnHead, Known
  <1>6. head \in Blocks /\ Known \subseteq Blocks /\ head \in Chain[head] /\ Len(applied) \in Nat
    BY <1>4, <1>5, BlockFacts, EnumeratesAll, Zenon DEF IndexOK, Known
  <1>7. /\ IndexOK(index') /\ fork_head' = B /\ Supreme(index', B) /\ Low(index', Final(B))
        /\ head \in DOMAIN index' /\ DOMAIN index' \subseteq Known \cup {b}
        /\ \A x \in DOMAIN index' : index'[x] = Inserted(b)[x]
        /\ \A c \in Blocks : Forked(head, B, c) => c \in DOMAIN index'
    BY <1>1, <1>2, <1>4, <1>5, AddIndex, Zenon
  <1>8. reversible \cup {} = reversible
    BY Zenon
  <1>9. /\ LogOK(blog') /\ Durable(blog', reversible', head) /\ Guarded(blog', head)
        /\ committed' \in Nat /\ committed' <= Len(blog')
    BY <1>1, <1>2, <1>4, <1>5, <1>6, <1>8, AddStores, Zenon
  <1>10. /\ B \in Blocks
         /\ \/ B = head
            \/ B # head /\ B # Genesis /\ previous[B] = head
            \/ \E c \in Blocks : Forked(head, B, c)
         /\ ~Valid(B) => dpos_irreversible[B] <= dpos_irreversible[head]
    BY <1>1, <1>2, <1>4, <1>5, Elected, Zenon
  <1>11. Leads(index', head, B)
    <2>1. B \in DOMAIN index'
      BY <1>7, Zenon DEF Supreme
    <2> QED BY <1>2, <1>4, <1>5, <1>7, <2>1, AddLeads, Zenon
  <1> HIDE DEF B
  <1>12. in_current_chain' = Marked(index', head)
    <2>1. b \notin Chain[head]
      BY <1>2, <1>4, <1>5, LinkableFacts, Zenon
    <2> QED BY <1>2, <1>5, <1>7, <2>1, Zenon DEF Marked, Known
  <1>13. /\ task'.phase = "choose" /\ task'.from = head
         /\ task' \in [phase : Phases, from : Blocks, to : Blocks, base : Blocks]
    BY <1>2, <1>6, TreeAssumption, Zenon DEF In, Idle, Phases
  <1>14. Basics'
    BY <1>2, <1>4, <1>7, <1>9, <1>10, <1>13, Zenon DEF Basics
  <1>15. OnHead(index', in_current_chain', applied', head')
    BY <1>2, <1>5, <1>7, <1>12, Zenon DEF OnHead
  <1>16. \/ fork_head' = head'
         \/ fork_head' # head' /\ fork_head' # Genesis /\ previous[fork_head'] = head'
         \/ \E c \in DOMAIN index' : Forked(head', fork_head', c)
    BY <1>2, <1>7, <1>10, Zenon
  <1>17. ChooseInv'
    BY <1>2, <1>7, <1>9, <1>10, <1>11, <1>13, <1>15, <1>16, Zenon DEF ChooseInv, Known
  <1> QED BY <1>13, <1>14, <1>17, Zenon DEF Inv

(* A block on top of the head applies unless it is invalid: the revision is *)
(* the head's number and no reversible block has the number of the new one. *)
LEMMA AppliesIff ==
  ASSUME Counting, OnHead(index, in_current_chain, applied, head), Durable(blog, reversible, head),
         NEW n \in Blocks \ {Genesis}, previous[n] = head
  PROVE  Applies(n) <=> n \notin Invalid
  <1>1. head \in Blocks /\ block_num[n] = block_num[head] + 1 /\ block_num[head] \in Nat
    BY BlockFacts, Zenon
  <1>2. Len(applied) = block_num[head]
    BY Zenon DEF OnHead, Enumerates
  <1>3. ASSUME NEW r \in reversible PROVE block_num[r] # block_num[n]
    <2>1. r \in Chain[head]
      BY Zenon DEF Durable
    <2>2. block_num[r] <= block_num[head] /\ block_num[r] \in Nat
      BY <1>1, <2>1, ChainDown, BlockFacts, Zenon
    <2> QED BY <1>1, <2>2
  <1> QED BY <1>2, <1>3, Zenon DEF Applies

(* apply_block.                                                             *)
LEMMA ApplyFacts ==
  ASSUME Counting,
         IndexOK(index), OnHead(index, in_current_chain, applied, head), Durable(blog, reversible, head),
         NEW n \in Known, n # Genesis, previous[n] = head, apply_block(n)
  PROVE  /\ head' = n /\ index' = index /\ fork_head' = fork_head /\ committed' = committed /\ blog' = blog
         /\ OnHead(index, in_current_chain', applied', n) /\ Durable(blog, reversible', n)
  <1>1. /\ Applies(n) /\ applied' = Append(applied, n) /\ reversible' = reversible \cup {n} /\ head' = n
        /\ in_current_chain' = in_current_chain \cup ({n} \cap Known)
        /\ index' = index /\ fork_head' = fork_head /\ committed' = committed /\ blog' = blog
    BY Zenon DEF apply_block
  <1>2. n \in Blocks \ {Genesis} /\ head \in Known
    BY Zenon DEF IndexOK, OnHead, Known
  <1>3. Chain[n] = {n} \cup Chain[head]
    BY <1>2, BlockFacts, Zenon
  <1>4. Enumerates(applied', n)
    BY <1>1, <1>2, EnumeratesAppend, Zenon DEF OnHead
  <1>5. Valid(n)
    BY <1>1, <1>3, Zenon DEF Applies, Valid, OnHead
  <1>6. in_current_chain' = Marked(index, n)
    BY <1>1, <1>3, Zenon DEF Marked, OnHead, Known
  <1>7. Durable(blog, reversible', n)
    BY <1>1, <1>2, DurableExtends, Zenon
  <1> QED BY <1>1, <1>4, <1>5, <1>6, <1>7, Zenon DEF OnHead, Known

(* set_validity(false): what is left after the invalid n, which is on the   *)
(* chain of y, has x for its best block.                                    *)
LEMMA DropFacts ==
  ASSUME Counting, IndexOK(index), OnHead(index, in_current_chain, applied, head),
         NEW n \in Invalid, n \notin Chain[head], drop_invalid(n),
         NEW x \in Known, n \notin Chain[x], NEW y \in Blocks, n \in Chain[y],
         Leads(index, x, y), Low(index, Final(y)), dpos_irreversible[y] <= dpos_irreversible[x]
  PROVE  /\ IndexOK(index') /\ DOMAIN index' = {z \in Known : n \notin Chain[z]}
         /\ fork_head' = x /\ Supreme(index', x) /\ Leads(index', x, x) /\ Low(index', Final(x))
         /\ OnHead(index', in_current_chain', applied', head')
         /\ head' = head /\ applied' = applied /\ committed' = committed
         /\ reversible' = reversible /\ blog' = blog
  <1>1. /\ index' = Without(index, {n}) /\ fork_head' = Best(Without(index, {n}))
        /\ in_current_chain' = in_current_chain \cap DOMAIN index'
        /\ head' = head /\ applied' = applied /\ committed' = committed
        /\ reversible' = reversible /\ blog' = blog
    BY Zenon DEF drop_invalid, ledger
  <1>2. /\ IndexOK(Without(index, {n}))
        /\ DOMAIN Without(index, {n}) = {z \in DOMAIN index : n \notin Chain[z]}
        /\ \A z \in DOMAIN Without(index, {n}) : Without(index, {n})[z] = index[z]
    BY WithoutFacts, Zenon
  <1>3. IndexOK(index') /\ DOMAIN index' = {z \in Known : n \notin Chain[z]} /\ \A z \in DOMAIN index' : index'[z] = index[z]
    BY <1>1, <1>2, Zenon DEF Known
  <1>4. x \in DOMAIN index' /\ y \notin DOMAIN index' /\ head \in DOMAIN index'
    BY <1>3, Zenon DEF OnHead, Known
  <1>5. ASSUME NEW z \in DOMAIN index' \ {x} PROVE Before(index', x, z)
    <2>1. Before(index, x, z)
      BY <1>3, <1>4, Zenon DEF Leads, Known
    <2> QED BY <1>3, <1>4, <2>1, Zenon DEF Before
  <1>6. fork_head' = x /\ Best(index') = x
    <2>1. DOMAIN index' \subseteq Blocks /\ index' \in [DOMAIN index' -> Nat]
      BY <1>3, Zenon DEF IndexOK
    <2>2. Best(index') = x
      BY <1>4, <1>5, <2>1, BestIs, Zenon
    <2> QED BY <1>1, <2>2, Zenon
  <1>7. Supreme(index', x)
    <2>1. DOMAIN index' # {}
      BY <1>4, Zenon
    <2>2. Supreme(index', Best(index'))
      BY <1>3, <2>1, BestIsSupreme, Zenon
    <2> QED BY <1>6, <2>2, Zenon
  <1>8. Leads(index', x, x)
    BY <1>5, Zenon DEF Leads
  <1>9. Low(index', Final(x))
    <2>1. x \in Blocks
      BY Zenon DEF IndexOK, Known
    <2>2. dpos_irreversible[x] >= dpos_irreversible[y]
      BY <2>1, BlockFacts, Zenon
    <2>3. /\ Final(x) >= Final(y) /\ Final(x) \in Nat \ {0} /\ Final(y) \in Nat /\ Final(x) <= block_num[x]
      BY <2>1, <2>2, RankFacts, Zenon
    <2>4. Low(index, Final(x))
      <3>1. PICK d \in DOMAIN index : block_num[d] <= Final(y)
        BY Zenon DEF Low
      <3>2. block_num[d] \in Nat
        BY BlockFacts, Zenon DEF IndexOK
      <3>3. block_num[d] <= Final(x)
        BY <2>3, <3>1, <3>2
      <3> QED BY <3>1, <3>3, Zenon DEF Low
    <2>5. PICK e \in DOMAIN index : e \in Chain[x] /\ block_num[e] = Final(x)
      BY <2>3, <2>4, LowOn DEF Known
    <2>6. n \notin Chain[e]
      BY <2>1, <2>5, ChainDown, Zenon
    <2>7. block_num[e] <= Final(x)
      BY <2>3, <2>5
    <2> QED BY <1>3, <2>5, <2>6, <2>7, Zenon DEF Low, Known
  <1>10. in_current_chain' = Marked(index', head)
    BY <1>1, <1>3, Zenon DEF Marked, OnHead, Known
  <1>11. OnHead(index', in_current_chain', applied', head')
    BY <1>1, <1>4, <1>10, Zenon DEF OnHead
  <1> QED BY <1>1, <1>3, <1>6, <1>7, <1>8, <1>9, <1>11, Zenon

(* The elected block is the head already.                                   *)
LEMMA StayStep ==
  ASSUME Inv, StayOnHead
  PROVE  Inv'
  <1>1. /\ task.phase = "choose" /\ fork_head = head /\ task' = Idle
        /\ index' = index /\ fork_head' = fork_head /\ in_current_chain' = in_current_chain /\ head' = head
        /\ applied' = applied /\ committed' = committed /\ reversible' = reversible /\ blog' = blog
        /\ restarts' = restarts /\ crashes' = crashes
    BY Zenon DEF StayOnHead, forkdb, ledger, stops
  <1>2. Basics /\ ChooseInv
    BY <1>1, Zenon DEF Inv
  <1>3. task'.phase = "idle" /\ task' \in [phase : Phases, from : Blocks, to : Blocks, base : Blocks]
    BY <1>1, TreeAssumption, Zenon DEF Idle, Phases
  <1>4. IdleInv'
    BY <1>1, <1>2, Zenon DEF ChooseInv, IdleInv
  <1>5. Basics'
    BY <1>1, <1>2, <1>3, Zenon DEF Basics
  <1> QED BY <1>3, <1>4, <1>5, Zenon DEF Inv

(* The elected block is on top of the head: it becomes the head, or it does *)
(* not apply and the head stays the best block.                             *)
LEMMA ExtendStep ==
  ASSUME Counting, WellBehaved, Inv, ExtendHead
  PROVE  Inv' /\ task'.phase = "idle" /\ (head' = head \/ Outranks(head', head))
  <1> DEFINE n == fork_head
  <1>1. /\ task.phase = "choose" /\ previous[n] = head /\ n # head /\ task' = Idle
        /\ apply_block(n) \/ drop_invalid(n)
    BY Zenon DEF ExtendHead
  <1>2. Basics /\ ChooseInv /\ LibsGrow
    BY <1>1, Zenon DEF Inv, WellBehaved
  <1>3. /\ IndexOK(index) /\ LogOK(blog) /\ committed \in Nat /\ committed <= Len(blog)
        /\ restarts \in 0..MaxRestarts /\ crashes \in 0..MaxCrashes /\ n \in Blocks
    BY <1>2, Zenon DEF Basics
  <1>4. /\ OnHead(index, in_current_chain, applied, head) /\ Valid(head) /\ head \in Known /\ head \in Blocks
        /\ Durable(blog, reversible, head) /\ Guarded(blog, head)
        /\ Supreme(index, n) /\ n \in Known /\ Leads(index, head, n) /\ Low(index, Final(n))
        /\ ~Valid(n) => dpos_irreversible[n] <= dpos_irreversible[head]
    BY <1>2, <1>3, Zenon DEF ChooseInv, OnHead, Known, Supreme, IndexOK
  <1>5. n # Genesis
    BY <1>1, TreeAssumption, Zenon
  <1>6. task'.phase = "idle" /\ task' \in [phase : Phases, from : Blocks, to : Blocks, base : Blocks]
    BY <1>1, TreeAssumption, Zenon DEF Idle, Phases
  <1>7. head \in Chain[n] /\ n \in Chain[n] /\ n \notin Chain[head] /\ Chain[n] = {n} \cup Chain[head] /\ n # head
    BY <1>1, <1>3, <1>5, BlockFacts, TreeAssumption, SMTT(20)
  <1>8. Outranks(n, head)
    BY <1>2, <1>3, <1>7, LibAlongChain, Zenon
  <1>9. restarts' = restarts /\ crashes' = crashes
    BY Zenon DEF ExtendHead, stops
  <1> HIDE DEF n
  <1>10. CASE apply_block(n)
    <2>1. /\ head' = n /\ index' = index /\ fork_head' = fork_head /\ committed' = committed /\ blog' = blog
          /\ OnHead(index, in_current_chain', applied', n) /\ Durable(blog, reversible', n)
      BY <1>1, <1>3, <1>4, <1>5, <1>10, ApplyFacts, Zenon
    <2>2. Guarded(blog, n)
      <3>1. ~Outranks(head, n)
        BY <1>3, <1>4, <1>8, RankFacts, Zenon
      <3> QED BY <1>3, <1>4, <3>1, GuardedUp, Zenon
    <2>3. Leads(index, n, n)
      BY <1>3, <1>4, LeadsOn, Zenon DEF IndexOK, Known
    <2>4. IdleInv'
      BY <1>4, <2>1, <2>2, <2>3, Zenon DEF IdleInv, n
    <2>5. Basics'
      BY <1>3, <1>6, <1>9, <2>1, Zenon DEF Basics, n
    <2> QED BY <1>6, <1>8, <2>1, <2>4, <2>5, Zenon DEF Inv
  <1>11. CASE drop_invalid(n)
    <2>1. n \in Invalid
      BY <1>1, <1>3, <1>4, <1>5, <1>11, AppliesIff, Zenon DEF drop_invalid
    <2>2. ~Valid(n)
      BY <1>7, <2>1, Zenon DEF Valid
    <2>3. /\ IndexOK(index') /\ fork_head' = head /\ Supreme(index', head) /\ Leads(index', head, head)
          /\ Low(index', Final(head)) /\ OnHead(index', in_current_chain', applied', head')
          /\ head' = head /\ committed' = committed /\ reversible' = reversible /\ blog' = blog
      BY <1>3, <1>4, <1>7, <1>11, <2>1, <2>2, DropFacts, Zenon
    <2>4. IdleInv'
      BY <1>4, <2>3, Zenon DEF IdleInv
    <2>5. Basics'
      BY <1>3, <1>4, <1>6, <1>9, <2>3, Zenon DEF Basics
    <2> QED BY <1>6, <2>3, <2>4, <2>5, Zenon DEF Inv
  <1> QED BY <1>1, <1>10, <1>11, Zenon DEF n

(* A fork switch starts: both branches are in the index, and the log ends   *)
(* where they leave each other or below.                                    *)
LEMMA SwitchStep ==
  ASSUME Counting, WellBehaved, Inv, SwitchForks
  PROVE  Inv' /\ task'.phase = "popping"
  <1>1. /\ task.phase = "choose" /\ fork_head # head /\ previous[fork_head] # head
        /\ task' = IF BranchesKnown(head, fork_head)
                   THEN [phase |-> "popping", from |-> head, to |-> fork_head, base |-> Base(head, fork_head)]
                   ELSE In("down")
        /\ index' = index /\ fork_head' = fork_head /\ in_current_chain' = in_current_chain /\ head' = head
        /\ applied' = applied /\ committed' = committed /\ reversible' = reversible /\ blog' = blog
        /\ restarts' = restarts /\ crashes' = crashes
    BY Zenon DEF SwitchForks, forkdb, ledger, stops
  <1>2. Basics /\ ChooseInv
    BY <1>1, Zenon DEF Inv
  <1>3. IndexOK(index) /\ fork_head \in Blocks /\ Known \subseteq Blocks /\ Closed(index)
    BY <1>2, Zenon DEF Basics, IndexOK, Known
  <1>4. /\ OnHead(index, in_current_chain, applied, head) /\ head \in Known /\ Valid(head) /\ head \in Blocks
        /\ Durable(blog, reversible, head) /\ Guarded(blog, head)
        /\ Supreme(index, fork_head) /\ fork_head \in Known
    BY <1>2, <1>3, Zenon DEF ChooseInv, OnHead, Supreme, Known
  <1>5. PICK c \in Known : Forked(head, fork_head, c)
    BY <1>1, <1>2, Zenon DEF ChooseInv
  <1>6. /\ \A d : d \in Chain[head] /\ d \in Chain[fork_head] <=> d \in Chain[c]
        /\ Base(head, fork_head) = c /\ c \in Blocks
        /\ c \in Chain[head] /\ c \in Chain[fork_head] /\ c # head
    BY <1>3, <1>4, <1>5, ForkFacts, Zenon DEF Forked
  <1>7. BranchesKnown(head, fork_head)
    <2> SUFFICES ASSUME NEW x \in Blocks, NEW y \in Known, x \in Chain[y], c \in Chain[y], x \notin Chain[c]
                 PROVE  x \in Known
      <3>1. Chain[head] \subseteq Blocks /\ Chain[fork_head] \subseteq Blocks
        BY <1>3, <1>4, BlockFacts, Zenon
      <3> QED BY <1>4, <1>6, <3>1, Zenon DEF BranchesKnown
    <2>1. block_num[x] \in Nat /\ block_num[c] \in Nat
      BY <1>6, BlockFacts, Zenon
    <2>2. ~(block_num[x] <= block_num[c])
      BY <1>3, ChainLinear, Zenon
    <2>3. block_num[c] <= block_num[x]
      BY <2>1, <2>2
    <2> QED BY <1>3, <2>3, Zenon DEF Closed, Known
  <1>8. task' = [phase |-> "popping", from |-> head, to |-> fork_head, base |-> c]
    BY <1>1, <1>6, <1>7, Zenon
  <1>9. /\ task'.phase = "popping" /\ task'.from = head /\ task'.to = fork_head /\ task'.base = c
        /\ task' \in [phase : Phases, from : Blocks, to : Blocks, base : Blocks]
    BY <1>3, <1>4, <1>6, <1>8, Zenon DEF Phases
  <1>10. Top(blog) \in Chain[c]
    <2>1. Top(blog) \in Chain[fork_head]
      BY <1>3, <1>4, Zenon DEF Guarded, Supreme, Known
    <2> QED BY <1>4, <1>6, <2>1, Zenon DEF Durable
  <1>11. SwitchInv'
    BY <1>1, <1>4, <1>5, <1>6, <1>9, <1>10, Zenon DEF SwitchInv, Known
  <1>12. ForwardInv'
    BY <1>1, <1>2, <1>9, <1>11, Zenon DEF ForwardInv, ChooseInv
  <1>13. PoppingInv'
    BY <1>1, <1>4, <1>6, <1>9, <1>12, BlockFacts, Zenon DEF PoppingInv
  <1>14. Basics'
    BY <1>1, <1>2, <1>9, Zenon DEF Basics
  <1> QED BY <1>9, <1>13, <1>14, Zenon DEF Inv

(* What a fork switch has in common at each of its steps: a block above     *)
(* the base is in the index, with its parent.                               *)
LEMMA AboveBase ==
  ASSUME Counting, IndexOK(index), NEW c \in Known, NEW x \in Known, NEW n \in Chain[x], c \in Chain[n]
  PROVE  n \in Known /\ n \in Blocks /\ block_num[c] <= block_num[n]
  <1>1. Known \subseteq Blocks /\ Closed(index)
    BY Zenon DEF IndexOK, Known
  <1>2. n \in Blocks
    BY <1>1, ChainDown, Zenon
  <1>3. block_num[c] <= block_num[n]
    BY <1>2, ChainDown, Zenon
  <1> QED BY <1>1, <1>2, <1>3, Zenon DEF Closed, Known

(* pop_block, on either branch: the undo information of the head is still   *)
(* there, and its parent is in the index.                                   *)
LEMMA PopFacts ==
  ASSUME Counting, Basics, SwitchInv, head # task.base, PopBlock, NEW x \in Known, head \in Chain[x]
  PROVE  /\ previous[head] \in Known /\ head' = previous[head]
         /\ task' = IF head' = task.base
                    THEN [task EXCEPT !.phase = IF task.phase = "popping" THEN "applying" ELSE "restoring"]
                    ELSE task
         /\ index' = index /\ fork_head' = fork_head /\ committed' = committed /\ blog' = blog
         /\ restarts' = restarts /\ crashes' = crashes
         /\ OnHead(index, in_current_chain', applied', head') /\ Durable(blog, reversible', head')
         /\ head' \in Chain[x] /\ task.base \in Chain[head']
  <1>1. /\ IndexOK(index) /\ Known \subseteq Blocks /\ LogOK(blog) /\ committed \in Nat /\ committed <= Len(blog)
    BY Zenon DEF Basics, IndexOK, Known
  <1>2. /\ head \in Known /\ head \in Blocks /\ Valid(head) /\ Enumerates(applied, head)
        /\ in_current_chain = Marked(index, head) /\ Durable(blog, reversible, head)
        /\ task.base \in Known /\ task.base \in Blocks /\ Top(blog) \in Chain[task.base] /\ task.base \in Chain[head]
    BY <1>1, Zenon DEF SwitchInv, OnHead, Known
  <1>3. head # Genesis /\ task.base \in Chain[previous[head]]
    BY <1>2, ChainDown, Zenon
  <1>4. /\ Chain[head] = {head} \cup Chain[previous[head]] /\ block_num[head] = block_num[previous[head]] + 1
        /\ previous[head] \in Blocks /\ block_num[previous[head]] \in Nat
    BY <1>2, <1>3, BlockFacts, Zenon
  <1>5. previous[head] \in Chain[x] /\ previous[head] \in Known
    <2>1. previous[head] \in Chain[x]
      BY <1>1, ChainDown, Zenon
    <2> QED BY <1>1, <1>2, <1>3, <2>1, AboveBase, Zenon
  <1>6. /\ in_current_chain' = in_current_chain \ {head} /\ head' = previous[head]
        /\ reversible' = {r \in reversible : block_num[r] # block_num[head]} /\ applied' = Undone
        /\ task' = IF previous[head] = task.base
                   THEN [task EXCEPT !.phase = IF task.phase = "popping" THEN "applying" ELSE "restoring"]
                   ELSE task
        /\ index' = index /\ fork_head' = fork_head /\ committed' = committed /\ blog' = blog
        /\ restarts' = restarts /\ crashes' = crashes
    BY <1>5, Zenon DEF PopBlock, stops
  <1>7. Len(applied) > committed
    <2>1. Len(blog) = block_num[Top(blog)] /\ Len(blog) \in Nat /\ Top(blog) \in Blocks
      BY <1>1, EnumeratesAll, Zenon DEF LogOK, Enumerates
    <2>2. block_num[Top(blog)] <= block_num[task.base] /\ block_num[task.base] <= block_num[previous[head]]
      BY <1>2, <1>3, <1>4, ChainDown, Zenon
    <2>3. Len(applied) = block_num[head] /\ block_num[task.base] \in Nat
      BY <1>2, BlockFacts, Zenon DEF Enumerates
    <2> QED BY <1>1, <1>4, <2>1, <2>2, <2>3
  <1>8. Enumerates(applied', previous[head])
    BY <1>2, <1>3, <1>6, <1>7, EnumeratesFront, Zenon DEF Undone
  <1>9. Durable(blog, reversible', previous[head])
    <2>1. Top(blog) \in Chain[previous[head]]
      BY <1>2, <1>3, <1>4, ChainDown, Zenon
    <2> QED BY <1>2, <1>3, <1>6, <2>1, DurableShrinks, Zenon
  <1>10. head \notin Chain[previous[head]]
    <2> SUFFICES ASSUME head \in Chain[previous[head]] PROVE FALSE
      BY Zenon
    <2>1. block_num[head] <= block_num[previous[head]]
      BY <1>4, ChainDown, Zenon
    <2> QED BY <1>4, <2>1
  <1>11. in_current_chain' = Marked(index, previous[head])
    BY <1>2, <1>4, <1>6, <1>10, Zenon DEF Marked
  <1>12. Valid(previous[head])
    BY <1>2, <1>4, Zenon DEF Valid
  <1>13. OnHead(index, in_current_chain', applied', head')
    BY <1>5, <1>6, <1>8, <1>11, <1>12, Zenon DEF OnHead, Known
  <1> QED BY <1>3, <1>5, <1>6, <1>9, <1>13, Zenon

(* Every step of pop_block during a fork switch.                            *)
LEMMA PopStep ==
  ASSUME Counting, Inv, PopBlock
  PROVE  Inv' /\ task'.phase # "idle"
  <1>1. Basics /\ task.phase \in {"popping", "unwinding"}
    BY Zenon DEF Inv, PopBlock
  <1>2. /\ task \in [phase : Phases, from : Blocks, to : Blocks, base : Blocks]
        /\ Known \subseteq Blocks
    BY <1>1, Zenon DEF Basics, IndexOK, Known
  <1>3. SwitchInv /\ head # task.base
    BY <1>1, Zenon DEF Inv, PoppingInv, UnwindingInv, ForwardInv, BackInv
  <1>4. /\ Forked(task.from, task.to, task.base) /\ task.from \in Known /\ task.base \in Known
        /\ Guarded(blog, task.from) /\ Valid(task.from) /\ Top(blog) \in Chain[task.base]
        /\ task.base \in Chain[task.from] /\ task.base \in Chain[task.to]
        /\ task.base # task.from /\ task.base # task.to
    BY <1>3, Zenon DEF SwitchInv, Forked
  <1>5. PICK x \in Known : /\ head \in Chain[x]
                           /\ task.phase = "popping" => x = task.from
                           /\ task.phase = "unwinding" => x = head
    <2>1. CASE task.phase = "popping"
      BY <1>4, <2>1, Zenon DEF Inv, PoppingInv
    <2>2. CASE task.phase = "unwinding"
      <3>1. head \in Known
        BY <1>3, Zenon DEF SwitchInv, OnHead, Known
      <3> QED BY <1>2, <2>2, <3>1, BlockFacts, Zenon
    <2> QED BY <1>1, <2>1, <2>2, Zenon
  <1>6. /\ head' = previous[head]
        /\ task' = IF head' = task.base
                   THEN [task EXCEPT !.phase = IF task.phase = "popping" THEN "applying" ELSE "restoring"]
                   ELSE task
        /\ index' = index /\ fork_head' = fork_head /\ committed' = committed /\ blog' = blog
        /\ restarts' = restarts /\ crashes' = crashes
        /\ OnHead(index, in_current_chain', applied', head') /\ Durable(blog, reversible', head')
        /\ head' \in Chain[x] /\ task.base \in Chain[head']
    BY <1>1, <1>3, <1>5, PopFacts, Zenon
  <1>7. /\ task'.from = task.from /\ task'.to = task.to /\ task'.base = task.base
        /\ task' \in [phase : Phases, from : Blocks, to : Blocks, base : Blocks]
        /\ task'.phase = IF head' = task.base
                         THEN IF task.phase = "popping" THEN "applying" ELSE "restoring"
                         ELSE task.phase
    BY <1>2, <1>6, Zenon DEF Phases
  <1>8. SwitchInv'
    BY <1>4, <1>6, <1>7, Zenon DEF SwitchInv, Known
  <1>9. Basics'
    BY <1>1, <1>6, <1>7, Zenon DEF Basics
  <1>10. CASE task.phase = "popping"
    <2>1. ForwardInv
      BY <1>10, Zenon DEF Inv, PoppingInv
    <2>2. ForwardInv'
      BY <1>6, <1>7, <1>8, <2>1, Zenon DEF ForwardInv
    <2>3. head' \in Chain[task.from]
      BY <1>5, <1>6, <1>10, Zenon
    <2>4. CASE head' = task.base
      BY <1>4, <1>7, <1>9, <1>10, <2>2, <2>4, Zenon DEF Inv, ApplyingInv
    <2>5. CASE head' # task.base
      BY <1>7, <1>9, <1>10, <2>2, <2>3, <2>5, Zenon DEF Inv, PoppingInv
    <2> QED BY <2>4, <2>5, Zenon
  <1>11. CASE task.phase = "unwinding"
    <2>1. BackInv /\ head \in Chain[task.to]
      BY <1>11, Zenon DEF Inv, UnwindingInv
    <2>2. BackInv'
      BY <1>6, <1>7, <1>8, <2>1, Zenon DEF BackInv
    <2>3. head' \in Chain[task.to]
      BY <1>2, <1>6, <2>1, ChainDown, Zenon
    <2>4. CASE head' = task.base
      BY <1>4, <1>7, <1>9, <1>11, <2>2, <2>4, Zenon DEF Inv, RestoringInv
    <2>5. CASE head' # task.base
      BY <1>7, <1>9, <1>11, <2>2, <2>3, <2>5, Zenon DEF Inv, UnwindingInv
    <2> QED BY <2>4, <2>5, Zenon
  <1> QED BY <1>1, <1>10, <1>11, Zenon

(* The next block of a branch exists.                                       *)
LEMMA TowardsFacts ==
  ASSUME Counting, NEW x \in Blocks, head \in Chain[x], head # x
  PROVE  /\ Towards(x) \in Chain[x] /\ Towards(x) \in Blocks \ {Genesis}
         /\ previous[Towards(x)] = head /\ Towards(x) # head
  <1> DEFINE P(n) == previous[n] = head /\ n # head
  <1>1. \E n \in Chain[x] : P(n)
    BY ChainNext, Zenon
  <1>2. Towards(x) = CHOOSE n \in Chain[x] : P(n)
    BY Zenon DEF Towards
  <1>3. Towards(x) \in Chain[x] /\ P(Towards(x))
    <2> HIDE DEF P
    <2> QED BY <1>1, <1>2, Zenon
  <1>4. Towards(x) \in Blocks
    BY <1>3, BlockFacts, Zenon
  <1>5. Towards(x) # Genesis
    BY <1>3, TreeAssumption, Zenon
  <1> QED BY <1>3, <1>4, <1>5, Zenon

(* What the two branches have in common, before the next block of x.        *)
LEMMA BranchFacts ==
  ASSUME Counting, Basics, SwitchInv, NEW x \in Known, head \in Chain[x], head # x, NEW n, n = Towards(x)
  PROVE  /\ n \in Known /\ n \in Blocks \ {Genesis} /\ n \in Chain[x] /\ previous[n] = head
         /\ IndexOK(index) /\ Known \subseteq Blocks /\ OnHead(index, in_current_chain, applied, head)
         /\ Durable(blog, reversible, head) /\ task.base \in Chain[n]
         /\ Applies(n) <=> n \notin Invalid
         /\ task.from \in Known /\ task.from \in Blocks /\ Valid(task.from) /\ Valid(head)
         /\ task \in [phase : Phases, from : Blocks, to : Blocks, base : Blocks]
  <1>1. /\ IndexOK(index) /\ Known \subseteq Blocks
        /\ task \in [phase : Phases, from : Blocks, to : Blocks, base : Blocks]
    BY Zenon DEF Basics, IndexOK, Known
  <1>2. /\ OnHead(index, in_current_chain, applied, head) /\ Durable(blog, reversible, head) /\ Valid(head)
        /\ task.from \in Known /\ Valid(task.from) /\ task.base \in Known /\ task.base \in Chain[head]
    BY Zenon DEF SwitchInv, OnHead
  <1>3. n \in Chain[x] /\ n \in Blocks \ {Genesis} /\ previous[n] = head
    BY <1>1, TowardsFacts, Zenon
  <1>4. task.base \in Chain[n]
    BY <1>2, <1>3, BlockFacts, Zenon
  <1>5. n \in Known
    BY <1>1, <1>2, <1>3, <1>4, AboveBase, Zenon
  <1>6. Applies(n) <=> n \notin Invalid
    BY <1>2, <1>3, AppliesIff, Zenon
  <1> QED BY <1>1, <1>2, <1>3, <1>4, <1>5, <1>6, Zenon

(* A block of the new branch: it is applied, and the switch is over with    *)
(* the last one; or it fails, it is removed with all that is built on it,   *)
(* and the way back leads to the head the switch started from.              *)
LEMMA ApplyBranchStep ==
  ASSUME Counting, WellBehaved, Inv, ApplyBranch
  PROVE  Inv' /\ (task'.phase = "idle" => head' = task.to /\ ~Outranks(task.from, task.to))
  <1> DEFINE n == Towards(task.to)
  <1>1. /\ task.phase = "applying" /\ restarts' = restarts /\ crashes' = crashes
        /\ \/ apply_block(n) /\ task' = IF n = task.to THEN Idle ELSE task
           \/ /\ drop_invalid(n)
              /\ task' = [task EXCEPT !.phase = IF head = task.base THEN "restoring" ELSE "unwinding"]
    BY Zenon DEF ApplyBranch, stops
  <1>2. Basics /\ ApplyingInv /\ ForwardInv /\ SwitchInv
    BY <1>1, Zenon DEF Inv, ApplyingInv, ForwardInv
  <1>3. /\ fork_head = task.to /\ Supreme(index, task.to) /\ task.to \in Known
        /\ Leads(index, task.from, task.to) /\ Low(index, Final(task.to))
        /\ ~Valid(task.to) => dpos_irreversible[task.to] <= dpos_irreversible[task.from]
        /\ head \in Chain[task.to] /\ head # task.to
    BY <1>2, Zenon DEF ApplyingInv, ForwardInv, Supreme, Known
  <1>4. /\ n \in Known /\ n \in Blocks \ {Genesis} /\ n \in Chain[task.to] /\ previous[n] = head
        /\ IndexOK(index) /\ Known \subseteq Blocks /\ OnHead(index, in_current_chain, applied, head)
        /\ Durable(blog, reversible, head) /\ task.base \in Chain[n]
        /\ Applies(n) <=> n \notin Invalid
        /\ task.from \in Known /\ task.from \in Blocks /\ Valid(task.from) /\ Valid(head)
        /\ task \in [phase : Phases, from : Blocks, to : Blocks, base : Blocks]
    BY <1>2, <1>3, BranchFacts, Zenon
  <1>5. /\ Guarded(blog, task.from) /\ Forked(task.from, task.to, task.base) /\ task.base \in Known
        /\ Top(blog) \in Chain[task.base] /\ task.base \in Chain[head]
        /\ head \in Known /\ head \in Blocks
    BY <1>2, <1>4, Zenon DEF SwitchInv, OnHead, Known
  <1>6. ~Outranks(task.from, task.to)
    BY <1>3, <1>4, Zenon DEF Supreme, Known
  <1> HIDE DEF n
  <1>7. CASE apply_block(n) /\ task' = IF n = task.to THEN Idle ELSE task
    <2>1. /\ head' = n /\ index' = index /\ fork_head' = fork_head /\ committed' = committed /\ blog' = blog
          /\ OnHead(index, in_current_chain', applied', n) /\ Durable(blog, reversible', n)
      BY <1>4, <1>7, ApplyFacts, Zenon
    <2>2. task' \in [phase : Phases, from : Blocks, to : Blocks, base : Blocks]
      BY <1>4, <1>7, TreeAssumption, Zenon DEF Idle, Phases
    <2>3. Basics'
      BY <1>1, <1>2, <2>1, <2>2, Zenon DEF Basics
    <2>4. CASE n = task.to
      <3>1. task'.phase = "idle"
        BY <1>7, <2>4, Zenon DEF Idle
      <3>2. Guarded(blog, task.to)
        BY <1>3, <1>4, <1>5, <1>6, GuardedUp, Zenon
      <3>3. Leads(index, task.to, task.to)
        BY <1>3, <1>4, LeadsOn, Zenon DEF Known
      <3>4. IdleInv'
        BY <1>3, <2>1, <2>4, <3>2, <3>3, Zenon DEF IdleInv
      <3> QED BY <1>6, <2>1, <2>3, <2>4, <3>1, <3>4, Zenon DEF Inv
    <2>5. CASE n # task.to
      <3>1. task' = task
        BY <1>7, <2>5, Zenon
      <3>2. SwitchInv'
        BY <1>4, <1>5, <2>1, <3>1, Zenon DEF SwitchInv, Known
      <3>3. ForwardInv'
        BY <1>3, <2>1, <3>1, <3>2, Zenon DEF ForwardInv
      <3>4. ApplyingInv'
        BY <1>4, <2>1, <2>5, <3>1, <3>3, Zenon DEF ApplyingInv
      <3> QED BY <1>1, <2>3, <3>1, <3>4, Zenon DEF Inv
    <2> QED BY <2>4, <2>5, Zenon
  <1>8. CASE /\ drop_invalid(n)
             /\ task' = [task EXCEPT !.phase = IF head = task.base THEN "restoring" ELSE "unwinding"]
    <2>1. n \in Invalid
      BY <1>4, <1>8, Zenon DEF drop_invalid
    <2>2. n \notin Chain[task.from] /\ n \notin Chain[head] /\ ~Valid(task.to)
      BY <1>4, <2>1, Zenon DEF Valid
    <2>3. /\ IndexOK(index') /\ DOMAIN index' = {z \in Known : n \notin Chain[z]}
          /\ fork_head' = task.from /\ Supreme(index', task.from) /\ Leads(index', task.from, task.from)
          /\ Low(index', Final(task.from)) /\ OnHead(index', in_current_chain', applied', head')
          /\ head' = head /\ committed' = committed /\ reversible' = reversible /\ blog' = blog
      BY <1>3, <1>4, <1>8, <2>1, <2>2, DropFacts, Zenon
    <2>4. task.from \in DOMAIN index' /\ task.base \in DOMAIN index'
      <3>1. n \notin Chain[task.base]
        BY <1>5, <2>2, ChainDown, Zenon
      <3> QED BY <1>4, <1>5, <2>2, <2>3, <3>1, Zenon
    <2>5. /\ task'.from = task.from /\ task'.to = task.to /\ task'.base = task.base
          /\ task'.phase = IF head = task.base THEN "restoring" ELSE "unwinding"
          /\ task' \in [phase : Phases, from : Blocks, to : Blocks, base : Blocks]
      BY <1>4, <1>8, Zenon DEF Phases
    <2>6. SwitchInv'
      BY <1>4, <1>5, <2>3, <2>4, <2>5, Zenon DEF SwitchInv, Known
    <2>7. BackInv'
      BY <2>3, <2>5, <2>6, Zenon DEF BackInv
    <2>8. Basics'
      BY <1>1, <1>2, <1>4, <2>3, <2>5, Zenon DEF Basics
    <2>9. CASE head = task.base
      <3>1. task.base \in Chain[task.from] /\ task.base # task.from
        BY <1>5, Zenon DEF Forked
      <3>2. RestoringInv'
        BY <2>3, <2>5, <2>7, <2>9, <3>1, Zenon DEF RestoringInv
      <3> QED BY <2>5, <2>8, <2>9, <3>2, Zenon DEF Inv
    <2>10. CASE head # task.base
      <3>1. UnwindingInv'
        BY <1>3, <2>3, <2>5, <2>7, <2>10, Zenon DEF UnwindingInv
      <3> QED BY <2>5, <2>8, <2>10, <3>1, Zenon DEF Inv
    <2> QED BY <2>9, <2>10, Zenon
  <1> QED BY <1>1, <1>7, <1>8, Zenon

(* A block of the old branch applies again, until the head is what it was.  *)
LEMMA RestoreStep ==
  ASSUME Counting, Inv, RestoreBranch
  PROVE  Inv' /\ (task'.phase = "idle" => head' = task.from)
  <1> DEFINE n == Towards(task.from)
  <1>1. /\ task.phase = "restoring" /\ restarts' = restarts /\ crashes' = crashes
        /\ Applies(n) => apply_block(n) /\ task' = IF n = task.from \/ n \notin Known THEN Idle ELSE task
    BY Zenon DEF RestoreBranch, stops
  <1>2. Basics /\ RestoringInv /\ BackInv /\ SwitchInv
    BY <1>1, Zenon DEF Inv, RestoringInv, BackInv
  <1>3. /\ fork_head = task.from /\ Supreme(index, task.from) /\ task.from \in Known
        /\ Leads(index, task.from, task.from) /\ Low(index, Final(task.from))
        /\ head \in Chain[task.from] /\ head # task.from
    BY <1>2, Zenon DEF RestoringInv, BackInv, Supreme, Known
  <1>4. /\ n \in Known /\ n \in Blocks \ {Genesis} /\ n \in Chain[task.from] /\ previous[n] = head
        /\ IndexOK(index) /\ Known \subseteq Blocks /\ OnHead(index, in_current_chain, applied, head)
        /\ Durable(blog, reversible, head) /\ task.base \in Chain[n]
        /\ Applies(n) <=> n \notin Invalid
        /\ task.from \in Known /\ task.from \in Blocks /\ Valid(task.from) /\ Valid(head)
        /\ task \in [phase : Phases, from : Blocks, to : Blocks, base : Blocks]
    BY <1>2, <1>3, BranchFacts, Zenon
  <1>5. /\ Guarded(blog, task.from) /\ Forked(task.from, task.to, task.base) /\ task.base \in Known
        /\ Top(blog) \in Chain[task.base] /\ task.base \in Chain[head]
    BY <1>2, Zenon DEF SwitchInv
  <1> HIDE DEF n
  <1>6. apply_block(n) /\ task' = IF n = task.from THEN Idle ELSE task
    <2>1. n \notin Invalid
      BY <1>4, Zenon DEF Valid
    <2> QED BY <1>1, <1>4, <2>1, Zenon
  <1>7. /\ head' = n /\ index' = index /\ fork_head' = fork_head /\ committed' = committed /\ blog' = blog
        /\ OnHead(index, in_current_chain', applied', n) /\ Durable(blog, reversible', n)
    BY <1>4, <1>6, ApplyFacts, Zenon
  <1>8. task' \in [phase : Phases, from : Blocks, to : Blocks, base : Blocks]
    BY <1>4, <1>6, TreeAssumption, Zenon DEF Idle, Phases
  <1>9. Basics'
    BY <1>1, <1>2, <1>7, <1>8, Zenon DEF Basics
  <1>10. CASE n = task.from
    <2>1. task'.phase = "idle"
      BY <1>6, <1>10, Zenon DEF Idle
    <2>2. IdleInv'
      BY <1>3, <1>5, <1>7, <1>10, Zenon DEF IdleInv
    <2> QED BY <1>7, <1>9, <1>10, <2>1, <2>2, Zenon DEF Inv
  <1>11. CASE n # task.from
    <2>1. task' = task
      BY <1>6, <1>11, Zenon
    <2>2. SwitchInv'
      BY <1>4, <1>5, <1>7, <2>1, Zenon DEF SwitchInv, Known
    <2>3. BackInv'
      BY <1>3, <1>7, <2>1, <2>2, Zenon DEF BackInv
    <2>4. RestoringInv'
      BY <1>4, <1>7, <1>11, <2>1, <2>3, Zenon DEF RestoringInv
    <2> QED BY <1>1, <1>9, <2>1, <2>4, Zenon DEF Inv
  <1> QED BY <1>10, <1>11, Zenon
=============================================================================
