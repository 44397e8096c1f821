-------------------------- MODULE ControllerProofs --------------------------
(***************************************************************************)
(* Proofs about Controller, for every tree of blocks that a network of     *)
(* well-behaved producers can show the node: that production, replay,      *)
(* crashes and restarts keep the invariant too, and the theorems.          *)
(***************************************************************************)
EXTENDS ForkSwitchProofs

(* A block of the node's own on top of the head becomes the head.           *)
LEMMA ProduceStep ==
  ASSUME Counting, WellBehaved, Inv, NEW b \in Blocks, ProduceBlock(b)
  PROVE  Inv'
  <1>1. LibsGrow /\ LibsAgree /\ InvalidGainNothing
    BY Zenon DEF WellBehaved
  <1>2. PICK new \in {{b}, {}} :
          /\ task.phase = "idle" /\ previous[b] = head /\ b \notin Known \cup Invalid /\ b # head
          /\ add(b, in_current_chain \cup {b}, new, committed)
          /\ new = {b} <=> fork_head' = b
          /\ applied' = IF new = {b} THEN Append(applied, b) ELSE applied
          /\ head' = fork_head' /\ in_current_chain' = (in_current_chain \cup {b}) \cap DOMAIN index'
          /\ task' = task /\ restarts' = restarts /\ crashes' = crashes
    BY Zenon DEF ProduceBlock, stops
  <1>3. Basics /\ IdleInv
    BY <1>2, Zenon DEF Inv
  <1>4. /\ IndexOK(index) /\ LogOK(blog) /\ committed \in Nat /\ committed <= Len(blog)
        /\ restarts \in 0..MaxRestarts /\ crashes \in 0..MaxCrashes
        /\ task \in [phase : Phases, from : Blocks, to : Blocks, base : Blocks]
    BY <1>3, Zenon DEF Basics
  <1>5. /\ head \in Known /\ Valid(head) /\ Enumerates(applied, head) /\ in_current_chain = Marked(index, head)
        /\ Durable(blog, reversible, head) /\ Guarded(blog, head)
        /\ Supreme(index, head) /\ Leads(index, head, head) /\ Low(index, Final(head))
    BY <1>3, Zenon DEF IdleInv, OnHead, Known
  <1>6. /\ head \in Blocks /\ Known \subseteq Blocks /\ Len(applied) \in Nat
        /\ b # Genesis /\ Linkable(b) /\ Chain[b] = {b} \cup Chain[head] /\ head \in Chain[b]
    <2>1. head \in Blocks /\ Known \subseteq Blocks /\ Len(applied) \in Nat
      BY <1>4, <1>5, EnumeratesAll, Zenon DEF IndexOK, Known
    <2>2. b # Genesis
      BY <1>2, TreeAssumption, Zenon
    <2> QED BY <1>2, <1>5, <2>1, <2>2, BlockFacts, Zenon DEF Linkable
  <1>7. Best(Inserted(b)) = b /\ ~Outranks(head, b)
    BY <1>1, <1>2, <1>4, <1>5, <1>6, Elected, Zenon
  <1>8. in_current_chain \subseteq in_current_chain \cup {b}
    BY Zenon
  <1>9. /\ IndexOK(index') /\ fork_head' = b /\ Supreme(index', b) /\ Low(index', Final(b))
        /\ head \in DOMAIN index' /\ DOMAIN index' \subseteq Known \cup {b}
        /\ \A x \in DOMAIN index' : index'[x] = Inserted(b)[x]
    BY <1>1, <1>2, <1>4, <1>5, <1>6, <1>7, <1>8, AddIndex, Zenon
  <1>10. new = {b} /\ head' = b /\ applied' = Append(applied, b) /\ b \in DOMAIN index'
    BY <1>2, <1>9, Zenon DEF Supreme
  <1>11. Durable(blog, reversible \cup new, b) /\ Guarded(blog, b)
    BY <1>2, <1>5, <1>6, <1>7, <1>10, DurableExtends, GuardedUp, Zenon
  <1>12. /\ LogOK(blog') /\ Durable(blog', reversible', b) /\ Guarded(blog', b)
         /\ committed' \in Nat /\ committed' <= Len(blog')
    BY <1>1, <1>2, <1>4, <1>5, <1>6, <1>8, <1>11, AddStores, Zenon
  <1>13. Leads(index', b, b)
    <2>1. Leads(index', head, b)
      BY <1>4, <1>5, <1>6, <1>7, <1>9, <1>10, AddLeads, Zenon
    <2>2. DOMAIN index' \subseteq Blocks
      BY <1>9, Zenon DEF IndexOK
    <2> QED BY <1>9, <1>10, <2>1, <2>2, LeadsOn, Zenon
  <1>14. OnHead(index', in_current_chain', applied', b)
    <2>1. in_current_chain' = Marked(index', b)
      BY <1>2, <1>5, <1>6, <1>9, Zenon DEF Marked, Known
    <2>2. Enumerates(applied', b)
      BY <1>2, <1>5, <1>6, <1>10, EnumeratesAppend, Zenon
    <2>3. Valid(b)
      BY <1>2, <1>5, <1>6, Zenon DEF Valid
    <2> QED BY <1>10, <2>1, <2>2, <2>3, Zenon DEF OnHead
  <1>15. IdleInv'
    BY <1>9, <1>10, <1>12, <1>13, <1>14, Zenon DEF IdleInv
  <1>16. Basics'
    BY <1>2, <1>4, <1>9, <1>12, Zenon DEF Basics
  <1> QED BY <1>2, <1>15, <1>16, Zenon DEF Inv

(* Where the stores hold the chain of H, the next block to replay is the    *)
(* one on that chain on top of the head.                                    *)
LEMMA ReplayableFacts ==
  ASSUME Counting, LogOK(blog), NEW H \in Blocks, Durable(blog, reversible, H), head \in Chain[H]
  PROVE  /\ \A n \in Replayable :
              /\ n \in Chain[H] /\ n \in Blocks \ {Genesis} /\ previous[n] = head /\ n \notin Chain[head]
              /\ block_num[n] = ReplayNum
         /\ Replayable = {} => head = H
  <1>1. Top(blog) \in Blocks /\ Enumerates(blog, Top(blog)) /\ Top(blog) \in Chain[H] /\ Len(blog) \in Nat
    BY EnumeratesAll, Zenon DEF LogOK, Durable
  <1>2. head \in Blocks /\ block_num[head] \in Nat \ {0} /\ ReplayNum = block_num[head] + 1
    BY ChainDown, BlockFacts, Zenon DEF ReplayNum
  <1>3. ASSUME NEW n \in Replayable
        PROVE  n \in Chain[H] /\ block_num[n] = ReplayNum
    <2>1. CASE ReplayFromLog
      <3>1. n = blog[ReplayNum] /\ ReplayNum \in 1..Len(blog)
        BY <1>1, <1>2, <2>1 DEF Replayable, ReplayFromLog
      <3>2. n \in Chain[Top(blog)] /\ block_num[n] = ReplayNum
        BY <1>1, <3>1, Zenon DEF Enumerates
      <3> QED BY <1>1, <3>2, ChainDown, Zenon
    <2>2. CASE ~ReplayFromLog
      BY <2>2, Zenon DEF Replayable, Durable
    <2> QED BY <2>1, <2>2, Zenon
  <1>4. ASSUME NEW n \in Replayable
        PROVE  /\ n \in Chain[H] /\ n \in Blocks \ {Genesis} /\ previous[n] = head /\ n \notin Chain[head]
               /\ block_num[n] = ReplayNum
    <2>1. n \in Chain[H] /\ block_num[n] = block_num[head] + 1 /\ n \in Blocks
      BY <1>2, <1>3, BlockFacts, Zenon
    <2>2. n # Genesis
      BY <1>2, <2>1, BlockFacts
    <2>3. previous[n] \in Chain[H] /\ block_num[previous[n]] = block_num[head]
      BY <1>2, <2>1, <2>2, ChainDown, BlockFacts
    <2>4. previous[n] = head
      BY <2>3, ChainUnique, Zenon
    <2>5. n \notin Chain[head]
      <3> SUFFICES ASSUME n \in Chain[head] PROVE FALSE
        BY Zenon
      <3>1. block_num[n] <= block_num[head]
        BY <1>2, ChainDown, Zenon
      <3> QED BY <1>2, <2>1, <3>1
    <2> QED BY <1>3, <2>1, <2>2, <2>4, <2>5, Zenon
  <1>5. ASSUME Replayable = {}, head # H PROVE FALSE
    <2>1. PICK m \in Chain[H] : block_num[m] = block_num[head] + 1
      BY <1>5, ChainNext
    <2>2. ~ReplayFromLog /\ m \notin reversible
      BY <1>2, <1>5, <2>1, Zenon DEF Replayable
    <2>3. block_num[m] > Len(blog)
      BY <1>1, <1>2, <2>1, <2>2 DEF ReplayFromLog
    <2> QED BY <2>2, <2>3, Zenon DEF Durable
  <1> QED BY <1>4, <1>5, Zenon

(* While only the chain of the head is known, the head leads.               *)
LEMMA AloneLeads ==
  ASSUME Counting, LibsGrow, NEW idx, NEW h \in Blocks, h \in DOMAIN idx, DOMAIN idx \subseteq Chain[h]
  PROVE  Supreme(idx, h) /\ Leads(idx, h, h)
  <1>1. ASSUME NEW y \in DOMAIN idx, y # h PROVE Outranks(h, y) /\ ~Outranks(y, h)
    <2>1. y \in Chain[h] /\ y \in Blocks
      BY ChainDown, Zenon
    <2>2. Outranks(h, y)
      BY <1>1, <2>1, LibAlongChain, Zenon
    <2> QED BY <2>1, <2>2, RankFacts, Zenon
  <1>2. ~Outranks(h, h)
    BY RankFacts, Zenon
  <1> QED BY <1>1, <1>2, BeforeFacts, Zenon DEF Supreme, Leads

(* Each replayed block becomes the head.                                    *)
LEMMA ReplayBlockStep ==
  ASSUME Counting, WellBehaved, Inv, NEW n \in Blocks, ReplayBlock(n)
  PROVE  Inv' /\ task'.phase = "replay"
  <1> DEFINE floor == IF ReplayFromLog THEN ReplayNum ELSE committed
  <1>1. LibsGrow /\ LibsAgree /\ InvalidGainNothing
    BY Zenon DEF WellBehaved
  <1>2. /\ task.phase = "replay" /\ n \in Replayable /\ Linkable(n) /\ n \notin Invalid
        /\ add(n, in_current_chain, {}, floor)
        /\ fork_head' = n => /\ head' = n /\ applied' = Append(applied, n)
                             /\ in_current_chain' = (in_current_chain \cup {n}) \cap DOMAIN index'
                             /\ task' = task
        /\ restarts' = restarts /\ crashes' = crashes
    BY Zenon DEF ReplayBlock, stops
  <1>3. Basics /\ ReplayInv
    BY <1>2, Zenon DEF Inv
  <1>4. /\ IndexOK(index) /\ LogOK(blog) /\ committed \in Nat /\ committed <= Len(blog)
        /\ restarts \in 0..MaxRestarts /\ crashes \in 0..MaxCrashes
        /\ task \in [phase : Phases, from : Blocks, to : Blocks, base : Blocks]
    BY <1>3, Zenon DEF Basics
  <1>5. /\ head \in Known /\ Valid(head) /\ Enumerates(applied, head) /\ in_current_chain = Marked(index, head)
        /\ head \in Chain[task.to] /\ Durable(blog, reversible, task.to) /\ Guarded(blog, task.to)
        /\ Known \subseteq Chain[head] /\ Low(index, Final(head)) /\ Valid(task.to) /\ Len(blog) > 1
    BY <1>3, Zenon DEF ReplayInv, OnHead, Known
  <1>6. /\ n \in Chain[task.to] /\ n \in Blocks \ {Genesis} /\ previous[n] = head /\ n \notin Chain[head]
        /\ task.to \in Blocks
    BY <1>2, <1>4, <1>5, ReplayableFacts, Zenon
  <1>7. /\ head \in Blocks /\ Len(applied) \in Nat /\ Chain[n] = {n} \cup Chain[head]
        /\ Supreme(index, head) /\ Len(blog) \in Nat /\ ReplayNum \in Nat
    <2>1. head \in Blocks
      BY <1>4, <1>5, Zenon DEF IndexOK, Known
    <2>2. Len(applied) \in Nat /\ Chain[n] = {n} \cup Chain[head]
      BY <1>5, <1>6, <2>1, EnumeratesAll, BlockFacts, Zenon
    <2>3. Supreme(index, head)
      BY <1>1, <1>5, <2>1, AloneLeads, Zenon DEF Known
    <2>4. ReplayNum \in Nat
      BY <2>1, BlockFacts DEF ReplayNum
    <2> QED BY <1>4, <2>1, <2>2, <2>3, <2>4, EnumeratesAll, Zenon DEF LogOK
  <1>8. floor \in Nat /\ floor <= Len(blog)
    BY <1>4, <1>7, Zenon DEF ReplayFromLog
  <1> HIDE DEF floor
  <1>9. Best(Inserted(n)) = n
    BY <1>1, <1>2, <1>4, <1>5, <1>6, <1>7, Elected, Zenon
  <1>10. in_current_chain \subseteq in_current_chain \cup {n} /\ reversible \cup {} = reversible
    BY Zenon
  <1>11. /\ IndexOK(index') /\ fork_head' = n /\ Supreme(index', n) /\ Low(index', Final(n))
         /\ DOMAIN index' \subseteq Known \cup {n}
    BY <1>1, <1>2, <1>4, <1>5, <1>7, <1>9, <1>10, AddIndex, Zenon
  <1>12. /\ LogOK(blog') /\ Len(blog') >= Len(blog) /\ Durable(blog', reversible', task.to)
         /\ Guarded(blog', task.to) /\ committed' \in Nat /\ committed' <= Len(blog')
    <2>1. Durable(blog, reversible \cup {}, task.to) /\ in_current_chain \subseteq in_current_chain
      BY <1>5, <1>10, Zenon
    <2> QED BY <1>1, <1>2, <1>4, <1>5, <1>6, <1>7, <1>8, <1>10, <2>1, AddStores, Zenon
  <1>13. /\ head' = n /\ applied' = Append(applied, n) /\ task' = task /\ n \in DOMAIN index'
         /\ in_current_chain' = (in_current_chain \cup {n}) \cap DOMAIN index'
    BY <1>2, <1>11, Zenon DEF Supreme
  <1>14. OnHead(index', in_current_chain', applied', n)
    <2>1. in_current_chain' = Marked(index', n)
      BY <1>5, <1>6, <1>7, <1>11, <1>13, Zenon DEF Marked, Known
    <2>2. Enumerates(applied', n)
      BY <1>5, <1>6, <1>13, EnumeratesAppend, Zenon
    <2>3. Valid(n)
      BY <1>2, <1>5, <1>7, Zenon DEF Valid
    <2> QED BY <1>13, <2>1, <2>2, <2>3, Zenon DEF OnHead
  <1>15. Len(blog') > 1
    <2>1. Len(blog') \in Nat
      BY <1>12, EnumeratesAll, Zenon DEF LogOK
    <2> QED BY <1>5, <1>7, <1>12, <2>1
  <1>16. DOMAIN index' \subseteq Chain[n]
    BY <1>5, <1>7, <1>11, Zenon
  <1>17. ReplayInv'
    BY <1>5, <1>6, <1>11, <1>12, <1>13, <1>14, <1>15, <1>16, Zenon DEF ReplayInv, Known
  <1>18. Basics'
    BY <1>2, <1>4, <1>6, <1>11, <1>12, <1>13, Zenon DEF Basics
  <1> QED BY <1>2, <1>13, <1>17, <1>18, Zenon DEF Inv

(* A replay ends when nothing is left to replay, on the block the node was  *)
(* on, and the assertions of init pass.                                     *)
LEMMA ReplayEndStep ==
  ASSUME Counting, WellBehaved, Inv, ReplayEnd
  PROVE  Inv' /\ task'.phase = "idle" /\ head' = task.to
  <1>1. /\ task.phase = "replay" /\ \A n \in Replayable : ~Linkable(n) \/ n \in Invalid
        /\ task' = IF Replayable = {} /\ InitAccepts(head, applied, reversible, blog) THEN Idle ELSE In("down")
        /\ index' = index /\ fork_head' = fork_head /\ in_current_chain' = in_current_chain /\ head' = head
        /\ applied' = applied /\ committed' = committed /\ reversible' = reversible /\ blog' = blog
        /\ restarts' = restarts /\ crashes' = crashes
    BY Zenon DEF ReplayEnd, forkdb, ledger, stops
  <1>2. Basics /\ ReplayInv /\ LibsGrow
    BY <1>1, Zenon DEF Inv, WellBehaved
  <1>3. /\ IndexOK(index) /\ LogOK(blog) /\ task.to \in Blocks
    BY <1>2, Zenon DEF Basics
  <1>4. /\ OnHead(index, in_current_chain, applied, head) /\ head \in Known /\ head \in Blocks
        /\ Enumerates(applied, head) /\ fork_head = head
        /\ head \in Chain[task.to] /\ Durable(blog, reversible, task.to) /\ Guarded(blog, task.to)
        /\ Known \subseteq Chain[head] /\ Low(index, Final(head)) /\ Valid(task.to)
    BY <1>2, <1>3, Zenon DEF ReplayInv, OnHead, Known, IndexOK
  <1>5. Replayable = {}
    <2> SUFFICES ASSUME NEW n \in Replayable PROVE FALSE
      BY Zenon
    <2>1. n \in Chain[task.to] /\ previous[n] = head /\ n \notin Chain[head]
      BY <1>3, <1>4, ReplayableFacts, Zenon
    <2> QED BY <1>1, <1>4, <2>1, Zenon DEF Linkable, Valid
  <1>6. head = task.to
    BY <1>3, <1>4, <1>5, ReplayableFacts, Zenon
  <1>7. InitAccepts(head, applied, reversible, blog)
    <2>1. Len(blog) \in Nat
      BY <1>3, EnumeratesAll, Zenon DEF LogOK
    <2>2. Len(blog) <= block_num[head]
      BY <1>3, <1>4, <1>6, DurableAll, Zenon
    <2> QED BY <1>4, <1>6, <2>1, <2>2, InitAcceptsDurable, Zenon
  <1>8. /\ task' = Idle /\ task'.phase = "idle"
        /\ task' \in [phase : Phases, from : Blocks, to : Blocks, base : Blocks]
    BY <1>1, <1>5, <1>7, TreeAssumption, Zenon DEF Idle, Phases
  <1>9. Supreme(index, head) /\ Leads(index, head, head)
    BY <1>2, <1>4, AloneLeads, Zenon DEF Known
  <1>10. IdleInv'
    BY <1>1, <1>4, <1>6, <1>9, Zenon DEF IdleInv
  <1>11. Basics'
    BY <1>1, <1>2, <1>8, Zenon DEF Basics
  <1> QED BY <1>1, <1>6, <1>8, <1>10, <1>11, Zenon DEF Inv

(* A fork switch, or its reversal, is under way.                            *)
Switching == task.phase \in {"popping", "applying", "unwinding", "restoring"}

(* The numbers above zero.                                                  *)
LEMMA AboveZero == \A n \in Nat \ {0} : n > 1 \/ n = 1
  OBVIOUS

(* With a block log of more than the genesis block a crash leads to a       *)
(* replay of what the stores hold.  With no more than that the node starts  *)
(* as new, or does not start.                                               *)
LEMMA StartOverFacts ==
  ASSUME Counting, Basics, NEW log, LogOK(log), StartOver(log), head \in Blocks, Valid(head),
         Durable(log, reversible, head), Len(log) > 1 => Guarded(log, head)
  PROVE  Inv'
  <1>1. /\ crashes < MaxCrashes /\ crashes' = crashes + 1 /\ index' = [x \in {Genesis} |-> 1] /\ fork_head' = Genesis
        /\ in_current_chain' = {} /\ head' = Genesis /\ applied' = <<Genesis>> /\ committed' = 1
        /\ blog' = log /\ task' = Startup(Genesis, <<Genesis>>, reversible, log)
        /\ reversible' = reversible /\ restarts' = restarts
    BY Zenon DEF StartOver
  <1>2. /\ IndexOK(index') /\ DOMAIN index' = {Genesis} /\ Low(index', Final(Genesis))
        /\ OnHead(index', {}, <<Genesis>>, Genesis) /\ Supreme(index', Genesis) /\ Leads(index', Genesis, Genesis)
    BY <1>1, GenesisFacts, Zenon
  <1>3. /\ Genesis \in Blocks /\ block_num[Genesis] = 1 /\ Chain[Genesis] = {Genesis} /\ Genesis \in Chain[head]
        /\ <<Genesis>> \in Seq(Blocks) /\ Len(<<Genesis>>) = 1
    BY TreeAssumption, GenesisInChain
  <1>4. Len(log) \in Nat \ {0} /\ Top(log) \in Blocks /\ Enumerates(log, Top(log))
    BY EnumeratesAll, Zenon DEF LogOK
  <1>5. restarts' \in 0..MaxRestarts /\ crashes' \in 0..MaxCrashes
    BY <1>1, RestartsAssumption DEF Basics
  <1>6. ASSUME task' \in [phase : Phases, from : Blocks, to : Blocks, base : Blocks] PROVE Basics'
    <2>1. IndexOK(index') /\ LogOK(blog') /\ fork_head' \in Blocks
      BY <1>1, <1>2, <1>3, Zenon
    <2>2. committed' \in Nat /\ committed' <= Len(blog')
      BY <1>1, <1>4
    <2> QED BY <1>5, <1>6, <2>1, <2>2, Zenon DEF Basics
  <1>7. CASE Len(log) > 1
    <2>1. task' = [In("replay") EXCEPT !.to = head]
      BY <1>1, <1>3, <1>7, Zenon DEF Startup
    <2>2. /\ task'.phase = "replay" /\ task'.to = head
          /\ task' \in [phase : Phases, from : Blocks, to : Blocks, base : Blocks]
      BY <1>3, <2>1, Zenon DEF In, Idle, Phases
    <2>3. ReplayInv'
      BY <1>1, <1>2, <1>3, <1>7, <2>2, Zenon DEF ReplayInv, Known
    <2> QED BY <1>6, <2>2, <2>3, Zenon DEF Inv
  <1>8. CASE Len(log) = 1 /\ reversible = {}
    <2>1. Top(log) = Genesis
      <3>1. block_num[Top(log)] = 1
        BY <1>4, <1>8, Zenon DEF Enumerates
      <3> QED BY <1>4, <3>1, BlockFacts, Zenon
    <2>2. InitAccepts(Genesis, <<Genesis>>, reversible, log)
      BY <1>3, <1>8 DEF InitAccepts
    <2>3. task' = Idle
      BY <1>1, <1>3, <1>8, <2>2 DEF Startup
    <2>4. /\ task'.phase = "idle"
          /\ task' \in [phase : Phases, from : Blocks, to : Blocks, base : Blocks]
      BY <1>3, <2>3, Zenon DEF Idle, Phases
    <2>5. Durable(log, {}, Genesis)
      BY <1>3, <1>8, <2>1, Zenon DEF Durable
    <2>6. Guarded(log, Genesis)
      BY <2>1, GenesisInChain, Zenon DEF Guarded
    <2>7. IdleInv'
      BY <1>1, <1>2, <1>8, <2>5, <2>6, Zenon DEF IdleInv
    <2> QED BY <1>6, <2>4, <2>7, Zenon DEF Inv
  <1>9. CASE Len(log) = 1 /\ reversible # {}
    <2>1. reversible \subseteq Chain[head] /\ Genesis \notin reversible /\ reversible \subseteq Blocks
      BY BlockFacts, Zenon DEF Durable
    <2>2. ~InitAccepts(Genesis, <<Genesis>>, reversible, log)
      BY <1>9, <2>1, InitRefuses, Zenon
    <2>3. task' = In("down")
      BY <1>1, <1>3, <1>9, <2>2 DEF Startup
    <2>4. /\ task'.phase = "down"
          /\ task' \in [phase : Phases, from : Blocks, to : Blocks, base : Blocks]
      BY <1>3, <2>3, Zenon DEF In, Idle, Phases
    <2>5. DownInv'
      BY <1>1, <1>3, <1>9, <2>1, Zenon DEF DownInv
    <2> QED BY <1>6, <2>4, <2>5, Zenon DEF Inv
  <1>10. Len(log) > 1 \/ Len(log) = 1
    BY <1>4, AboveZero, Zenon
  <1> QED BY <1>7, <1>8, <1>9, <1>10, Zenon

(* A crash at any step.                                                     *)
LEMMA CrashStep ==
  ASSUME Counting, WellBehaved, Inv, Crash, NoOvertaking \/ ~Switching
  PROVE  Inv'
  <1>1. Basics /\ task.phase \notin {"replay", "down"} /\ StartOver(blog) /\ LibsGrow
    BY Zenon DEF Inv, Crash, WellBehaved
  <1>2. /\ IndexOK(index) /\ LogOK(blog) /\ task.phase \in Phases
        /\ task \in [phase : Phases, from : Blocks, to : Blocks, base : Blocks]
    BY <1>1, Zenon DEF Basics
  <1>3. CASE task.phase = "idle" \/ task.phase = "choose"
    <2>1. OnHead(index, in_current_chain, applied, head) /\ Durable(blog, reversible, head) /\ Guarded(blog, head)
      BY <1>3, Zenon DEF Inv, IdleInv, ChooseInv
    <2>2. head \in Blocks /\ Valid(head)
      BY <1>2, <2>1, Zenon DEF IndexOK, OnHead
    <2> QED BY <1>1, <1>2, <2>1, <2>2, StartOverFacts, Zenon
  <1>4. CASE Switching
    <2>1. SwitchInv
      BY <1>4, Zenon DEF Inv, Switching, PoppingInv, ApplyingInv, UnwindingInv, RestoringInv, ForwardInv, BackInv
    <2>2. /\ head \in Blocks /\ Valid(head) /\ Durable(blog, reversible, head)
          /\ Forked(task.from, task.to, task.base) /\ Top(blog) \in Chain[task.base] /\ task.base \in Chain[head]
          /\ task.from \in Blocks /\ task.to \in Blocks /\ task.base \in Blocks
      BY <1>2, <2>1, Zenon DEF SwitchInv, IndexOK, OnHead
    <2>3. PICK w \in Blocks : Top(blog) \in Chain[w] /\ block_num[Top(blog)] <= Final(w)
      BY <1>2, Zenon DEF LogOK, Enumerates
    <2>4. ASSUME NEW z \in Blocks, Top(blog) \notin Chain[z] PROVE Outranks(head, z)
      <3>1. Outranks(task.base, z)
        BY <1>4, <2>2, <2>3, <2>4, Zenon DEF NoOvertaking
      <3>2. CASE task.base = head
        BY <3>1, <3>2, Zenon
      <3>3. CASE task.base # head
        <4>1. Outranks(head, task.base)
          BY <1>1, <2>2, <3>3, LibAlongChain, Zenon
        <4>2. ~Outranks(z, task.base)
          BY <2>2, <3>1, RankFacts, Zenon
        <4> QED BY <2>2, <4>1, <4>2, OutranksTransitive, Zenon
      <3> QED BY <3>2, <3>3, Zenon
    <2>5. Guarded(blog, head)
      BY <2>4, Zenon DEF Guarded
    <2> QED BY <1>1, <1>2, <2>2, <2>5, StartOverFacts, Zenon
  <1> QED BY <1>1, <1>2, <1>3, <1>4, Zenon DEF Switching, Phases

(* A crash between the append to the block log and the removal from the     *)
(* reversible blocks: the block is in both.                                 *)
LEMMA CrashInLogStep ==
  ASSUME Counting, WellBehaved, Inv, NEW b \in Blocks, CrashInLog(b)
  PROVE  Inv'
  <1>1. LibsGrow /\ LibsAgree /\ InvalidGainNothing
    BY Zenon DEF WellBehaved
  <1>2. PICK s \in Prunable(Inserted(b), in_current_chain) :
          /\ block_num[s] > Len(blog) /\ StartOver(Append(blog, s)) /\ task.phase = "idle" /\ Linkable(b)
    BY Zenon DEF CrashInLog
  <1>3. /\ s \in Oldest(Inserted(b), in_current_chain) /\ block_num[s] < dpos_irreversible[Best(Inserted(b))]
        /\ CanLog(s)
    BY Zenon DEF Prunable
  <1>4. Basics /\ IdleInv
    BY <1>2, Zenon DEF Inv
  <1>5. IndexOK(index) /\ LogOK(blog)
    BY <1>4, Zenon DEF Basics
  <1>6. /\ head \in Known /\ Valid(head) /\ in_current_chain = Marked(index, head)
        /\ Durable(blog, reversible, head) /\ Guarded(blog, head)
        /\ Supreme(index, head) /\ Low(index, Final(head)) /\ head \in Blocks
    BY <1>4, <1>5, Zenon DEF IdleInv, OnHead, Known, IndexOK
  <1>7. in_current_chain \subseteq in_current_chain \cup {b}
    BY Zenon
  <1>8. s \in Chain[head] /\ block_num[s] <= Final(head)
    BY <1>1, <1>2, <1>3, <1>5, <1>6, <1>7, PrunedIsShared, Zenon
  <1>9. LogOK(Logged(s)) /\ Durable(Logged(s), reversible, head) /\ Guarded(Logged(s), head)
    BY <1>1, <1>3, <1>5, <1>6, <1>8, LogFacts, Zenon
  <1>10. Logged(s) = Append(blog, s)
    BY <1>2, Zenon DEF Logged
  <1> QED BY <1>2, <1>4, <1>6, <1>9, <1>10, StartOverFacts, Zenon

(* A clean restart comes back on the head.                                  *)
LEMMA RestartStep ==
  ASSUME Counting, WellBehaved, Inv, Restart
  PROVE  Inv' /\ head' = head
  <1>1. LibsGrow /\ LibsAgree /\ TiesKeepOrder
    BY Zenon DEF WellBehaved
  <1>2. /\ task.phase = "idle" /\ restarts < MaxRestarts /\ restarts' = restarts + 1
        /\ \/ \E s \in Oldest(index, in_current_chain) : CanLog(s) /\ on_irreversible(s, {}, committed)
           \/ blog' = blog /\ committed' = committed /\ reversible' = reversible
        /\ index' \in Reordered(index) /\ head' = fork_head
        /\ applied' = SubSeq(applied, 1, IF Len(applied) < block_num[fork_head] THEN Len(applied) ELSE block_num[fork_head])
        /\ task' = Startup(fork_head, applied, reversible', blog')
        /\ fork_head' = fork_head /\ in_current_chain' = in_current_chain /\ crashes' = crashes
    BY Zenon DEF Restart
  <1>3. Basics /\ IdleInv
    BY <1>2, Zenon DEF Inv
  <1>4. /\ IndexOK(index) /\ LogOK(blog) /\ committed \in Nat /\ committed <= Len(blog)
        /\ restarts \in 0..MaxRestarts /\ crashes \in 0..MaxCrashes
    BY <1>3, Zenon DEF Basics
  <1>5. /\ head \in DOMAIN index /\ Valid(head) /\ Enumerates(applied, head) /\ in_current_chain = Marked(index, head)
        /\ Durable(blog, reversible, head) /\ Guarded(blog, head) /\ fork_head = head
        /\ Supreme(index, head) /\ Low(index, Final(head)) /\ head \in Blocks
    BY <1>3, <1>4, Zenon DEF IdleInv, OnHead, IndexOK
  <1>6. /\ LogOK(blog') /\ Durable(blog', reversible', head) /\ Guarded(blog', head)
        /\ committed' \in Nat /\ committed' <= Len(blog')
    <2>1. CASE blog' = blog /\ committed' = committed /\ reversible' = reversible
      BY <1>4, <1>5, <2>1, Zenon
    <2>2. ASSUME NEW s \in Oldest(index, in_current_chain), CanLog(s), on_irreversible(s, {}, committed)
          PROVE  /\ LogOK(blog') /\ Durable(blog', reversible', head) /\ Guarded(blog', head)
                 /\ committed' \in Nat /\ committed' <= Len(blog')
      <3>1. s \in Chain[head] /\ block_num[s] <= Final(head) /\ s \in Blocks
        <4>1. Marked(index, head) \subseteq in_current_chain
          BY <1>5, Zenon
        <4>2. \A x \in in_current_chain \cap DOMAIN index : x \in Chain[head]
          BY <1>5, Zenon DEF Marked
        <4> QED BY <1>4, <1>5, <4>1, <4>2, OldestOnChain, Zenon
      <3>2. /\ LogOK(Logged(s)) /\ Len(Logged(s)) >= Len(blog) /\ Len(Logged(s)) >= block_num[s]
            /\ Durable(Logged(s), {r \in reversible : block_num[r] > block_num[s]}, head)
            /\ Guarded(Logged(s), head)
        BY <1>1, <1>4, <1>5, <2>2, <3>1, LogFacts, Zenon
      <3>3. blog' = Logged(s) /\ committed' = Committed(s, committed) /\ reversible' = Later(s, {})
        BY <2>2, Zenon DEF on_irreversible
      <3>4. Later(s, {}) = {r \in reversible : block_num[r] > block_num[s]}
        BY Zenon DEF Later
      <3>5. /\ Len(applied) \in Nat /\ block_num[s] \in Nat /\ Len(blog) \in Nat
            /\ Len(Logged(s)) \in Nat
        BY <1>4, <1>5, <3>1, <3>2, EnumeratesAll, BlockFacts, Zenon DEF LogOK
      <3>6. Committed(s, committed) \in Nat /\ Committed(s, committed) <= Len(Logged(s))
        BY <1>4, <3>2, <3>5 DEF Committed
      <3> QED BY <3>2, <3>3, <3>4, <3>6, Zenon
    <2> QED BY <1>2, <2>1, <2>2, Zenon
  <1>7. IndexOK(index') /\ DOMAIN index' = DOMAIN index
    BY <1>2, <1>4, ReorderedFacts, Zenon
  <1>8. applied' = applied /\ head' = head
    BY <1>2, <1>5, EnumeratesSame, Zenon
  <1>9. Invalid = {}
    BY <1>1, <1>2, <1>4, RestartsAssumption DEF TiesKeepOrder
  <1>10. OnHead(index', in_current_chain', applied', head)
    BY <1>2, <1>5, <1>7, <1>8, Zenon DEF OnHead, Marked
  <1>11. Supreme(index', head) /\ Leads(index', head, head) /\ Low(index', Final(head))
    BY <1>5, <1>7, <1>9, Zenon DEF Supreme, Leads, Low
  <1>12. task' = Idle
    <2>1. Len(blog') \in Nat
      BY <1>6, EnumeratesAll, Zenon DEF LogOK
    <2>2. Len(blog') <= block_num[head]
      BY <1>5, <1>6, DurableAll, Zenon
    <2>3. InitAccepts(head, applied, reversible', blog')
      BY <1>5, <1>6, <2>1, <2>2, InitAcceptsDurable, Zenon
    <2>4. ~(Len(blog') > block_num[head])
      BY <1>5, <2>1, <2>2, BlockFacts
    <2> QED BY <1>2, <1>5, <2>3, <2>4, Zenon DEF Startup
  <1>13. /\ task'.phase = "idle"
         /\ task' \in [phase : Phases, from : Blocks, to : Blocks, base : Blocks]
    BY <1>12, TreeAssumption, Zenon DEF Idle, Phases
  <1>14. IdleInv'
    BY <1>2, <1>5, <1>6, <1>8, <1>10, <1>11, Zenon DEF IdleInv
  <1>15. restarts' \in 0..MaxRestarts
    BY <1>2, <1>4, RestartsAssumption
  <1>16. Basics'
    BY <1>2, <1>4, <1>5, <1>6, <1>7, <1>13, <1>15, Zenon DEF Basics
  <1> QED BY <1>8, <1>13, <1>14, <1>16, Zenon DEF Inv

-----------------------------------------------------------------------------
(* The theorems *)

(* The node does not crash in the middle of a fork switch, or the blocks    *)
(* are such that it may.                                                    *)
CrashOK == NoOvertaking \/ (Switching => crashes' = crashes)
CrashSafe == [][CrashOK]_vars

(* Every step keeps the invariant.                                          *)
LEMMA NextStep ==
  ASSUME Counting, WellBehaved, Inv, Next, CrashOK
  PROVE  Inv'
  <1>1. ASSUME NEW b \in Blocks, PushBlock(b) PROVE Inv'
    BY <1>1, PushStep, Zenon
  <1>2. ASSUME NEW b \in Blocks, ProduceBlock(b) PROVE Inv'
    BY <1>2, ProduceStep, Zenon
  <1>3. ASSUME NEW b \in Blocks, CrashInLog(b) PROVE Inv'
    BY <1>3, CrashInLogStep, Zenon
  <1>4. ASSUME NEW b \in Blocks, ReplayBlock(b) PROVE Inv'
    BY <1>4, ReplayBlockStep, Zenon
  <1>5. CASE StayOnHead
    BY <1>5, StayStep, Zenon
  <1>6. CASE ExtendHead
    BY <1>6, ExtendStep, Zenon
  <1>7. CASE SwitchForks
    BY <1>7, SwitchStep, Zenon
  <1>8. CASE PopBlock
    BY <1>8, PopStep, Zenon
  <1>9. CASE ApplyBranch
    BY <1>9, ApplyBranchStep, Zenon
  <1>10. CASE RestoreBranch
    BY <1>10, RestoreStep, Zenon
  <1>11. CASE Restart
    BY <1>11, RestartStep, Zenon
  <1>12. CASE Crash
    <2>1. crashes' # crashes
      <3>1. crashes \in Nat /\ crashes' = crashes + 1
        BY <1>12, RestartsAssumption DEF Inv, Basics, Crash, StartOver
      <3> QED BY <3>1
    <2> QED BY <1>12, <2>1, CrashStep, Zenon DEF CrashOK
  <1>13. CASE ReplayEnd
    BY <1>13, ReplayEndStep, Zenon
  <1> QED
    BY <1>1, <1>2, <1>3, <1>4, <1>5, <1>6, <1>7, <1>8, <1>9, <1>10, <1>11, <1>12, <1>13, Zenon DEF Next

(* The same for a step that changes nothing.                                *)
LEMMA StutterStep ==
  ASSUME Inv, UNCHANGED vars
  PROVE  Inv'
  <1>1. /\ index' = index /\ fork_head' = fork_head /\ in_current_chain' = in_current_chain /\ head' = head
        /\ applied' = applied /\ committed' = committed /\ reversible' = reversible /\ blog' = blog
        /\ task' = task /\ restarts' = restarts /\ crashes' = crashes
    BY Zenon DEF vars, forkdb, ledger, stops
  <1>2. Basics' <=> Basics
    BY <1>1, Zenon DEF Basics
  <1>3. (IdleInv' <=> IdleInv) /\ (ChooseInv' <=> ChooseInv)
    BY <1>1, Zenon DEF IdleInv, ChooseInv, Known
  <1>4. SwitchInv' <=> SwitchInv
    BY <1>1, Zenon DEF SwitchInv, Known
  <1>5. (ForwardInv' <=> ForwardInv) /\ (BackInv' <=> BackInv)
    BY <1>1, <1>4, Zenon DEF ForwardInv, BackInv
  <1>6. /\ PoppingInv' <=> PoppingInv
        /\ ApplyingInv' <=> ApplyingInv
        /\ UnwindingInv' <=> UnwindingInv
        /\ RestoringInv' <=> RestoringInv
    BY <1>1, <1>5, Zenon DEF PoppingInv, ApplyingInv, UnwindingInv, RestoringInv
  <1>7. (ReplayInv' <=> ReplayInv) /\ (DownInv' <=> DownInv)
    BY <1>1, Zenon DEF ReplayInv, DownInv, Known
  <1> QED BY <1>1, <1>2, <1>3, <1>6, <1>7, Zenon DEF Inv

(* The stores and the head at every step but a replay.                      *)
LEMMA OutsideReplay ==
  ASSUME Counting, Inv, task.phase \notin {"replay", "down"}
  PROVE  /\ OnHead(index, in_current_chain, applied, head) /\ Durable(blog, reversible, head)
         /\ head \in Known /\ fork_head \in Blocks /\ Top(blog) \in Chain[fork_head]
  <1>1. Basics /\ task.phase \in Phases
    BY Zenon DEF Inv, Basics
  <1>2. /\ OnHead(index, in_current_chain, applied, head) /\ Durable(blog, reversible, head)
        /\ Top(blog) \in Chain[fork_head]
    <2>1. CASE task.phase = "idle"
      BY <2>1, Zenon DEF Inv, IdleInv, Durable
    <2>2. CASE task.phase = "choose"
      <3>1. ChooseInv
        BY <2>2, Zenon DEF Inv
      <3>2. /\ Guarded(blog, head) /\ Supreme(index, fork_head) /\ head \in DOMAIN index /\ fork_head \in Blocks
        BY <1>1, <3>1, Zenon DEF ChooseInv, OnHead, Basics
      <3>3. ~Outranks(head, fork_head)
        BY <3>2, Zenon DEF Supreme
      <3> QED BY <3>1, <3>2, <3>3, Zenon DEF ChooseInv, Guarded
    <2>3. CASE task.phase \in {"popping", "applying"}
      <3>1. ForwardInv /\ SwitchInv
        BY <2>3, Zenon DEF Inv, PoppingInv, ApplyingInv, ForwardInv
      <3>2. task.to \in Blocks /\ task.base \in Chain[task.to] /\ Top(blog) \in Chain[task.base]
        BY <1>1, <3>1, Zenon DEF Basics, SwitchInv, Forked
      <3>3. Top(blog) \in Chain[task.to]
        BY <3>2, ChainDown, Zenon
      <3> QED BY <3>1, <3>3, Zenon DEF ForwardInv, SwitchInv
    <2>4. CASE task.phase \in {"unwinding", "restoring"}
      <3>1. BackInv /\ SwitchInv
        BY <2>4, Zenon DEF Inv, UnwindingInv, RestoringInv, BackInv
      <3>2. task.from \in Blocks /\ task.base \in Chain[task.from] /\ Top(blog) \in Chain[task.base]
        BY <1>1, <3>1, Zenon DEF Basics, SwitchInv, Forked
      <3>3. Top(blog) \in Chain[task.from]
        BY <3>2, ChainDown, Zenon
      <3> QED BY <3>1, <3>3, Zenon DEF BackInv, SwitchInv
    <2> QED BY <1>1, <2>1, <2>2, <2>3, <2>4, Zenon DEF Phases
  <1> QED BY <1>1, <1>2, Zenon DEF Basics, OnHead, Known

(* What the invariant says about each property.                             *)
LEMMA InvGives ==
  ASSUME Counting, Inv
  PROVE  /\ TypeOK /\ StateMatchesHead /\ LogIsFinal /\ ChainIsDurable /\ AtRest
         /\ IndexConnected /\ CanPop /\ StartsAgain
  <1>1. /\ Basics /\ IndexOK(index) /\ Known \subseteq Blocks /\ LogOK(blog) /\ task.phase \in Phases
        /\ Top(blog) \in Blocks /\ blog \in Seq(Blocks) /\ task.to \in Blocks
    BY Zenon DEF Inv, Basics, IndexOK, Known, LogOK, Enumerates
  <1>2. ASSUME task.phase # "down"
        PROVE  /\ OnHead(index, in_current_chain, applied, head) /\ head \in Known /\ head \in Blocks
               /\ \E h \in Blocks : Durable(blog, reversible, h)
    <2>1. CASE task.phase = "replay"
      BY <1>1, <2>1, Zenon DEF Inv, ReplayInv, OnHead, Known
    <2>2. CASE task.phase # "replay"
      <3>1. OnHead(index, in_current_chain, applied, head) /\ Durable(blog, reversible, head) /\ head \in Known
        BY <1>2, <2>2, OutsideReplay, Zenon
      <3> QED BY <1>1, <3>1, Zenon
    <2> QED BY <2>1, <2>2, Zenon
  <1>3. TypeOK
    <2>1. /\ head \in Blocks /\ applied \in Seq(Blocks) /\ reversible \subseteq Blocks /\ in_current_chain \subseteq Known
      <3>1. CASE task.phase = "down"
        BY <3>1, Zenon DEF Inv, DownInv
      <3>2. CASE task.phase # "down"
        <4>1. PICK h \in Blocks : Durable(blog, reversible, h)
          BY <1>2, <3>2, Zenon
        <4>2. reversible \subseteq Blocks
          BY <4>1, BlockFacts, Zenon DEF Durable
        <4> QED BY <1>2, <3>2, <4>2, Zenon DEF OnHead, Enumerates, Marked, Known
      <3> QED BY <3>1, <3>2, Zenon
    <2> QED BY <1>1, <2>1, Zenon DEF TypeOK, Basics, IndexOK, Known
  <1>4. StateMatchesHead
    <2> SUFFICES ASSUME task.phase # "down"
                 PROVE  Len(applied) = block_num[head] /\ ToSet(applied) = Chain[head]
      BY Zenon DEF StateMatchesHead
    <2>1. head \in Blocks /\ Enumerates(applied, head)
      BY <1>2, Zenon DEF OnHead
    <2> QED BY <2>1, EnumeratesAll, Zenon DEF Enumerates
  <1>5. ASSUME task.phase \notin {"replay", "down"}
        PROVE  /\ ToSet(blog) \cup reversible = Chain[head]
               /\ ToSet(blog) \subseteq Chain[head] \cap Chain[fork_head]
    <2>1. Durable(blog, reversible, head) /\ head \in Blocks /\ fork_head \in Blocks /\ Top(blog) \in Chain[fork_head]
      BY <1>1, <1>5, OutsideReplay, Zenon
    <2>2. ToSet(blog) \cup reversible = Chain[head]
      BY <1>1, <2>1, DurableAll, Zenon
    <2>3. ToSet(blog) = Chain[Top(blog)]
      BY <1>1, EnumeratesAll, Zenon DEF LogOK
    <2>4. Chain[Top(blog)] \subseteq Chain[fork_head]
      BY <2>1, ChainDown, Zenon
    <2> QED BY <2>2, <2>3, <2>4, Zenon
  <1>6. LogIsFinal /\ ChainIsDurable
    BY <1>5, Zenon DEF LogIsFinal, ChainIsDurable
  <1>7. AtRest
    BY Zenon DEF Inv, IdleInv, OnHead, AtRest, Marked, Known
  <1>8. IndexConnected
    <2> SUFFICES ASSUME NEW b \in Known, NEW c \in Known, block_num[b] > block_num[c]
                 PROVE  previous[b] \in Known
      BY Zenon DEF IndexConnected
    <2>1. b \in Blocks /\ c \in Blocks /\ block_num[b] \in Nat /\ block_num[c] \in Nat \ {0}
      BY <1>1, BlockFacts, Zenon
    <2>2. b # Genesis
      BY <2>1, BlockFacts
    <2>3. previous[b] \in Chain[b] /\ block_num[c] <= block_num[previous[b]]
      BY <2>1, <2>2, BlockFacts, ChainDown
    <2> QED BY <1>1, <2>3, Zenon DEF IndexOK, Closed, Known
  <1>9. CanPop
    <2>1. ASSUME task.phase \in {"popping", "unwinding"} PROVE previous[head] \in Known
      <3>1. SwitchInv /\ head # task.base
        BY <2>1, Zenon DEF Inv, PoppingInv, UnwindingInv, ForwardInv, BackInv
      <3>2. head \in Known /\ head \in Blocks /\ task.base \in Known /\ task.base \in Chain[head]
        BY <1>1, <3>1, Zenon DEF SwitchInv, OnHead, Known
      <3>3. task.base \in Chain[previous[head]] /\ previous[head] \in Chain[head]
        BY <3>1, <3>2, BlockFacts, ChainDown, Zenon
      <3> QED BY <1>1, <3>2, <3>3, AboveBase, Zenon
    <2>2. committed <= Len(blog)
      BY <1>1, Zenon DEF Basics
    <2> QED BY <2>1, <2>2, Zenon DEF CanPop
  <1>10. StartsAgain
    <2> SUFFICES ASSUME Len(blog) > 1, task.phase = "down"
                 PROVE  FALSE
      BY Zenon DEF StartsAgain, NeverDown
    <2>1. Len(blog) = 1
      BY Zenon DEF Inv, DownInv
    <2> QED BY <2>1
  <1> QED BY <1>3, <1>4, <1>6, <1>7, <1>8, <1>9, <1>10, Zenon

(* A replay that ends has brought back the head.                            *)
LEMMA ReplayEnds ==
  ASSUME Counting, WellBehaved, Inv, [Next]_vars, task.phase = "replay", task'.phase = "idle"
  PROVE  head' = task.to
  <1>1. CASE UNCHANGED vars
    BY <1>1, Zenon DEF vars
  <1>2. ASSUME NEW b \in Blocks, ReplayBlock(b) PROVE FALSE
    BY <1>2, ReplayBlockStep, Zenon
  <1>3. CASE ReplayEnd
    BY <1>3, ReplayEndStep, Zenon
  <1>4. CASE StayOnHead \/ ExtendHead \/ SwitchForks \/ PopBlock \/ ApplyBranch \/ RestoreBranch \/ Restart \/ Crash
    BY <1>4, Zenon DEF StayOnHead, ExtendHead, SwitchForks, PopBlock, ApplyBranch, RestoreBranch, Restart, Crash
  <1>5. ASSUME NEW b \in Blocks, PushBlock(b) \/ ProduceBlock(b) \/ CrashInLog(b) PROVE FALSE
    BY <1>5, Zenon DEF PushBlock, ProduceBlock, CrashInLog
  <1> QED BY <1>1, <1>2, <1>3, <1>4, <1>5, Zenon DEF Next

(* A push_block ends on the block it came from or on a better one.          *)
LEMMA PushEnds ==
  ASSUME Counting,
         WellBehaved, Inv, [Next]_vars, task.phase \notin {"idle", "replay"}, task'.phase = "idle", UNCHANGED stops
  PROVE  ~Outranks(task.from, head') /\ task.from \in Blocks /\ head' \in Blocks
  <1>1. /\ Basics /\ IndexOK(index) /\ task.from \in Blocks /\ task.to \in Blocks /\ fork_head \in Blocks
        /\ crashes \in Nat /\ crashes' = crashes
    BY RestartsAssumption DEF Inv, Basics, stops
  <1>2. ASSUME task.phase = "choose" PROVE task.from = head /\ head \in Blocks
    BY <1>1, <1>2, Zenon DEF Inv, ChooseInv, OnHead, IndexOK
  <1>3. ~Outranks(task.from, task.from)
    BY <1>1, RankFacts, Zenon
  <1>4. CASE UNCHANGED vars
    BY <1>4, Zenon DEF vars
  <1>5. CASE StayOnHead
    BY <1>1, <1>2, <1>3, <1>5, Zenon DEF StayOnHead
  <1>6. CASE ExtendHead
    <2>1. head' = head \/ (head' = fork_head /\ Outranks(head', head))
      <3>1. head' = head \/ head' = fork_head
        BY <1>6, Zenon DEF ExtendHead, apply_block, drop_invalid
      <3> QED BY <1>6, <3>1, ExtendStep, Zenon
    <2>2. task.from = head /\ head \in Blocks
      BY <1>2, <1>6, Zenon DEF ExtendHead
    <2> QED BY <1>1, <1>3, <2>1, <2>2, RankFacts, Zenon
  <1>7. CASE SwitchForks
    BY <1>7, SwitchStep, Zenon
  <1>8. CASE PopBlock
    BY <1>8, PopStep, Zenon
  <1>9. CASE ApplyBranch
    BY <1>1, <1>9, ApplyBranchStep, Zenon
  <1>10. CASE RestoreBranch
    BY <1>1, <1>3, <1>10, RestoreStep, Zenon
  <1>11. CASE Crash
    BY <1>1, <1>11 DEF Crash, StartOver
  <1>12. CASE Restart \/ ReplayEnd
    BY <1>12, Zenon DEF Restart, ReplayEnd
  <1>13. ASSUME NEW b \in Blocks, PushBlock(b) \/ ProduceBlock(b) \/ CrashInLog(b) \/ ReplayBlock(b) PROVE FALSE
    BY <1>13, Zenon DEF PushBlock, ProduceBlock, CrashInLog, ReplayBlock
  <1> QED BY <1>4, <1>5, <1>6, <1>7, <1>8, <1>9, <1>10, <1>11, <1>12, <1>13, Zenon DEF Next

(* HeadNeverWorse for one step.                                             *)
LEMMA PushEndsWell ==
  ASSUME Counting, WellBehaved, Inv, [Next]_vars,
         task.phase \notin {"idle", "replay"}, task'.phase = "idle", UNCHANGED stops
  PROVE  \/ dpos_irreversible[head'] > dpos_irreversible[task.from]
         \/ /\ dpos_irreversible[head'] = dpos_irreversible[task.from]
            /\ block_num[head'] >= block_num[task.from]
  <1>1. ~Outranks(task.from, head') /\ task.from \in Blocks /\ head' \in Blocks
    BY PushEnds, Zenon
  <1>2. /\ dpos_irreversible[head'] \in Nat /\ dpos_irreversible[task.from] \in Nat
        /\ block_num[head'] \in Nat /\ block_num[task.from] \in Nat
    BY <1>1, BlockFacts, Zenon
  <1> QED BY <1>1, <1>2 DEF Outranks

-----------------------------------------------------------------------------
(* The results *)

INSTANCE FiniteSetTheorems

(* A table whose values are the numbers up to the size of its domain has    *)
(* every value once.                                                        *)
LEMMA EveryNumberOnce ==
  ASSUME NEW P, IsFiniteSet(P), NEW f, {f[y] : y \in P} = 1..Cardinality(P),
         NEW y \in P, NEW z \in P, y # z
  PROVE  f[y] # f[z]
  <1> DEFINE n == Cardinality(P)
             g == [v \in P |-> f[v]]
  <1>1. n \in Nat
    BY FS_CardinalityType, Zenon
  <1>2. IsFiniteSet(1..n) /\ Cardinality(1..n) = n
    BY <1>1, FS_Interval
  <1> HIDE DEF n
  <1>3. g \in Surjection(P, 1..n)
    <2>1. g \in [P -> 1..n]
      BY Zenon DEF n
    <2>2. \A t \in 1..n : \E v \in P : g[v] = t
      BY Zenon DEF n
    <2> HIDE DEF g
    <2> QED BY <2>1, <2>2, Zenon DEF Surjection
  <1>4. g \in Injection(P, 1..n)
    <2> HIDE DEF g
    <2>1. Cardinality(1..n) = Cardinality(P) <=> g \in Injection(P, 1..n)
      BY <1>3, FS_Surjection, Zenon
    <2> QED BY <1>2, <2>1, Zenon DEF n
  <1>5. g[y] # g[z]
    <2> HIDE DEF g
    <2> QED BY <1>4, Zenon DEF Injection, IsInjective
  <1> QED BY <1>5, Zenon

(* Counting follows from the theorems about finite sets and from the order  *)
(* of the natural numbers being well founded.                               *)
LEMMA CountingHolds == Counting
  <1>1. ASSUME NEW F \in SUBSET Nat, F # {}
        PROVE  \E n \in F : \A m \in F : n <= m
    <2>1. \E n \in F : \A m \in F : ~(<<m, n>> \in OpToRel(<, Nat))
      BY <1>1, NatLessThanWellFounded, WFMin, Zenon
    <2>2. ASSUME NEW n \in F, NEW m \in F, ~(<<m, n>> \in OpToRel(<, Nat))
          PROVE  n <= m
      <3>1. n \in Nat /\ m \in Nat /\ ~(m < n)
        BY <2>2, Zenon DEF OpToRel
      <3> QED BY <3>1
    <2> QED BY <2>1, <2>2, Zenon
  <1>2. \A x : IsFiniteSet({x})
    BY FS_Singleton, Zenon
  <1>3. ASSUME NEW S, IsFiniteSet(S)
        PROVE  /\ Cardinality(S) \in Nat
               /\ \A T \in SUBSET S : IsFiniteSet(T) /\ Cardinality(T) <= Cardinality(S)
               /\ \A x : IsFiniteSet(S \cup {x})
               /\ \A f : {f[y] : y \in S} = 1..Cardinality(S) => \A y, z \in S : y # z => f[y] # f[z]
    <2>1. Cardinality(S) \in Nat
      BY <1>3, FS_CardinalityType, Zenon
    <2>2. \A T \in SUBSET S : IsFiniteSet(T) /\ Cardinality(T) <= Cardinality(S)
      BY <1>3, FS_Subset, Zenon
    <2>3. \A x : IsFiniteSet(S \cup {x})
      BY <1>3, FS_AddElement, Zenon
    <2>4. \A f : {f[y] : y \in S} = 1..Cardinality(S) => \A y, z \in S : y # z => f[y] # f[z]
      BY <1>3, EveryNumberOnce, Zenon
    <2> QED BY <2>1, <2>2, <2>3, <2>4
  <1> QED BY <1>1, <1>2, <1>3, Zenon DEF Counting

(* The invariant holds at every step of every behaviour, whatever blocks    *)
(* arrive in whatever order, and wherever the node is stopped.              *)
THEOREM InvAlways ==
  ASSUME WellBehaved
  PROVE  Spec /\ CrashSafe => []Inv
  <1>1. Inv /\ [Next]_vars /\ [CrashOK]_vars => Inv'
    BY CountingHolds, NextStep, StutterStep, Zenon
  <1>2. Init => Inv
    BY CountingHolds, InitInv, Zenon
  <1> QED BY <1>1, <1>2, PTL DEF Spec, CrashSafe

(* TypeOK: every variable keeps its type, and the flag in_current_chain is  *)
(* only ever set on blocks of the fork database's index.                    *)
THEOREM ControllerTypes ==
  ASSUME WellBehaved
  PROVE  Spec /\ CrashSafe => []TypeOK
  <1>1. Inv => TypeOK
    BY CountingHolds, InvGives, SMTT(20)
  <1> QED BY <1>1, InvAlways, PTL

(* StateMatchesHead: through pushes, fork switches and their reversal,      *)
(* restarts and replays the chain state holds exactly the blocks on the     *)
(* chain of the head, so that start_block's revision check passes.          *)
THEOREM StateFollowsHead ==
  ASSUME WellBehaved
  PROVE  Spec /\ CrashSafe => []StateMatchesHead
  <1>1. Inv => StateMatchesHead
    BY CountingHolds, InvGives, Zenon
  <1> QED BY <1>1, InvAlways, PTL

(* LogIsFinal: neither the head nor the block that fork_database elects     *)
(* ever leaves the block log.                                               *)
THEOREM LogStaysFinal ==
  ASSUME WellBehaved
  PROVE  Spec /\ CrashSafe => []LogIsFinal
  <1>1. Inv => LogIsFinal
    BY CountingHolds, InvGives, SMTT(20)
  <1> QED BY <1>1, InvAlways, PTL

(* ChainIsDurable: at every instant a crash may come the block log and the  *)
(* reversible blocks hold the whole chain of the head, and nothing else.    *)
THEOREM ChainStaysDurable ==
  ASSUME WellBehaved
  PROVE  Spec /\ CrashSafe => []ChainIsDurable
  <1>1. Inv => ChainIsDurable
    BY CountingHolds, InvGives, SMTT(20)
  <1> QED BY <1>1, InvAlways, PTL

(* AtRest: between two calls the controller and the fork database agree on  *)
(* the head, and in_current_chain marks its chain.                          *)
THEOREM RestsOnBest ==
  ASSUME WellBehaved
  PROVE  Spec /\ CrashSafe => []AtRest
  <1>1. Inv => AtRest
    BY CountingHolds, InvGives, SMTT(20)
  <1> QED BY <1>1, InvAlways, PTL

(* IndexConnected: add, prune and remove leave no hole in the index, so     *)
(* that fetch_branch_from always finds the way to the common block.         *)
THEOREM IndexStaysConnected ==
  ASSUME WellBehaved
  PROVE  Spec /\ CrashSafe => []IndexConnected
  <1>1. Inv => IndexConnected
    BY CountingHolds, InvGives, SMTT(20)
  <1> QED BY <1>1, InvAlways, PTL

(* CanPop: pop_block finds the parent of the head at every step of a fork   *)
(* switch, and undo information goes only with a block of the log.          *)
THEOREM PopsSucceed ==
  ASSUME WellBehaved
  PROVE  Spec /\ CrashSafe => []CanPop
  <1>1. Inv => CanPop
    BY CountingHolds, InvGives, SMTT(20)
  <1> QED BY <1>1, InvAlways, PTL

(* StartsAgain: once a block is in the block log no restart, crash or fork  *)
(* switch leaves a node that does not start.                                *)
THEOREM NodeStartsAgain ==
  ASSUME WellBehaved
  PROVE  Spec /\ CrashSafe => []StartsAgain
  <1>1. Inv => StartsAgain
    BY CountingHolds, InvGives
  <1> QED BY <1>1, InvAlways, PTL

(* ReplayRestoresHead: a node that crashed, at whichever step, replays the  *)
(* log and the reversible blocks and is back on the head it had.            *)
THEOREM CrashRestoresHead ==
  ASSUME WellBehaved
  PROVE  Spec /\ CrashSafe => ReplayRestoresHead
  <1>1. Inv /\ [Next]_vars => [task.phase = "replay" /\ task'.phase = "idle" => head' = task.to]_vars
    BY CountingHolds, ReplayEnds, Zenon
  <1> QED BY <1>1, InvAlways, PTL DEF Spec, ReplayRestoresHead

(* HeadNeverWorse: however a push_block ends, by extending the head, by a   *)
(* fork switch, by its reversal or by an exception, the head is not worse.  *)
THEOREM PushNeverWorsens ==
  ASSUME WellBehaved
  PROVE  Spec /\ CrashSafe => HeadNeverWorse
  <1>1. Inv /\ [Next]_vars =>
          [task.phase \notin {"idle", "replay"} /\ task'.phase = "idle" /\ UNCHANGED stops
             => \/ dpos_irreversible[head'] > dpos_irreversible[task.from]
                \/ /\ dpos_irreversible[head'] = dpos_irreversible[task.from]
                   /\ block_num[head'] >= block_num[task.from]]_vars
    BY CountingHolds, PushEndsWell, Zenon
  <1> QED BY <1>1, InvAlways, PTL DEF Spec, HeadNeverWorse

(* Where no abandoned branch overtakes, crashes need no assumption at all:  *)
(* StartsAgain, ChainIsDurable and StateMatchesHead hold whenever the node  *)
(* is stopped, the middle of a fork switch included.                        *)
THEOREM CrashAnywhere ==
  ASSUME WellBehaved, NoOvertaking
  PROVE  Spec => [](StartsAgain /\ ChainIsDurable /\ StateMatchesHead)
  <1>1. [Next]_vars => [CrashOK]_vars
    BY Zenon DEF CrashOK
  <1>2. Inv => StartsAgain /\ ChainIsDurable /\ StateMatchesHead
    BY CountingHolds, InvGives, Zenon
  <1>3. Spec => CrashSafe
    BY <1>1, PTL DEF Spec, CrashSafe
  <1> QED BY <1>2, <1>3, InvAlways, PTL
=============================================================================
