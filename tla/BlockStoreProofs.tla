-------------------------- MODULE BlockStoreProofs --------------------------
(***************************************************************************)
(* What the proofs about Controller rest on: lemmas about the tree of      *)
(* blocks, the ranks and the forks in it, about the index of the fork      *)
(* database, and about the operations on the chain state, the block log    *)
(* and the reversible blocks, add and prune among them.                    *)
(***************************************************************************)
EXTENDS Controller, TLAPS

(* What the lemmas need to know of numbers and of finite sets.  All of it   *)
(* follows from the theorems of FiniteSetTheorems (CountingHolds, module    *)
(* ControllerProofs); as a hypothesis it keeps them out of the obligations. *)
Counting ==
  /\ \A F \in SUBSET Nat : F # {} => \E n \in F : \A m \in F : n <= m
  /\ \A x : IsFiniteSet({x})
  /\ \A S : IsFiniteSet(S) =>
       /\ Cardinality(S) \in Nat
       /\ \A T \in SUBSET S : IsFiniteSet(T) /\ Cardinality(T) <= Cardinality(S)
       /\ \A x : IsFiniteSet(S \cup {x})
       /\ \A f : {f[y] : y \in S} = 1..Cardinality(S) => \A y, z \in S : y # z => f[y] # f[z]

(* A nonempty set of natural numbers has a smallest one.                    *)
LEMMA LeastNumber ==
  ASSUME Counting, NEW F, F \subseteq Nat, F # {}
  PROVE  \E n \in F : \A m \in F : n <= m
  BY Zenon DEF Counting

(* Finite sets: their size, their subsets, and one element more.            *)
LEMMA FiniteFacts ==
  ASSUME Counting, NEW S, IsFiniteSet(S)
  PROVE  /\ Cardinality(S) \in Nat
         /\ \A T \in SUBSET S : IsFiniteSet(T) /\ Cardinality(T) <= Cardinality(S)
         /\ \A x : IsFiniteSet(S \cup {x})
  BY Zenon DEF Counting

(* A nonempty bounded set of natural numbers has a greatest one.            *)
LEMMA GreatestNumber ==
  ASSUME Counting, NEW F, F \subseteq Nat, F # {}, NEW k \in Nat, \A m \in F : m <= k
  PROVE  \E n \in F : \A m \in F : m <= n
  <1> DEFINE bounds == {n \in Nat : \A m \in F : m <= n}
  <1>1. bounds # {} /\ bounds \subseteq Nat
    BY Zenon
  <1>2. PICK n \in bounds : \A m \in bounds : n <= m
    <2> HIDE DEF bounds
    <2> QED BY <1>1, LeastNumber, Zenon
  <1>3. n \in F
    <2>1. SUFFICES ASSUME n \notin F PROVE FALSE
      BY Zenon
    <2>2. \A m \in F : m <= n - 1
      BY <1>2, <2>1
    <2>3. n - 1 \in Nat
      <3>1. PICK m \in F : TRUE
        BY Zenon
      <3> QED BY <1>2, <2>2, <3>1
    <2> QED BY <1>2, <2>2, <2>3
  <1> QED BY <1>2, <1>3, Zenon

-----------------------------------------------------------------------------
(* The tree of blocks *)

(* A set that has the genesis block and every block built on one of its     *)
(* blocks has all blocks.                                                   *)
LEMMA TreeInduction ==
  ASSUME Counting, NEW S, Genesis \in S,
         \A b \in Blocks \ {Genesis} : previous[b] \in S => b \in S
  PROVE  \A b \in Blocks : b \in S
  <1> SUFFICES ASSUME NEW a \in Blocks, a \notin S PROVE FALSE
    BY Zenon
  <1> DEFINE nums == {block_num[b] : b \in Blocks \ S}
  <1>1. nums \subseteq Nat /\ nums # {}
    BY TreeAssumption
  <1>2. PICK n \in nums : \A m \in nums : n <= m
    <2> HIDE DEF nums
    <2> QED BY <1>1, LeastNumber, Zenon
  <1>3. PICK b \in Blocks \ S : block_num[b] = n
    BY <1>2, Zenon
  <1>4. b # Genesis /\ previous[b] \in Blocks \ S /\ block_num[b] = block_num[previous[b]] + 1
    BY <1>3, TreeAssumption
  <1>5. block_num[previous[b]] \in nums
    BY <1>4, Zenon
  <1>6. block_num[previous[b]] \in Nat
    BY <1>4, TreeAssumption
  <1> HIDE DEF nums
  <1> QED BY <1>2, <1>3, <1>4, <1>5, <1>6

(* The facts about one block.                                               *)
LEMMA BlockFacts ==
  ASSUME Counting, NEW b \in Blocks
  PROVE  /\ block_num[b] \in Nat \ {0} /\ previous[b] \in Blocks
         /\ dpos_irreversible[b] \in Nat /\ dpos_irreversible[b] < block_num[b]
         /\ b \in Chain[b] /\ Chain[b] \subseteq Blocks
         /\ b # Genesis => /\ block_num[b] = block_num[previous[b]] + 1
                           /\ block_num[previous[b]] \in Nat \ {0}
                           /\ Chain[b] = {b} \cup Chain[previous[b]]
         /\ block_num[b] = 1 <=> b = Genesis
  <1> DEFINE S == {x \in Blocks : block_num[x] # 0}
  <1>1. \A x \in Blocks : x \in S
    <2>1. Genesis \in S
      BY TreeAssumption
    <2>2. ASSUME NEW x \in Blocks \ {Genesis}, previous[x] \in S PROVE x \in S
      BY <2>2, TreeAssumption
    <2> HIDE DEF S
    <2> QED BY <2>1, <2>2, TreeInduction, Zenon
  <1>2. block_num[b] \in Nat \ {0} /\ previous[b] \in Blocks /\ block_num[previous[b]] \in Nat \ {0}
    BY <1>1, TreeAssumption, Zenon
  <1>3. CASE b = Genesis
    BY <1>2, <1>3, TreeAssumption
  <1>4. CASE b # Genesis
    <2>1. /\ block_num[b] = block_num[previous[b]] + 1 /\ Chain[b] = {b} \cup Chain[previous[b]]
          /\ dpos_irreversible[b] \in Nat /\ dpos_irreversible[b] < block_num[b]
          /\ Chain[b] \subseteq Blocks
      BY <1>4, TreeAssumption, Zenon
    <2> QED BY <1>2, <1>4, <2>1
  <1> QED BY <1>3, <1>4, Zenon

(* Every chain starts at the genesis block.                                 *)
LEMMA GenesisInChain ==
  ASSUME Counting, NEW b \in Blocks
  PROVE  Genesis \in Chain[b]
  <1> DEFINE S == {x \in Blocks : Genesis \in Chain[x]}
  <1>1. Genesis \in S
    BY TreeAssumption, Zenon
  <1>2. ASSUME NEW x \in Blocks \ {Genesis}, previous[x] \in S PROVE x \in S
    BY <1>2, BlockFacts, Zenon
  <1>3. \A x \in Blocks : x \in S
    <2> HIDE DEF S
    <2> QED BY <1>1, <1>2, TreeInduction, Zenon
  <1> QED BY <1>3, Zenon

(* A chain holds the chains of its blocks, which are lower than its last.   *)
LEMMA ChainDown ==
  ASSUME Counting, NEW b \in Blocks, NEW c \in Chain[b]
  PROVE  /\ c \in Blocks /\ Chain[c] \subseteq Chain[b] /\ previous[c] \in Chain[b]
         /\ block_num[c] <= block_num[b] /\ (block_num[c] = block_num[b] => c = b)
         /\ c # b => b # Genesis /\ c \in Chain[previous[b]]
  <1> DEFINE Down(x, y) == /\ Chain[y] \subseteq Chain[x] /\ previous[y] \in Chain[x]
                           /\ block_num[y] <= block_num[x] /\ (block_num[y] = block_num[x] => y = x)
             S == {x \in Blocks : \A y \in Chain[x] : Down(x, y)}
  <1>1. Genesis \in S
    BY TreeAssumption
  <1>2. ASSUME NEW x \in Blocks \ {Genesis}, previous[x] \in S PROVE x \in S
    <2>1. /\ Chain[x] = {x} \cup Chain[previous[x]] /\ block_num[x] = block_num[previous[x]] + 1
          /\ previous[x] \in Chain[previous[x]] /\ previous[x] \in Blocks
          /\ block_num[x] \in Nat /\ block_num[previous[x]] \in Nat
      BY BlockFacts, Zenon
    <2>2. ASSUME NEW y \in Chain[x] PROVE Down(x, y)
      <3>1. CASE y = x
        BY <2>1, <3>1
      <3>2. CASE y \in Chain[previous[x]]
        <4>1. Down(previous[x], y) /\ y \in Blocks
          BY <1>2, <2>1, <3>2, BlockFacts, Zenon
        <4>2. block_num[y] \in Nat
          BY <4>1, BlockFacts, Zenon
        <4> QED BY <2>1, <4>1, <4>2
      <3> QED BY <2>1, <3>1, <3>2, Zenon
    <2> QED BY <2>2, Zenon
  <1>3. \A x \in Blocks : x \in S
    <2> HIDE DEF S
    <2> QED BY <1>1, <1>2, TreeInduction, Zenon
  <1>4. Down(b, c)
    BY <1>3, Zenon
  <1>5. c \in Blocks /\ (c # b => b # Genesis /\ c \in Chain[previous[b]])
    BY BlockFacts, TreeAssumption
  <1> QED BY <1>4, <1>5, Zenon

(* Of two blocks of a chain the lower one is on the chain of the other.     *)
LEMMA ChainLinear ==
  ASSUME Counting, NEW b \in Blocks, NEW c \in Chain[b], NEW d \in Chain[b], block_num[c] <= block_num[d]
  PROVE  c \in Chain[d]
  <1> DEFINE Lin(x) == \A y, z \in Chain[x] : block_num[y] <= block_num[z] => y \in Chain[z]
             S == {x \in Blocks : Lin(x)}
  <1>1. Genesis \in S
    BY TreeAssumption, Zenon
  <1>2. ASSUME NEW x \in Blocks \ {Genesis}, previous[x] \in S PROVE x \in S
    <2>1. /\ Chain[x] = {x} \cup Chain[previous[x]] /\ block_num[x] = block_num[previous[x]] + 1
          /\ previous[x] \in Blocks
          /\ block_num[x] \in Nat /\ block_num[previous[x]] \in Nat
      BY BlockFacts, Zenon
    <2>2. ASSUME NEW y \in Chain[x], NEW z \in Chain[x], block_num[y] <= block_num[z]
          PROVE  y \in Chain[z]
      <3>1. CASE z = x
        BY <3>1, Zenon
      <3>2. CASE z # x /\ y = x
        <4>1. z \in Chain[previous[x]]
          BY <2>1, <3>2, Zenon
        <4>2. block_num[z] <= block_num[previous[x]] /\ z \in Blocks
          BY <2>1, <4>1, ChainDown, Zenon
        <4>3. block_num[z] \in Nat
          BY <4>2, BlockFacts, Zenon
        <4> QED BY <2>1, <2>2, <3>2, <4>2, <4>3
      <3>3. CASE z # x /\ y # x
        BY <1>2, <2>1, <2>2, <3>3, Zenon
      <3> QED BY <3>1, <3>2, <3>3, Zenon
    <2> QED BY <2>2, Zenon
  <1>3. \A x \in Blocks : x \in S
    <2> HIDE DEF S
    <2> QED BY <1>1, <1>2, TreeInduction, Zenon
  <1> QED BY <1>3, Zenon

(* A chain has one block of each number.                                    *)
LEMMA ChainUnique ==
  ASSUME Counting, NEW b \in Blocks, NEW c \in Chain[b], NEW d \in Chain[b], block_num[c] = block_num[d]
  PROVE  c = d
  <1>1. c \in Blocks /\ d \in Blocks
    BY ChainDown, Zenon
  <1>2. block_num[c] \in Nat /\ block_num[d] \in Nat
    BY <1>1, BlockFacts, Zenon
  <1>3. c \in Chain[d]
    BY <1>2, ChainLinear
  <1> QED BY <1>1, <1>3, ChainDown, Zenon

(* A chain has no gap.                                                      *)
LEMMA ChainHas ==
  ASSUME Counting, NEW b \in Blocks, NEW n \in Nat \ {0}, n <= block_num[b]
  PROVE  \E c \in Chain[b] : block_num[c] = n
  <1> DEFINE S == {x \in Blocks : \A m \in Nat \ {0} : m <= block_num[x] => \E c \in Chain[x] : block_num[c] = m}
  <1>1. Genesis \in S
    BY TreeAssumption
  <1>2. ASSUME NEW x \in Blocks \ {Genesis}, previous[x] \in S PROVE x \in S
    <2>1. /\ Chain[x] = {x} \cup Chain[previous[x]] /\ block_num[x] = block_num[previous[x]] + 1
          /\ block_num[x] \in Nat /\ block_num[previous[x]] \in Nat
      BY BlockFacts, Zenon
    <2>2. ASSUME NEW m \in Nat \ {0}, m <= block_num[x] PROVE \E c \in Chain[x] : block_num[c] = m
      <3>1. CASE m = block_num[x]
        BY <2>1, <3>1, Zenon
      <3>2. CASE m # block_num[x]
        <4>1. m <= block_num[previous[x]]
          BY <2>1, <2>2, <3>2
        <4> QED BY <1>2, <2>1, <4>1, Zenon
      <3> QED BY <3>1, <3>2, Zenon
    <2> QED BY <2>2, Zenon
  <1>3. \A x \in Blocks : x \in S
    <2> HIDE DEF S
    <2> QED BY <1>1, <1>2, TreeInduction, Zenon
  <1> QED BY <1>3, Zenon

(* The successor on a chain of a block that is not its last one.            *)
LEMMA ChainNext ==
  ASSUME Counting, NEW b \in Blocks, NEW c \in Chain[b], c # b
  PROVE  \E n \in Chain[b] : /\ previous[n] = c /\ n # c /\ n # Genesis
                             /\ block_num[n] = block_num[c] + 1
  <1>1. c \in Blocks /\ block_num[c] <= block_num[b] /\ block_num[c] # block_num[b]
    BY ChainDown, Zenon
  <1>2. block_num[c] \in Nat \ {0} /\ block_num[b] \in Nat
    BY <1>1, BlockFacts, Zenon
  <1>3. PICK n \in Chain[b] : block_num[n] = block_num[c] + 1
    <2>1. block_num[c] + 1 \in Nat \ {0} /\ block_num[c] + 1 <= block_num[b]
      BY <1>1, <1>2
    <2> QED BY <2>1, ChainHas, Zenon
  <1>4. n \in Blocks /\ previous[n] \in Chain[b]
    BY <1>3, ChainDown, Zenon
  <1>5. n # Genesis /\ n # c
    BY <1>2, <1>3, <1>4, BlockFacts
  <1>6. block_num[previous[n]] = block_num[c]
    <2>1. block_num[n] = block_num[previous[n]] + 1 /\ block_num[previous[n]] \in Nat
      BY <1>4, <1>5, BlockFacts, Zenon
    <2> QED BY <1>2, <1>3, <2>1
  <1>7. previous[n] = c
    BY <1>4, <1>6, ChainUnique, Zenon
  <1> QED BY <1>3, <1>5, <1>7, Zenon

-----------------------------------------------------------------------------
(* Ranks and forks *)

(* What the irreversible numbers of two blocks say about their order.       *)
LEMMA RankFacts ==
  ASSUME Counting, NEW x \in Blocks, NEW y \in Blocks
  PROVE  /\ Outranks(x, y) \/ Outranks(y, x) \/ SameRank(x, y)
         /\ ~(Outranks(x, y) /\ Outranks(y, x))
         /\ Outranks(x, y) => ~SameRank(x, y) /\ x # y /\ dpos_irreversible[x] >= dpos_irreversible[y]
         /\ ~Outranks(y, x) => dpos_irreversible[x] >= dpos_irreversible[y]
         /\ Final(x) \in Nat \ {0} /\ dpos_irreversible[x] <= Final(x) /\ Final(x) <= block_num[x]
         /\ dpos_irreversible[x] >= dpos_irreversible[y] => Final(x) >= Final(y)
  <1>1. /\ dpos_irreversible[x] \in Nat /\ dpos_irreversible[y] \in Nat
        /\ block_num[x] \in Nat \ {0} /\ block_num[y] \in Nat \ {0}
        /\ dpos_irreversible[x] < block_num[x]
    BY BlockFacts, Zenon
  <1> QED BY <1>1 DEF Outranks, SameRank, Final

(* The order is transitive, with ties.                                      *)
LEMMA OutranksTransitive ==
  ASSUME Counting, NEW x \in Blocks, NEW y \in Blocks, NEW z \in Blocks, Outranks(x, y), ~Outranks(z, y)
  PROVE  Outranks(x, z)
  <1>1. /\ dpos_irreversible[x] \in Nat /\ dpos_irreversible[y] \in Nat /\ dpos_irreversible[z] \in Nat
        /\ block_num[x] \in Nat /\ block_num[y] \in Nat /\ block_num[z] \in Nat
    BY BlockFacts, Zenon
  <1> QED BY <1>1 DEF Outranks

(* The same with the tie first.                                             *)
LEMMA TieOutranks ==
  ASSUME Counting, NEW x \in Blocks, NEW y \in Blocks, NEW z \in Blocks, ~Outranks(y, x), Outranks(y, z)
  PROVE  Outranks(x, z)
  <1>1. /\ dpos_irreversible[x] \in Nat /\ dpos_irreversible[y] \in Nat /\ dpos_irreversible[z] \in Nat
        /\ block_num[x] \in Nat /\ block_num[y] \in Nat /\ block_num[z] \in Nat
    BY BlockFacts, Zenon
  <1> QED BY <1>1 DEF Outranks

(* by_lib_block_num in these terms.                                         *)
LEMMA BeforeFacts ==
  ASSUME NEW idx, NEW x, NEW y
  PROVE  Before(idx, x, y) <=> Outranks(x, y) \/ (SameRank(x, y) /\ idx[x] < idx[y])
  BY Zenon DEF Before, Outranks

(* Two blocks are on one chain, or there is a block their branches leave    *)
(* each other at.                                                           *)
LEMMA ForkExists ==
  ASSUME Counting, NEW x \in Blocks, NEW y \in Blocks, x \notin Chain[y], y \notin Chain[x]
  PROVE  \E c \in Blocks : Forked(x, y, c)
  <1> DEFINE nums == {block_num[d] : d \in Chain[x] \cap Chain[y]}
  <1>1. Chain[x] \subseteq Blocks /\ Genesis \in Chain[x] \cap Chain[y]
    BY BlockFacts, GenesisInChain, Zenon
  <1>2. nums \subseteq Nat /\ nums # {}
    BY <1>1, TreeAssumption
  <1>3. \A n \in nums : n <= block_num[x]
    BY ChainDown
  <1>4. block_num[x] \in Nat
    BY BlockFacts, Zenon
  <1>5. PICK n \in nums : \A m \in nums : m <= n
    <2> HIDE DEF nums
    <2> QED BY <1>2, <1>3, <1>4, GreatestNumber, Zenon
  <1>6. PICK c \in Chain[x] \cap Chain[y] : block_num[c] = n
    BY <1>5, Zenon
  <1>7. \A d \in Chain[x] \cap Chain[y] : block_num[d] <= block_num[c]
    BY <1>5, <1>6, Zenon
  <1> QED BY <1>1, <1>6, <1>7, Zenon DEF Forked

(* What the two branches share is the chain of that block.                  *)
LEMMA ForkFacts ==
  ASSUME Counting, NEW x \in Blocks, NEW y \in Blocks, NEW c \in Blocks, Forked(x, y, c)
  PROVE  /\ \A d : d \in Chain[x] /\ d \in Chain[y] <=> d \in Chain[c]
         /\ Base(x, y) = c
         /\ Forked(y, x, c)
         /\ x \notin Chain[y] /\ y \notin Chain[x]
         /\ block_num[c] < block_num[x] /\ block_num[c] < block_num[y]
  <1>1. c \in Chain[x] /\ c \in Chain[y] /\ c # x /\ c # y
    BY Zenon DEF Forked
  <1>2. ASSUME NEW d, d \in Chain[x], d \in Chain[y] PROVE d \in Chain[c]
    <2>1. block_num[d] <= block_num[c]
      BY <1>2, Zenon DEF Forked
    <2> QED BY <1>1, <1>2, <2>1, ChainLinear, Zenon
  <1>3. Chain[c] \subseteq Chain[x] /\ Chain[c] \subseteq Chain[y]
    BY <1>1, ChainDown, Zenon
  <1>4. block_num[c] < block_num[x] /\ block_num[c] < block_num[y]
    <2>1. /\ block_num[c] <= block_num[x] /\ block_num[c] <= block_num[y]
          /\ block_num[c] # block_num[x] /\ block_num[c] # block_num[y]
      BY <1>1, ChainDown, Zenon
    <2>2. block_num[c] \in Nat /\ block_num[x] \in Nat /\ block_num[y] \in Nat
      BY BlockFacts, Zenon
    <2> QED BY <2>1, <2>2
  <1>5. ForkPoint(x, y) = c
    <2> DEFINE P(e) == \A d \in Chain[x] \cap Chain[y] : block_num[d] <= block_num[e]
    <2>1. c \in Chain[x] \cap Chain[y] /\ P(c)
      BY Zenon DEF Forked
    <2>2. ASSUME NEW e \in Chain[x] \cap Chain[y], P(e) PROVE e = c
      <3>1. block_num[c] <= block_num[e] /\ block_num[e] <= block_num[c]
        BY <2>1, <2>2, Zenon
      <3>2. e \in Blocks /\ block_num[e] \in Nat /\ block_num[c] \in Nat
        BY BlockFacts, Zenon
      <3>3. block_num[e] = block_num[c]
        BY <3>1, <3>2
      <3> QED BY <1>1, <2>2, <3>3, ChainUnique, Zenon
    <2>3. ForkPoint(x, y) = CHOOSE e \in Chain[x] \cap Chain[y] : P(e)
      BY Zenon DEF ForkPoint
    <2> HIDE DEF P
    <2> QED BY <2>1, <2>2, <2>3, Zenon
  <1>6. Base(x, y) = c
    BY <1>1, <1>5, Zenon DEF Base
  <1>7. x \notin Chain[y] /\ y \notin Chain[x]
    <2>1. x \in Chain[x] /\ y \in Chain[y] /\ block_num[c] \in Nat /\ block_num[x] \in Nat /\ block_num[y] \in Nat
      BY BlockFacts, Zenon
    <2>2. \A d \in Chain[x] \cap Chain[y] : block_num[d] <= block_num[c]
      BY Zenon DEF Forked
    <2> QED BY <1>4, <2>1, <2>2
  <1>8. Forked(y, x, c)
    BY Zenon DEF Forked
  <1> QED BY <1>2, <1>3, <1>4, <1>6, <1>7, <1>8, Zenon

-----------------------------------------------------------------------------
(* Irreversible numbers along a chain and across a fork *)

(* The ancestors of a block rank below it.                                  *)
LEMMA LibAlongChain ==
  ASSUME Counting, LibsGrow, NEW b \in Blocks, NEW c \in Chain[b]
  PROVE  dpos_irreversible[c] <= dpos_irreversible[b] /\ (c # b => Outranks(b, c))
  <1> DEFINE S == {x \in Blocks : \A y \in Chain[x] : dpos_irreversible[y] <= dpos_irreversible[x]}
  <1>1. Genesis \in S
    BY TreeAssumption
  <1>2. ASSUME NEW x \in Blocks \ {Genesis}, previous[x] \in S PROVE x \in S
    <2>1. Chain[x] = {x} \cup Chain[previous[x]] /\ previous[x] \in Blocks /\ Chain[x] \subseteq Blocks
      BY BlockFacts, Zenon
    <2>2. \A y \in Blocks : dpos_irreversible[y] \in Nat
      BY BlockFacts, Zenon
    <2>3. dpos_irreversible[previous[x]] <= dpos_irreversible[x]
      BY Zenon DEF LibsGrow
    <2> QED BY <1>2, <2>1, <2>2, <2>3
  <1>3. \A x \in Blocks : x \in S
    <2> HIDE DEF S
    <2> QED BY <1>1, <1>2, TreeInduction, Zenon
  <1>4. dpos_irreversible[c] <= dpos_irreversible[b]
    BY <1>3, Zenon
  <1>5. c \in Blocks /\ block_num[c] <= block_num[b] /\ (block_num[c] = block_num[b] => c = b)
    BY ChainDown, Zenon
  <1>6. /\ block_num[c] \in Nat /\ block_num[b] \in Nat
        /\ dpos_irreversible[c] \in Nat /\ dpos_irreversible[b] \in Nat
    BY <1>5, BlockFacts, Zenon
  <1> QED BY <1>4, <1>5, <1>6 DEF Outranks

(* A branch that ranks no lower leaves a block above all that block has     *)
(* made irreversible.                                                       *)
LEMMA ForkIsHigh ==
  ASSUME Counting, LibsAgree, NEW x \in Blocks, NEW y \in Blocks, NEW c \in Blocks, Forked(x, y, c),
         ~Outranks(x, y)
  PROVE  Final(x) <= block_num[c]
  <1>1. Final(y) >= Final(x) /\ Final(x) \in Nat /\ Final(y) \in Nat
    BY RankFacts, Zenon
  <1>2. block_num[c] \in Nat
    BY BlockFacts, Zenon
  <1>3. Final(y) > block_num[c] => Final(x) < block_num[c]
    BY Zenon DEF LibsAgree
  <1> QED BY <1>1, <1>2, <1>3

-----------------------------------------------------------------------------
(* The index of the fork database *)

(* The index has no hole above its lowest block, on whichever branch.       *)
Closed(idx) ==
  \A b, d \in DOMAIN idx : \A c \in Chain[b] : block_num[d] <= block_num[c] => c \in DOMAIN idx

(* An index: finitely many blocks, blocks of one rank in some order.        *)
IndexOK(idx) ==
  /\ DOMAIN idx \subseteq Blocks /\ IsFiniteSet(DOMAIN idx)
  /\ idx \in [DOMAIN idx -> Nat \ {0}]
  /\ \E k \in Nat : \A x \in DOMAIN idx : block_num[x] <= k /\ idx[x] <= k
  /\ \A x, y \in DOMAIN idx : x # y /\ SameRank(x, y) => idx[x] # idx[y]
  /\ Closed(idx)

(* No block of the index is preferred to x.                                 *)
Supreme(idx, x) == x \in DOMAIN idx /\ \A y \in DOMAIN idx : ~Outranks(y, x)

(* The index reaches down to number k.                                      *)
Low(idx, k) == \E d \in DOMAIN idx : block_num[d] <= k

(* A nonempty index has a first block in by_lib_block_num.                  *)
LEMMA BestExists ==
  ASSUME Counting, NEW idx, IndexOK(idx), DOMAIN idx # {}
  PROVE  /\ Best(idx) \in DOMAIN idx
         /\ \A y \in DOMAIN idx \ {Best(idx)} : Before(idx, Best(idx), y)
  <1> DEFINE D == DOMAIN idx
  <1>1. PICK k \in Nat : \A x \in D : block_num[x] <= k /\ idx[x] <= k
    BY Zenon DEF IndexOK
  <1>2. \A x \in D : /\ x \in Blocks /\ block_num[x] \in Nat /\ dpos_irreversible[x] \in Nat
                     /\ dpos_irreversible[x] < block_num[x] /\ idx[x] \in Nat
    <2>1. D \subseteq Blocks /\ idx \in [D -> Nat \ {0}]
      BY Zenon DEF IndexOK
    <2> QED BY <2>1, BlockFacts, Zenon
  <1>3. D # {}
    BY Zenon
  <1> HIDE DEF D
  <1>4. PICK l \in {dpos_irreversible[x] : x \in D} : \A m \in {dpos_irreversible[x] : x \in D} : m <= l
    <2> DEFINE F == {dpos_irreversible[x] : x \in D}
    <2>1. F \subseteq Nat /\ F # {} /\ \A m \in F : m <= k
      BY <1>1, <1>2, <1>3
    <2> HIDE DEF F
    <2>2. \E n \in F : \A m \in F : m <= n
      BY <2>1, GreatestNumber, Zenon
    <2> QED BY <2>2, Zenon DEF F
  <1> DEFINE D1 == {x \in D : dpos_irreversible[x] = l}
  <1>5. PICK h \in {block_num[x] : x \in D1} : \A m \in {block_num[x] : x \in D1} : m <= h
    <2> DEFINE F == {block_num[x] : x \in D1}
    <2>1. F \subseteq Nat /\ F # {} /\ \A m \in F : m <= k
      BY <1>1, <1>2, <1>4, Zenon
    <2> HIDE DEF F
    <2>2. \E n \in F : \A m \in F : m <= n
      BY <2>1, GreatestNumber, Zenon
    <2> QED BY <2>2, Zenon DEF F
  <1> DEFINE D2 == {x \in D1 : block_num[x] = h}
  <1>6. PICK i \in {idx[x] : x \in D2} : \A m \in {idx[x] : x \in D2} : i <= m
    <2> DEFINE F == {idx[x] : x \in D2}
    <2>1. F \subseteq Nat /\ F # {}
      BY <1>2, <1>5, Zenon
    <2> HIDE DEF F
    <2>2. \E n \in F : \A m \in F : n <= m
      BY <2>1, LeastNumber, Zenon
    <2> QED BY <2>2, Zenon DEF F
  <1>7. PICK x \in D2 : idx[x] = i
    BY <1>6, Zenon
  <1>8. ASSUME NEW y \in D \ {x} PROVE Before(idx, x, y)
    <2>1. dpos_irreversible[y] <= l
      BY <1>4, Zenon
    <2>2. dpos_irreversible[y] = l => block_num[y] <= h
      BY <1>5, Zenon
    <2>3. dpos_irreversible[y] = l /\ block_num[y] = h => i <= idx[y]
      BY <1>6, Zenon
    <2>4. SameRank(x, y) => idx[x] # idx[y]
      BY <1>7, <1>8, Zenon DEF IndexOK, D
    <2>5. dpos_irreversible[x] = l /\ block_num[x] = h /\ x \in D
      BY <1>7, Zenon
    <2>6. l \in Nat /\ h \in Nat /\ i \in Nat /\ dpos_irreversible[y] \in Nat /\ block_num[y] \in Nat /\ idx[y] \in Nat
      BY <1>2, <1>7, <2>5, Zenon
    <2> QED BY <1>7, <2>1, <2>2, <2>3, <2>4, <2>5, <2>6 DEF Before, SameRank
  <1>9. \E z \in D : \A y \in D \ {z} : Before(idx, z, y)
    BY <1>7, <1>8, Zenon
  <1> QED BY <1>9, Zenon DEF Best, D

(* There is only one.                                                       *)
LEMMA BestIs ==
  ASSUME Counting, NEW idx, DOMAIN idx \subseteq Blocks, idx \in [DOMAIN idx -> Nat],
         NEW x \in DOMAIN idx, \A y \in DOMAIN idx \ {x} : Before(idx, x, y)
  PROVE  Best(idx) = x
  <1> DEFINE P(z) == \A y \in DOMAIN idx \ {z} : Before(idx, z, y)
  <1>1. P(x)
    BY Zenon
  <1>2. ASSUME NEW z \in DOMAIN idx, P(z) PROVE z = x
    <2> SUFFICES ASSUME z # x PROVE FALSE
      BY Zenon
    <2>1. Before(idx, z, x) /\ Before(idx, x, z)
      BY <1>1, <1>2, Zenon
    <2>2. /\ dpos_irreversible[x] \in Nat /\ dpos_irreversible[z] \in Nat
          /\ block_num[x] \in Nat /\ block_num[z] \in Nat
      BY BlockFacts, Zenon
    <2>3. idx[x] \in Nat /\ idx[z] \in Nat
      BY Zenon
    <2> QED BY <2>1, <2>2, <2>3 DEF Before, SameRank
  <1>3. Best(idx) = CHOOSE z \in DOMAIN idx : P(z)
    BY Zenon DEF Best
  <1> HIDE DEF P
  <1> QED BY <1>1, <1>2, <1>3, Zenon

(* The first block outranks or ties all others.                             *)
LEMMA BestIsSupreme ==
  ASSUME Counting, NEW idx, IndexOK(idx), DOMAIN idx # {}
  PROVE  Supreme(idx, Best(idx)) /\ Best(idx) \in Blocks
  <1> DEFINE x == Best(idx)
  <1>1. x \in DOMAIN idx /\ \A y \in DOMAIN idx \ {x} : Before(idx, x, y)
    BY BestExists, Zenon
  <1>2. DOMAIN idx \subseteq Blocks
    BY Zenon DEF IndexOK
  <1> HIDE DEF x
  <1>3. ASSUME NEW y \in DOMAIN idx PROVE ~Outranks(y, x)
    <2>1. y = x \/ Before(idx, x, y)
      BY <1>1, Zenon
    <2>2. x \in Blocks /\ y \in Blocks
      BY <1>1, <1>2, Zenon
    <2>3. y = x \/ Outranks(x, y) \/ SameRank(x, y)
      BY <2>1, BeforeFacts, Zenon
    <2>4. /\ ~(Outranks(x, y) /\ Outranks(y, x))
          /\ Outranks(y, x) => ~SameRank(y, x) /\ y # x
      BY <2>2, RankFacts, Zenon
    <2>5. SameRank(x, y) <=> SameRank(y, x)
      BY Zenon DEF SameRank
    <2> QED BY <2>3, <2>4, <2>5, Zenon
  <1> QED BY <1>1, <1>2, <1>3, Zenon DEF Supreme, x

(* A part of an index is one, if it has no hole.                            *)
LEMMA SubIndex ==
  ASSUME Counting, NEW idx, IndexOK(idx), NEW D, D \subseteq DOMAIN idx,
         \A b, d \in D : \A c \in Chain[b] : block_num[d] <= block_num[c] => c \in D
  PROVE  IndexOK([x \in D |-> idx[x]])
  <1> DEFINE sub == [x \in D |-> idx[x]]
  <1>1. DOMAIN sub = D /\ \A x \in D : sub[x] = idx[x]
    BY Zenon
  <1>2. D \subseteq Blocks /\ sub \in [D -> Nat \ {0}]
    BY Zenon DEF IndexOK
  <1>3. IsFiniteSet(D)
    BY FiniteFacts, Zenon DEF IndexOK
  <1>4. \E k \in Nat : \A x \in D : block_num[x] <= k /\ sub[x] <= k
    BY <1>1, Zenon DEF IndexOK
  <1>5. \A x, y \in D : x # y /\ SameRank(x, y) => sub[x] # sub[y]
    BY <1>1, Zenon DEF IndexOK
  <1> HIDE DEF sub
  <1>6. Closed(sub)
    BY <1>1, Zenon DEF Closed
  <1>7. IndexOK(sub)
    BY <1>1, <1>2, <1>3, <1>4, <1>5, <1>6, Zenon DEF IndexOK
  <1> QED BY <1>7, Zenon DEF sub

(* fork_database::add: the new block comes last among blocks of its rank.   *)
LEMMA InsertedFacts ==
  ASSUME Counting, IndexOK(index), NEW b \in Blocks, Linkable(b)
  PROVE  /\ IndexOK(Inserted(b))
         /\ DOMAIN Inserted(b) = Known \cup {b}
         /\ \A x \in Known : Inserted(b)[x] = index[x]
         /\ \A x, y \in Known : Before(index, x, y) <=> Before(Inserted(b), x, y)
         /\ \A x \in Known : SameRank(x, b) => Before(Inserted(b), x, b)
  <1> DEFINE idx   == Inserted(b)
             peers == {index[x] : x \in {y \in Known : SameRank(y, b)}}
             last  == IF peers = {} THEN 0 ELSE CHOOSE n \in peers : \A m \in peers : m <= n
  <1>1. b \notin Known /\ previous[b] \in Known
    BY Zenon DEF Linkable
  <1>2. /\ Known \subseteq Blocks /\ index \in [Known -> Nat \ {0}]
        /\ \A x, y \in Known : x # y /\ SameRank(x, y) => index[x] # index[y]
    BY Zenon DEF IndexOK, Known
  <1>3. PICK k \in Nat : \A x \in Known : block_num[x] <= k /\ index[x] <= k
    BY Zenon DEF IndexOK, Known
  <1>4. last \in Nat /\ \A m \in peers : m <= last
    <2>1. peers \subseteq Nat /\ \A m \in peers : m <= k
      BY <1>2, <1>3, Zenon
    <2> HIDE DEF peers
    <2>2. CASE peers = {}
      BY <2>2, Zenon
    <2>3. CASE peers # {}
      <3>1. \E n \in peers : \A m \in peers : m <= n
        BY <2>1, <2>3, GreatestNumber, Zenon
      <3>2. last \in peers /\ \A m \in peers : m <= last
        BY <2>3, <3>1, Zenon
      <3> QED BY <2>1, <3>2, Zenon
    <2> QED BY <2>2, <2>3, Zenon
  <1>5. idx = [x \in Known \cup {b} |-> IF x = b THEN last + 1 ELSE index[x]]
    BY Zenon DEF Inserted
  <1> HIDE DEF last
  <1>6. /\ DOMAIN idx = Known \cup {b} /\ idx[b] = last + 1
        /\ \A x \in Known : idx[x] = index[x]
    BY <1>1, <1>5, Zenon
  <1>7. \A x \in Known : SameRank(x, b) => index[x] <= last
    BY <1>4, Zenon
  <1> HIDE DEF peers, idx
  <1>8. idx \in [DOMAIN idx -> Nat \ {0}]
    <2>1. \A x \in DOMAIN idx : idx[x] \in Nat \ {0}
      BY <1>2, <1>4, <1>6
    <2>2. idx = [x \in DOMAIN idx |-> idx[x]]
      BY <1>5, Zenon
    <2> QED BY <2>1, <2>2, Zenon
  <1>9. DOMAIN idx \subseteq Blocks /\ IsFiniteSet(DOMAIN idx)
    <2>1. IsFiniteSet(Known)
      BY Zenon DEF IndexOK, Known
    <2> QED BY <1>2, <1>6, <2>1, FiniteFacts, Zenon
  <1>10. \E j \in Nat : \A x \in DOMAIN idx : block_num[x] <= j /\ idx[x] <= j
    <2> DEFINE j == k + block_num[b] + last + 1
    <2>1. block_num[b] \in Nat /\ \A x \in Known : block_num[x] \in Nat /\ index[x] \in Nat
      BY <1>2, BlockFacts, Zenon
    <2>2. j \in Nat
      BY <1>4, <2>1
    <2>3. ASSUME NEW x \in DOMAIN idx PROVE block_num[x] <= j /\ idx[x] <= j
      <3>1. CASE x = b
        BY <1>4, <1>6, <2>1, <3>1
      <3>2. CASE x \in Known
        <4>1. block_num[x] <= k /\ index[x] <= k /\ block_num[x] \in Nat /\ index[x] \in Nat /\ idx[x] = index[x]
          BY <1>3, <1>6, <2>1, <3>2, Zenon
        <4> QED BY <1>4, <2>1, <4>1
      <3> QED BY <1>6, <3>1, <3>2, Zenon
    <2> HIDE DEF j
    <2> QED BY <2>2, <2>3, Zenon
  <1>11. ASSUME NEW x \in Known, SameRank(x, b) PROVE idx[x] < idx[b]
    <2>1. index[x] <= last /\ index[x] \in Nat
      BY <1>2, <1>7, <1>11, Zenon
    <2> QED BY <1>4, <1>6, <2>1
  <1>12. \A x, y \in DOMAIN idx : x # y /\ SameRank(x, y) => idx[x] # idx[y]
    <2> SUFFICES ASSUME NEW x \in DOMAIN idx, NEW y \in DOMAIN idx, x # y, SameRank(x, y)
                 PROVE  idx[x] # idx[y]
      BY Zenon
    <2>1. SameRank(y, x)
      BY Zenon DEF SameRank
    <2>2. CASE x = b
      <3>1. y \in Known /\ idx[y] < idx[b]
        BY <1>6, <1>11, <2>1, <2>2, Zenon
      <3>2. idx[y] \in Nat /\ idx[b] \in Nat
        BY <1>6, <1>8, Zenon
      <3>3. idx[y] # idx[b]
        BY <3>1, <3>2
      <3> QED BY <2>2, <3>3, Zenon
    <2>3. CASE y = b
      <3>1. x \in Known /\ idx[x] < idx[b]
        BY <1>6, <1>11, <2>3, Zenon
      <3>2. idx[x] \in Nat /\ idx[b] \in Nat
        BY <1>6, <1>8, Zenon
      <3>3. idx[x] # idx[b]
        BY <3>1, <3>2
      <3> QED BY <2>3, <3>3, Zenon
    <2>4. CASE x \in Known /\ y \in Known
      BY <1>2, <1>6, <2>4, Zenon
    <2> QED BY <1>6, <2>2, <2>3, <2>4, Zenon
  <1>13. Closed(idx)
    <2> SUFFICES ASSUME NEW x \in DOMAIN idx, NEW d \in DOMAIN idx, NEW c \in Chain[x],
                        block_num[d] <= block_num[c], c # b
                 PROVE  c \in Known
      BY <1>6, Zenon DEF Closed
    <2>1. b # Genesis
      BY <1>1, TreeAssumption
    <2>2. /\ Chain[b] = {b} \cup Chain[previous[b]] /\ block_num[b] = block_num[previous[b]] + 1
          /\ block_num[previous[b]] \in Nat
      BY <2>1, BlockFacts, Zenon
    <2>3. PICK z \in Known : c \in Chain[z] /\ (x = b => z = previous[b])
      BY <1>1, <1>6, <2>2, Zenon
    <2>4. CASE d \in Known
      BY <2>3, <2>4, Zenon DEF IndexOK, Closed, Known
    <2>5. CASE d = b
      <3>1. PICK e \in Known : block_num[e] <= block_num[c]
        <4>1. previous[b] \in Known /\ block_num[previous[b]] \in Nat /\ block_num[c] \in Nat
          BY <1>1, <1>2, <2>2, <2>3, BlockFacts, Zenon
        <4> QED BY <2>2, <2>5, <4>1
      <3> QED BY <2>3, <3>1, Zenon DEF IndexOK, Closed, Known
    <2> QED BY <1>6, <2>4, <2>5, Zenon
  <1>14. IndexOK(idx)
    BY <1>8, <1>9, <1>10, <1>12, <1>13, Zenon DEF IndexOK
  <1>15. \A x, y \in Known : Before(index, x, y) <=> Before(idx, x, y)
    BY <1>6, Zenon DEF Before
  <1>16. \A x \in Known : SameRank(x, b) => Before(idx, x, b)
    BY <1>11, BeforeFacts, Zenon
  <1> QED BY <1>6, <1>14, <1>15, <1>16, Zenon DEF idx

(* prune: with the lowest block s go the other blocks of its height and all *)
(* that is built on them, so that what stays is built on s.                 *)
LEMMA PrunedFacts ==
  ASSUME Counting,
         NEW idx, IndexOK(idx), NEW s \in DOMAIN idx, \A y \in DOMAIN idx : block_num[s] <= block_num[y]
  PROVE  /\ IndexOK(PrunedIndex(idx, s))
         /\ DOMAIN PrunedIndex(idx, s) = {x \in DOMAIN idx : x # s /\ s \in Chain[x]}
         /\ \A x \in DOMAIN PrunedIndex(idx, s) : PrunedIndex(idx, s)[x] = idx[x]
  <1> DEFINE siblings == {x \in DOMAIN idx \ {s} : block_num[x] = block_num[s]}
             D        == {x \in DOMAIN idx : x # s /\ s \in Chain[x]}
  <1>1. DOMAIN idx \subseteq Blocks /\ Closed(idx)
    BY Zenon DEF IndexOK
  <1>2. \A x \in DOMAIN idx : block_num[x] \in Nat \ {0} /\ x \in Chain[x]
    BY <1>1, BlockFacts, Zenon
  <1>3. ASSUME NEW x \in DOMAIN idx, x # s PROVE Chain[x] \cap siblings = {} <=> s \in Chain[x]
    <2>1. x \in Blocks /\ s \in Blocks
      BY <1>1, Zenon
    <2>2. ASSUME s \in Chain[x] PROVE Chain[x] \cap siblings = {}
      <3> SUFFICES ASSUME NEW c \in Chain[x], c \in siblings PROVE FALSE
        BY Zenon
      <3>1. block_num[c] = block_num[s] /\ c # s
        BY Zenon
      <3> QED BY <2>1, <2>2, <3>1, ChainUnique, Zenon
    <2>3. ASSUME s \notin Chain[x] PROVE Chain[x] \cap siblings # {}
      <3>1. PICK c \in Chain[x] : block_num[c] = block_num[s]
        <4>1. block_num[s] \in Nat \ {0} /\ block_num[s] <= block_num[x]
          BY <1>2, Zenon
        <4> QED BY <2>1, <4>1, ChainHas, Zenon
      <3>2. c \in DOMAIN idx
        <4>1. block_num[s] <= block_num[c]
          BY <1>2, <3>1, Zenon
        <4> QED BY <1>1, <4>1, Zenon DEF Closed
      <3> QED BY <2>3, <3>1, <3>2, Zenon
    <2> QED BY <2>2, <2>3, Zenon
  <1>4. PrunedIndex(idx, s) = [x \in D |-> idx[x]]
    <2> DEFINE kept == {y \in DOMAIN idx : Chain[y] \cap siblings = {}}
    <2>1. Without(idx, siblings) = [x \in kept |-> idx[x]]
      BY Zenon DEF Without
    <2>2. kept \ {s} = D
      BY <1>3, Zenon
    <2> HIDE DEF kept, D
    <2>3. DOMAIN Without(idx, siblings) \ {s} = D
      BY <2>1, <2>2, Zenon
    <2>4. PrunedIndex(idx, s)
            = [x \in DOMAIN Without(idx, siblings) \ {s} |-> Without(idx, siblings)[x]]
      BY Zenon DEF PrunedIndex
    <2>5. \A x \in D : Without(idx, siblings)[x] = idx[x]
      BY <2>1, <2>2, Zenon
    <2> QED BY <2>3, <2>4, <2>5, Zenon
  <1>5. IndexOK([x \in D |-> idx[x]])
    <2>1. ASSUME NEW x \in D, NEW d \in D, NEW c \in Chain[x], block_num[d] <= block_num[c]
          PROVE  c \in D
      <3>1. c \in DOMAIN idx
        BY <1>1, <2>1, Zenon DEF Closed
      <3>2. x \in Blocks /\ d \in Blocks /\ s \in Chain[x] /\ s \in Chain[d] /\ s # d /\ c \in Blocks
        BY <1>1, <3>1, Zenon
      <3>3. block_num[s] < block_num[c]
        <4>1. block_num[s] <= block_num[d] /\ block_num[s] # block_num[d]
          BY <3>2, ChainDown, Zenon
        <4>2. block_num[s] \in Nat /\ block_num[d] \in Nat /\ block_num[c] \in Nat
          BY <1>2, <3>1, Zenon
        <4> QED BY <2>1, <4>1, <4>2
      <3>4. block_num[s] \in Nat /\ block_num[c] \in Nat
        BY <1>2, <3>1, Zenon
      <3>5. s # c /\ block_num[s] <= block_num[c]
        BY <3>3, <3>4
      <3>6. s \in Chain[c]
        BY <2>1, <3>2, <3>5, ChainLinear, Zenon
      <3> QED BY <3>1, <3>5, <3>6, Zenon
    <2> HIDE DEF D
    <2>2. D \subseteq DOMAIN idx
      BY Zenon DEF D
    <2> QED BY <2>1, <2>2, SubIndex, Zenon
  <1> HIDE DEF D
  <1>6. DOMAIN PrunedIndex(idx, s) = D /\ \A x \in D : PrunedIndex(idx, s)[x] = idx[x]
    BY <1>4, Zenon
  <1> QED BY <1>4, <1>5, <1>6, Zenon DEF D

(* remove: a block goes with all that is built on it.                       *)
LEMMA WithoutFacts ==
  ASSUME Counting, NEW idx, IndexOK(idx), NEW n
  PROVE  /\ IndexOK(Without(idx, {n}))
         /\ DOMAIN Without(idx, {n}) = {x \in DOMAIN idx : n \notin Chain[x]}
         /\ \A x \in DOMAIN Without(idx, {n}) : Without(idx, {n})[x] = idx[x]
  <1> DEFINE D == {x \in DOMAIN idx : n \notin Chain[x]}
  <1>1. Without(idx, {n}) = [x \in D |-> idx[x]]
    <2>1. {y \in DOMAIN idx : Chain[y] \cap {n} = {}} = D
      BY Zenon
    <2> QED BY <2>1, Zenon DEF Without
  <1>2. ASSUME NEW x \in D, NEW d \in D, NEW c \in Chain[x], block_num[d] <= block_num[c]
        PROVE  c \in D
    <2>1. c \in DOMAIN idx /\ x \in Blocks
      BY <1>2, Zenon DEF IndexOK, Closed
    <2>2. Chain[c] \subseteq Chain[x]
      BY <2>1, ChainDown, Zenon
    <2> QED BY <2>1, <2>2, Zenon
  <1>3. D \subseteq DOMAIN idx
    BY Zenon
  <1> HIDE DEF D
  <1>4. IndexOK([x \in D |-> idx[x]])
    BY <1>2, <1>3, SubIndex, Zenon
  <1>5. DOMAIN Without(idx, {n}) = D /\ \A x \in D : Without(idx, {n})[x] = idx[x]
    BY <1>1, Zenon
  <1>6. D = {x \in DOMAIN idx : n \notin Chain[x]}
    BY Zenon DEF D
  <1> QED BY <1>1, <1>4, <1>5, <1>6, Zenon

(* A table whose values are the numbers up to the size of its domain has    *)
(* every value once.                                                        *)
LEMMA NumberedOnce ==
  ASSUME Counting, NEW P, IsFiniteSet(P), NEW f, {f[y] : y \in P} = 1..Cardinality(P),
         NEW y \in P, NEW z \in P, y # z
  PROVE  f[y] # f[z]
  BY Zenon DEF Counting

(* fork_database read back from its file: the same blocks, each rank in     *)
(* some order.                                                              *)
LEMMA ReorderedFacts ==
  ASSUME Counting, NEW idx, IndexOK(idx), NEW new \in Reordered(idx)
  PROVE  IndexOK(new) /\ DOMAIN new = DOMAIN idx
  <1> DEFINE D == DOMAIN idx
  <1>1. D \subseteq Blocks /\ IsFiniteSet(D) /\ Closed(idx)
    BY Zenon DEF IndexOK
  <1>2. PICK f \in Orders(idx) : new = [x \in D |-> IF x \in Tied(idx) THEN f[x] ELSE 1]
    BY Zenon DEF Reordered
  <1> HIDE DEF D
  <1>3. /\ DOMAIN new = D
        /\ \A x \in D : x \in Tied(idx) => new[x] = f[x]
        /\ \A x \in D : x \notin Tied(idx) => new[x] = 1
    BY <1>2, Zenon
  <1>4. ASSUME NEW x \in Tied(idx)
        PROVE  /\ IsFiniteSet(Peers(idx, x)) /\ Cardinality(Peers(idx, x)) \in Nat
               /\ Cardinality(Peers(idx, x)) <= Cardinality(D)
               /\ {f[y] : y \in Peers(idx, x)} = 1..Cardinality(Peers(idx, x))
               /\ x \in Peers(idx, x)
    <2>1. Peers(idx, x) \in SUBSET D
      BY Zenon DEF Peers, D
    <2>2. IsFiniteSet(Peers(idx, x)) /\ Cardinality(Peers(idx, x)) <= Cardinality(D)
      BY <1>1, <2>1, FiniteFacts, Zenon
    <2>3. Cardinality(Peers(idx, x)) \in Nat
      BY <2>2, FiniteFacts, Zenon
    <2>4. {f[y] : y \in Peers(idx, x)} = 1..Cardinality(Peers(idx, x))
      BY <1>2, Zenon DEF Orders
    <2>5. x \in Peers(idx, x)
      BY Zenon DEF Peers, Tied, SameRank
    <2> QED BY <2>2, <2>3, <2>4, <2>5, Zenon
  <1>5. Cardinality(D) \in Nat
    BY <1>1, FiniteFacts, Zenon
  <1>6. ASSUME NEW x \in D PROVE new[x] \in Nat \ {0} /\ (x \in Tied(idx) => new[x] <= Cardinality(D))
    <2>1. CASE x \in Tied(idx)
      <3>1. new[x] \in 1..Cardinality(Peers(idx, x))
        BY <1>3, <1>4, <2>1, Zenon
      <3> QED BY <1>4, <1>5, <2>1, <3>1
    <2> QED BY <1>3, <2>1
  <1>7. new \in [DOMAIN new -> Nat \ {0}]
    BY <1>2, <1>3, <1>6, Zenon
  <1>8. \E k \in Nat : \A x \in DOMAIN new : block_num[x] <= k /\ new[x] <= k
    <2>1. PICK j \in Nat : \A x \in D : block_num[x] <= j
      BY Zenon DEF IndexOK, D
    <2>2. ASSUME NEW x \in D PROVE block_num[x] <= j + Cardinality(D) + 1 /\ new[x] <= j + Cardinality(D) + 1
      <3>1. block_num[x] \in Nat /\ block_num[x] <= j
        BY <1>1, <2>1, BlockFacts, Zenon
      <3>2. new[x] \in Nat /\ (new[x] <= Cardinality(D) \/ new[x] = 1)
        BY <1>3, <1>6, Zenon
      <3> QED BY <1>5, <3>1, <3>2
    <2>3. j + Cardinality(D) + 1 \in Nat
      BY <1>5
    <2> QED BY <1>3, <2>2, <2>3, Zenon
  <1>9. ASSUME NEW x \in D, NEW y \in D, x # y, SameRank(x, y) PROVE new[x] # new[y]
    <2>1. x \in Peers(idx, x) /\ y \in Peers(idx, x)
      BY <1>9, Zenon DEF Peers, SameRank, D
    <2>2. x \in Peers(idx, y) /\ y \in Peers(idx, y)
      BY <1>9, Zenon DEF Peers, SameRank, D
    <2>3. x \in Tied(idx) /\ y \in Tied(idx)
      BY <1>9, <2>1, <2>2, Zenon DEF Tied, D
    <2>4. f[x] # f[y]
      BY <1>4, <1>9, <2>1, <2>3, NumberedOnce, Zenon
    <2> QED BY <1>3, <2>3, <2>4, Zenon
  <1>10. Closed(new)
    BY <1>1, <1>3, Zenon DEF Closed, D
  <1>11. DOMAIN new \subseteq Blocks /\ IsFiniteSet(DOMAIN new)
    BY <1>1, <1>3, Zenon
  <1>12. \A x, y \in DOMAIN new : x # y /\ SameRank(x, y) => new[x] # new[y]
    BY <1>3, <1>9, Zenon
  <1> QED BY <1>3, <1>7, <1>8, <1>10, <1>11, <1>12, Zenon DEF IndexOK, D

(* The chain state and the stores of blocks *)

(* The sequence lists the chain of b, genesis first.                        *)
Enumerates(seq, b) ==
  /\ seq \in Seq(Blocks) /\ Len(seq) = block_num[b]
  /\ \A i \in 1..Len(seq) : seq[i] \in Chain[b] /\ block_num[seq[i]] = i

Top(log) == log[Len(log)]

(* A block log: the chain of its last block, which some block makes         *)
(* irreversible.                                                            *)
LogOK(log) ==
  /\ Len(log) > 0 /\ Top(log) \in Blocks /\ Enumerates(log, Top(log))
  /\ \E x \in Blocks : Top(log) \in Chain[x] /\ Len(log) <= Final(x)

(* The block log and the reversible blocks hold the chain of h, and the     *)
(* reversible blocks have no gap.                                           *)
Durable(log, rev, h) ==
  /\ Top(log) \in Chain[h] /\ rev \subseteq Chain[h] /\ Genesis \notin rev
  /\ \A r \in Chain[h] : block_num[r] > Len(log) => r \in rev
  /\ \A q \in rev, r \in Chain[h] : block_num[r] >= block_num[q] => r \in rev

(* A block on which the log is not built is not preferred to h.             *)
Guarded(log, h) == \A z \in Blocks : Top(log) \notin Chain[z] => Outranks(h, z)

(* The listed blocks are exactly those of the chain.                        *)
LEMMA EnumeratesAll ==
  ASSUME Counting, NEW b \in Blocks, NEW seq, Enumerates(seq, b)
  PROVE  ToSet(seq) = Chain[b] /\ Len(seq) \in Nat \ {0} /\ Top(seq) = b
  <1>1. /\ seq \in Seq(Blocks) /\ Len(seq) = block_num[b]
        /\ \A i \in 1..Len(seq) : seq[i] \in Chain[b] /\ block_num[seq[i]] = i
    BY Zenon DEF Enumerates
  <1>2. Len(seq) \in Nat \ {0} /\ DOMAIN seq = 1..Len(seq)
    BY <1>1, BlockFacts
  <1>3. ASSUME NEW c \in Chain[b] PROVE c \in ToSet(seq)
    <2>1. block_num[c] <= block_num[b] /\ c \in Blocks
      BY ChainDown, Zenon
    <2>2. block_num[c] \in 1..Len(seq)
      BY <1>1, <1>2, <2>1, BlockFacts
    <2>3. seq[block_num[c]] \in Chain[b] /\ block_num[seq[block_num[c]]] = block_num[c]
      BY <1>1, <2>2, Zenon
    <2>4. seq[block_num[c]] = c
      BY <2>3, ChainUnique, Zenon
    <2> QED BY <1>2, <2>2, <2>4, Zenon DEF ToSet
  <1>4. ToSet(seq) \subseteq Chain[b]
    BY <1>1, <1>2 DEF ToSet
  <1>5. Top(seq) = b
    <2>1. Len(seq) \in 1..Len(seq)
      BY <1>2
    <2>2. seq[Len(seq)] \in Chain[b] /\ block_num[seq[Len(seq)]] = block_num[b]
      BY <1>1, <2>1, Zenon
    <2> QED BY <2>2, ChainDown, Zenon DEF Top
  <1> QED BY <1>2, <1>3, <1>4, <1>5, Zenon

(* One block more.                                                          *)
LEMMA EnumeratesAppend ==
  ASSUME Counting, NEW n \in Blocks \ {Genesis}, NEW seq, Enumerates(seq, previous[n])
  PROVE  Enumerates(Append(seq, n), n)
  <1> DEFINE new == Append(seq, n)
  <1>1. /\ seq \in Seq(Blocks) /\ Len(seq) = block_num[previous[n]]
        /\ \A i \in 1..Len(seq) : seq[i] \in Chain[previous[n]] /\ block_num[seq[i]] = i
    BY Zenon DEF Enumerates
  <1>2. /\ block_num[n] = block_num[previous[n]] + 1 /\ Chain[n] = {n} \cup Chain[previous[n]]
        /\ block_num[previous[n]] \in Nat
    BY BlockFacts, Zenon
  <1>3. /\ new \in Seq(Blocks) /\ Len(new) = Len(seq) + 1 /\ new[Len(seq) + 1] = n
        /\ \A i \in 1..Len(seq) : new[i] = seq[i]
    BY <1>1
  <1> HIDE DEF new
  <1>4. ASSUME NEW i \in 1..Len(new) PROVE new[i] \in Chain[n] /\ block_num[new[i]] = i
    <2>1. CASE i \in 1..Len(seq)
      BY <1>1, <1>2, <1>3, <2>1, Zenon
    <2>2. CASE i = Len(seq) + 1
      BY <1>1, <1>2, <1>3, <2>2, Zenon
    <2> QED BY <1>1, <1>2, <1>3, <2>1, <2>2
  <1>5. Enumerates(new, n)
    BY <1>1, <1>2, <1>3, <1>4, Zenon DEF Enumerates
  <1> QED BY <1>5, Zenon DEF new

(* One block less.                                                          *)
LEMMA EnumeratesFront ==
  ASSUME Counting, NEW b \in Blocks \ {Genesis}, NEW seq, Enumerates(seq, b)
  PROVE  Enumerates(SubSeq(seq, 1, Len(seq) - 1), previous[b])
  <1> DEFINE new == SubSeq(seq, 1, Len(seq) - 1)
  <1>1. /\ seq \in Seq(Blocks) /\ Len(seq) = block_num[b]
        /\ \A i \in 1..Len(seq) : seq[i] \in Chain[b] /\ block_num[seq[i]] = i
    BY Zenon DEF Enumerates
  <1>2. /\ block_num[b] = block_num[previous[b]] + 1 /\ Chain[b] = {b} \cup Chain[previous[b]]
        /\ block_num[previous[b]] \in Nat \ {0} /\ previous[b] \in Blocks
    BY BlockFacts, Zenon
  <1>3. Len(seq) - 1 = block_num[previous[b]]
    BY <1>1, <1>2
  <1>4. /\ new \in Seq(Blocks) /\ Len(new) = Len(seq) - 1
        /\ \A i \in 1..Len(new) : new[i] = seq[i]
    BY <1>1, <1>2, <1>3
  <1> HIDE DEF new
  <1>5. ASSUME NEW i \in 1..Len(new) PROVE new[i] \in Chain[previous[b]] /\ block_num[new[i]] = i
    <2>1. i \in 1..Len(seq) /\ i # block_num[b]
      BY <1>1, <1>2, <1>4
    <2>2. new[i] \in Chain[b] /\ block_num[new[i]] = i
      BY <1>1, <1>4, <2>1, Zenon
    <2> QED BY <1>2, <2>1, <2>2, Zenon
  <1>6. Enumerates(new, previous[b])
    BY <1>3, <1>4, <1>5, Zenon DEF Enumerates
  <1> QED BY <1>6, Zenon DEF new

(* A chain state is not longer than the chain of its head.                  *)
LEMMA EnumeratesSame ==
  ASSUME Counting, NEW b \in Blocks, NEW seq, Enumerates(seq, b)
  PROVE  SubSeq(seq, 1, IF Len(seq) < block_num[b] THEN Len(seq) ELSE block_num[b]) = seq
  <1>1. seq \in Seq(Blocks) /\ Len(seq) = block_num[b] /\ block_num[b] \in Nat
    BY BlockFacts, Zenon DEF Enumerates
  <1>2. (IF Len(seq) < block_num[b] THEN Len(seq) ELSE block_num[b]) = Len(seq)
    BY <1>1, Zenon
  <1>3. SubSeq(seq, 1, Len(seq)) = seq
    BY <1>1
  <1> QED BY <1>2, <1>3, Zenon

(* A block of the chain of H that H makes irreversible: H is preferred to   *)
(* every block that is not built on it.                                     *)
LEMMA FinalGuards ==
  ASSUME Counting, LibsGrow, LibsAgree, NEW H \in Blocks, NEW s \in Chain[H], block_num[s] <= Final(H),
         NEW z \in Blocks, s \notin Chain[z]
  PROVE  Outranks(H, z)
  <1>1. s \in Blocks /\ block_num[s] \in Nat
    BY ChainDown, BlockFacts, Zenon
  <1>2. H \notin Chain[z]
    BY ChainDown, Zenon
  <1>3. CASE z \in Chain[H]
    <2>1. z # H
      BY Zenon
    <2> QED BY <1>3, <2>1, LibAlongChain, Zenon
  <1>4. CASE z \notin Chain[H]
    <2>1. PICK c \in Blocks : Forked(H, z, c)
      BY <1>2, <1>4, ForkExists, Zenon
    <2>2. block_num[c] < block_num[s]
      <3> SUFFICES ASSUME block_num[s] <= block_num[c] PROVE FALSE
        BY <1>1, BlockFacts
      <3>1. s \in Chain[c] /\ c \in Chain[z]
        BY <2>1, ChainLinear, Zenon DEF Forked
      <3> QED BY <3>1, ChainDown, Zenon
    <2>3. Final(H) \in Nat /\ Final(z) \in Nat /\ block_num[c] \in Nat \ {0}
      BY RankFacts, BlockFacts, Zenon
    <2>4. Final(H) > block_num[c]
      BY <1>1, <2>2, <2>3
    <2>5. Final(z) < block_num[c]
      BY <2>1, <2>4, ForkFacts DEF LibsAgree
    <2>6. dpos_irreversible[H] \in Nat /\ dpos_irreversible[z] \in Nat
      BY BlockFacts, Zenon
    <2>7. dpos_irreversible[H] > dpos_irreversible[z]
      BY <2>3, <2>4, <2>5, <2>6 DEF Final
    <2> QED BY <2>7, Zenon DEF Outranks
  <1> QED BY <1>3, <1>4, Zenon

(* A better block keeps the guard.                                          *)
LEMMA GuardedUp ==
  ASSUME Counting, NEW log, NEW h \in Blocks, Guarded(log, h), NEW H \in Blocks, ~Outranks(h, H)
  PROVE  Guarded(log, H)
  <1> SUFFICES ASSUME NEW z \in Blocks, Top(log) \notin Chain[z] PROVE Outranks(H, z)
    BY Zenon DEF Guarded
  <1>1. Outranks(h, z)
    BY Zenon DEF Guarded
  <1> QED BY <1>1, TieOutranks, Zenon

(* on_irreversible: what the block log takes over the reversible blocks may *)
(* drop, now or after a crash.                                              *)
LEMMA LogFacts ==
  ASSUME Counting,
         LibsGrow, LibsAgree, LogOK(blog), NEW H \in Blocks, NEW rev, Durable(blog, rev, H), Guarded(blog, H),
         NEW s \in Chain[H], block_num[s] <= Final(H), CanLog(s)
  PROVE  /\ LogOK(Logged(s)) /\ Len(Logged(s)) >= Len(blog) /\ Len(Logged(s)) >= block_num[s]
         /\ Durable(Logged(s), rev, H) /\ Durable(Logged(s), {r \in rev : block_num[r] > block_num[s]}, H)
         /\ Guarded(Logged(s), H)
  <1> DEFINE log  == Logged(s)
             left == {r \in rev : block_num[r] > block_num[s]}
  <1>1. /\ s \in Blocks /\ block_num[s] \in Nat /\ Top(blog) \in Blocks /\ Enumerates(blog, Top(blog))
        /\ \A r \in Chain[H] : block_num[r] \in Nat
    BY BlockFacts, Zenon DEF LogOK
  <1>2. blog \in Seq(Blocks) /\ Len(blog) \in Nat \ {0}
    BY <1>1, EnumeratesAll, Zenon DEF Enumerates
  <1>3. \/ block_num[s] <= Len(blog) /\ log = blog
        \/ /\ block_num[s] = Len(blog) + 1 /\ previous[s] = Top(blog) /\ s # Genesis
           /\ log = Append(blog, s) /\ Len(log) = Len(blog) + 1 /\ Top(log) = s
    <2>1. CASE block_num[s] <= Len(blog)
      BY <1>1, <1>2, <2>1 DEF Logged
    <2>2. CASE block_num[s] = Len(blog) + 1 /\ previous[s] = Top(blog)
      <3>1. log = Append(blog, s)
        BY <1>2, <2>2 DEF Logged
      <3>2. Len(Append(blog, s)) = Len(blog) + 1 /\ Append(blog, s)[Len(blog) + 1] = s
        BY <1>1, <1>2
      <3>3. s # Genesis
        BY <1>2, <2>2, TreeAssumption
      <3> HIDE DEF log
      <3> QED BY <2>2, <3>1, <3>2, <3>3, Zenon DEF Top
    <2> QED BY <2>1, <2>2, Zenon DEF CanLog, Top
  <1> HIDE DEF log
  <1>4. Len(log) \in Nat /\ Len(log) >= Len(blog) /\ Len(log) >= block_num[s]
    BY <1>1, <1>2, <1>3
  <1>5. LogOK(log)
    <2>1. CASE log = blog
      BY <2>1, Zenon
    <2>2. CASE log = Append(blog, s) /\ Top(log) = s /\ previous[s] = Top(blog) /\ s # Genesis
               /\ Len(log) = block_num[s]
      <3>1. Enumerates(log, s)
        BY <1>1, <2>2, EnumeratesAppend, Zenon
      <3>2. Len(log) > 0
        BY <1>1, <2>2, BlockFacts
      <3> QED BY <1>1, <2>2, <3>1, <3>2, Zenon DEF LogOK
    <2> QED BY <1>3, <2>1, <2>2, Zenon
  <1>6. Top(log) \in Chain[H] /\ rev \subseteq Chain[H] /\ Genesis \notin rev
    BY <1>3, Zenon DEF Durable
  <1>7. ASSUME NEW r \in Chain[H], block_num[r] > Len(log) PROVE r \in left
    <2>1. block_num[r] > Len(blog) /\ block_num[r] > block_num[s]
      BY <1>1, <1>2, <1>4, <1>7
    <2> QED BY <2>1, Zenon DEF Durable
  <1>8. ASSUME NEW q \in rev, NEW r \in Chain[H], block_num[r] >= block_num[q] PROVE r \in rev
    BY <1>8, Zenon DEF Durable
  <1>9. Durable(log, rev, H)
    BY <1>6, <1>7, <1>8, Zenon DEF Durable
  <1>10. ASSUME NEW q \in left, NEW r \in Chain[H], block_num[r] >= block_num[q] PROVE r \in left
    <2>1. r \in rev /\ q \in Chain[H] /\ block_num[q] > block_num[s]
      BY <1>6, <1>8, <1>10, Zenon
    <2>2. block_num[r] > block_num[s]
      BY <1>1, <1>10, <2>1
    <2> QED BY <2>1, <2>2, Zenon
  <1>11. Durable(log, left, H)
    <2>1. left \subseteq rev
      BY Zenon
    <2> HIDE DEF left
    <2> QED BY <1>6, <1>7, <1>10, <2>1, Zenon DEF Durable
  <1>12. Guarded(log, H)
    <2> SUFFICES ASSUME NEW z \in Blocks, Top(log) \notin Chain[z] PROVE Outranks(H, z)
      BY Zenon DEF Guarded
    <2>1. CASE log = blog
      BY <2>1, Zenon DEF Guarded
    <2>2. CASE Top(log) = s
      BY <2>2, FinalGuards, Zenon
    <2> QED BY <1>3, <2>1, <2>2, Zenon
  <1> QED BY <1>4, <1>5, <1>9, <1>11, <1>12, Zenon DEF log

(* apply_block and commit_block: the new head is a reversible block.        *)
LEMMA DurableExtends ==
  ASSUME Counting, NEW n \in Blocks \ {Genesis}, NEW log, NEW rev, Durable(log, rev, previous[n])
  PROVE  Durable(log, rev \cup {n}, n)
  <1>1. /\ Chain[n] = {n} \cup Chain[previous[n]] /\ block_num[n] = block_num[previous[n]] + 1
        /\ previous[n] \in Blocks /\ block_num[previous[n]] \in Nat
    BY BlockFacts, Zenon
  <1>2. /\ Top(log) \in Chain[previous[n]] /\ rev \subseteq Chain[previous[n]] /\ Genesis \notin rev
        /\ \A r \in Chain[previous[n]] : block_num[r] > Len(log) => r \in rev
        /\ \A q \in rev, r \in Chain[previous[n]] : block_num[r] >= block_num[q] => r \in rev
    BY Zenon DEF Durable
  <1>3. ASSUME NEW r \in Chain[n], block_num[r] > Len(log) PROVE r \in rev \cup {n}
    BY <1>1, <1>2, <1>3, Zenon
  <1>4. ASSUME NEW q \in rev \cup {n}, NEW r \in Chain[n], block_num[r] >= block_num[q]
        PROVE  r \in rev \cup {n}
    <2>1. CASE q = n
      <3>1. r \in Blocks /\ block_num[r] <= block_num[n] /\ (block_num[r] = block_num[n] => r = n)
        BY ChainDown, Zenon
      <3>2. block_num[r] \in Nat /\ block_num[n] \in Nat
        BY <3>1, BlockFacts, Zenon
      <3> QED BY <1>4, <2>1, <3>1, <3>2
    <2>2. CASE q \in rev
      BY <1>1, <1>2, <1>4, <2>2, Zenon
    <2> QED BY <2>1, <2>2, Zenon
  <1>5. Top(log) \in Chain[n] /\ rev \cup {n} \subseteq Chain[n] /\ Genesis \notin rev \cup {n}
    BY <1>1, <1>2, Zenon
  <1> QED BY <1>3, <1>4, <1>5, Zenon DEF Durable

(* pop_block: the head is taken from the reversible blocks.                 *)
LEMMA DurableShrinks ==
  ASSUME Counting, NEW b \in Blocks \ {Genesis}, NEW log, NEW rev, Durable(log, rev, b),
         Top(log) \in Chain[previous[b]]
  PROVE  Durable(log, {r \in rev : block_num[r] # block_num[b]}, previous[b])
  <1> DEFINE left == {r \in rev : block_num[r] # block_num[b]}
  <1>1. /\ Chain[b] = {b} \cup Chain[previous[b]] /\ previous[b] \in Blocks
        /\ block_num[b] = block_num[previous[b]] + 1 /\ block_num[previous[b]] \in Nat
    BY BlockFacts, Zenon
  <1>2. /\ rev \subseteq Chain[b] /\ Genesis \notin rev
        /\ \A r \in Chain[b] : block_num[r] > Len(log) => r \in rev
        /\ \A q \in rev, r \in Chain[b] : block_num[r] >= block_num[q] => r \in rev
    BY Zenon DEF Durable
  <1>3. ASSUME NEW r \in Chain[previous[b]] PROVE block_num[r] # block_num[b] /\ r \in Chain[b]
    <2>1. block_num[r] <= block_num[previous[b]] /\ r \in Blocks
      BY <1>1, ChainDown, Zenon
    <2>2. block_num[r] \in Nat
      BY <2>1, BlockFacts, Zenon
    <2> QED BY <1>1, <2>1, <2>2
  <1>4. left \subseteq Chain[previous[b]] /\ Genesis \notin left
    BY <1>1, <1>2, Zenon
  <1>5. \A r \in Chain[previous[b]] : block_num[r] > Len(log) => r \in left
    BY <1>2, <1>3, Zenon
  <1>6. \A q \in left, r \in Chain[previous[b]] : block_num[r] >= block_num[q] => r \in left
    BY <1>2, <1>3, Zenon
  <1> HIDE DEF left
  <1>7. Durable(log, left, previous[b])
    BY <1>4, <1>5, <1>6, Zenon DEF Durable
  <1> QED BY <1>7, Zenon DEF left

(* The block log and the reversible blocks together are the chain.          *)
LEMMA DurableAll ==
  ASSUME Counting, NEW log, LogOK(log), NEW rev, NEW h \in Blocks, Durable(log, rev, h)
  PROVE  ToSet(log) \cup rev = Chain[h] /\ Len(log) = block_num[Top(log)] /\ Len(log) <= block_num[h]
  <1>1. Top(log) \in Blocks /\ Enumerates(log, Top(log)) /\ Top(log) \in Chain[h]
    BY Zenon DEF LogOK, Durable
  <1>2. ToSet(log) = Chain[Top(log)] /\ Len(log) = block_num[Top(log)] /\ Len(log) \in Nat
    BY <1>1, EnumeratesAll, Zenon DEF Enumerates
  <1>3. Chain[Top(log)] \subseteq Chain[h] /\ block_num[Top(log)] <= block_num[h]
    BY <1>1, ChainDown, Zenon
  <1>4. ASSUME NEW r \in Chain[h] PROVE r \in Chain[Top(log)] \cup rev
    <2>1. CASE block_num[r] > Len(log)
      BY <2>1, Zenon DEF Durable
    <2>2. CASE ~(block_num[r] > Len(log))
      <3>1. block_num[r] \in Nat
        BY BlockFacts, Zenon
      <3>2. block_num[r] <= block_num[Top(log)]
        BY <1>2, <2>2, <3>1
      <3> QED BY <1>1, <3>2, ChainLinear, Zenon
    <2> QED BY <2>1, <2>2, Zenon
  <1>5. rev \subseteq Chain[h]
    BY Zenon DEF Durable
  <1> QED BY <1>2, <1>3, <1>4, <1>5, Zenon

(* The assertions of init hold for stores that hold the chain of the head.  *)
LEMMA InitAcceptsDurable ==
  ASSUME Counting,
         NEW log, NEW rev, NEW h \in Blocks, Durable(log, rev, h), Len(log) \in Nat, Len(log) <= block_num[h],
         NEW seq, Enumerates(seq, h)
  PROVE  InitAccepts(h, seq, rev, log)
  <1>1. block_num[h] \in Nat /\ h \in Chain[h] /\ Len(seq) = block_num[h]
    BY BlockFacts, Zenon DEF Enumerates
  <1>2. CASE rev # {}
    <2>1. PICK q \in rev : TRUE
      BY <1>2, Zenon
    <2>2. \A r \in rev : r \in Chain[h] /\ block_num[r] <= block_num[h] /\ block_num[r] \in Nat
      BY ChainDown, BlockFacts, Zenon DEF Durable
    <2>3. block_num[q] <= block_num[h] /\ block_num[q] \in Nat
      BY <2>1, <2>2, Zenon
    <2>4. block_num[h] >= block_num[q]
      BY <1>1, <2>3, Zenon
    <2>5. h \in rev
      BY <1>1, <2>1, <2>4, Zenon DEF Durable
    <2> DEFINE nums == {block_num[r] : r \in rev}
               P(n) == \A r \in rev : block_num[r] <= n
    <2>6. block_num[h] \in nums /\ P(block_num[h])
      BY <2>2, <2>5, Zenon
    <2>7. ASSUME NEW n \in nums, P(n) PROVE n = block_num[h]
      <3>1. n \in Nat /\ n <= block_num[h] /\ block_num[h] <= n
        BY <2>2, <2>5, <2>7, Zenon
      <3> QED BY <1>1, <3>1
    <2>8. MaxNum(rev) = CHOOSE n \in nums : P(n)
      BY Zenon DEF MaxNum
    <2>9. MaxNum(rev) = block_num[h]
      <3> HIDE DEF nums, P
      <3> QED BY <2>6, <2>7, <2>8, Zenon
    <2> QED BY <1>1, <1>2, <2>9 DEF InitAccepts
  <1>3. CASE rev = {}
    <2>1. ~(block_num[h] > Len(log))
      BY <1>1, <1>3, Zenon DEF Durable
    <2>2. Len(log) = block_num[h]
      BY <1>1, <2>1
    <2> QED BY <1>1, <1>3, <2>2, Zenon DEF InitAccepts
  <1> QED BY <1>2, <1>3, Zenon

(* A node that starts from genesis with an empty log accepts no reversible  *)
(* blocks.                                                                  *)
LEMMA InitRefuses ==
  ASSUME Counting, NEW rev, NEW h \in Blocks, rev \subseteq Chain[h], Genesis \notin rev, rev # {},
         NEW seq, NEW log
  PROVE  ~InitAccepts(Genesis, seq, rev, log)
  <1> DEFINE nums == {block_num[r] : r \in rev}
             P(n) == \A r \in rev : block_num[r] <= n
  <1>1. \A r \in rev : r \in Blocks /\ block_num[r] \in Nat /\ block_num[r] <= block_num[h] /\ block_num[r] # 1
    BY ChainDown, BlockFacts, Zenon
  <1>2. nums \subseteq Nat /\ nums # {} /\ \A m \in nums : m <= block_num[h]
    BY <1>1, Zenon
  <1>3. block_num[h] \in Nat
    BY BlockFacts, Zenon
  <1>4. PICK n \in nums : \A m \in nums : m <= n
    <2> HIDE DEF nums
    <2> QED BY <1>2, <1>3, GreatestNumber, Zenon
  <1>5. \E m \in nums : P(m)
    BY <1>4, Zenon
  <1>6. MaxNum(rev) = CHOOSE m \in nums : P(m)
    BY Zenon DEF MaxNum
  <1>7. MaxNum(rev) \in nums
    <2> HIDE DEF nums, P
    <2> QED BY <1>5, <1>6, Zenon
  <1>8. MaxNum(rev) # 1
    BY <1>1, <1>7, Zenon
  <1> QED BY <1>8, TreeAssumption, Zenon DEF InitAccepts

-----------------------------------------------------------------------------
(* add and prune *)

Marked(idx, h) == (Chain[h] \cap DOMAIN idx) \ {Genesis}

(* An index that reaches down to k and has x has a block of number k of the *)
(* chain of x.                                                              *)
LEMMA LowOn ==
  ASSUME Counting,
         NEW idx, IndexOK(idx), NEW x \in DOMAIN idx, NEW k \in Nat \ {0}, Low(idx, k), k <= block_num[x]
  PROVE  \E e \in DOMAIN idx : e \in Chain[x] /\ block_num[e] = k
  <1>1. DOMAIN idx \subseteq Blocks /\ Closed(idx)
    BY Zenon DEF IndexOK
  <1>2. PICK e \in Chain[x] : block_num[e] = k
    BY <1>1, ChainHas, Zenon
  <1>3. PICK d \in DOMAIN idx : block_num[d] <= k
    BY Zenon DEF Low
  <1> QED BY <1>1, <1>2, <1>3, Zenon DEF Closed

(* The lowest block, with preference for flagged blocks, is on the chain of *)
(* the head.                                                                *)
LEMMA OldestOnChain ==
  ASSUME Counting, NEW idx, IndexOK(idx), NEW h \in DOMAIN idx, Low(idx, Final(h)),
         NEW cur, Marked(idx, h) \subseteq cur,
         \A x \in cur \cap DOMAIN idx : x \in Chain[h] \/ \E y \in DOMAIN idx : block_num[y] < block_num[x],
         NEW s \in Oldest(idx, cur)
  PROVE  /\ s \in DOMAIN idx /\ s \in Blocks /\ s \in Chain[h] /\ block_num[s] <= Final(h)
         /\ \A y \in DOMAIN idx : block_num[s] <= block_num[y]
  <1>1. DOMAIN idx \subseteq Blocks /\ Closed(idx)
    BY Zenon DEF IndexOK
  <1>2. \A x \in DOMAIN idx : block_num[x] \in Nat \ {0}
    BY <1>1, BlockFacts, Zenon
  <1>3. s \in DOMAIN idx /\ h \in Blocks
    BY <1>1, Zenon DEF Oldest
  <1>4. ASSUME NEW y \in DOMAIN idx
        PROVE  \/ block_num[s] < block_num[y]
               \/ block_num[s] = block_num[y] /\ (s \in cur \/ y \notin cur)
    BY Zenon DEF Oldest
  <1>5. ASSUME NEW y \in DOMAIN idx PROVE block_num[s] <= block_num[y]
    BY <1>2, <1>3, <1>4
  <1>6. block_num[s] <= Final(h)
    <2>1. PICK d \in DOMAIN idx : block_num[d] <= Final(h)
      BY Zenon DEF Low
    <2>2. Final(h) \in Nat
      BY <1>3, RankFacts, Zenon
    <2>3. block_num[s] <= block_num[d] /\ block_num[d] \in Nat /\ block_num[s] \in Nat
      BY <1>2, <1>3, <1>5, Zenon
    <2> QED BY <2>1, <2>2, <2>3
  <1>7. PICK e \in Chain[h] : block_num[e] = block_num[s]
    <2>1. block_num[s] <= block_num[h] /\ block_num[s] \in Nat \ {0}
      BY <1>2, <1>3, <1>5, Zenon
    <2> QED BY <1>3, <2>1, ChainHas, Zenon
  <1>8. e \in DOMAIN idx
    <2>1. block_num[s] <= block_num[e]
      BY <1>2, <1>3, <1>7
    <2> QED BY <1>1, <1>3, <2>1, Zenon DEF Closed
  <1>9. CASE e = Genesis
    <2>1. block_num[s] = 1
      BY <1>7, <1>9, TreeAssumption, Zenon
    <2>2. s = Genesis
      BY <1>1, <1>3, <2>1, BlockFacts, Zenon
    <2> QED BY <1>1, <1>3, <1>5, <1>6, <1>9, <2>2, Zenon
  <1>10. CASE e # Genesis
    <2>1. e \in cur
      BY <1>8, <1>10, Zenon DEF Marked
    <2>2. s \in cur
      <3>1. ~(block_num[s] < block_num[e])
        BY <1>2, <1>3, <1>7
      <3> QED BY <1>4, <1>8, <2>1, <3>1, Zenon
    <2>3. ~ \E y \in DOMAIN idx : block_num[y] < block_num[s]
      BY <1>2, <1>3, <1>5
    <2>4. s \in Chain[h]
      BY <1>3, <2>2, <2>3, Zenon
    <2> QED BY <1>1, <1>3, <1>5, <1>6, <2>4, Zenon
  <1> QED BY <1>9, <1>10, Zenon

(* A block that can be added is built on a block of the index, and no block *)
(* of the index is built on it.                                             *)
LEMMA LinkableFacts ==
  ASSUME Counting, IndexOK(index), NEW b \in Blocks, Linkable(b)
  PROVE  /\ b \notin Known /\ b # Genesis /\ previous[b] \in Known /\ previous[b] \in Blocks
         /\ block_num[b] = block_num[previous[b]] + 1 /\ block_num[previous[b]] \in Nat
         /\ \A x \in Known : x \in Blocks /\ b \notin Chain[x]
  <1>1. b \notin Known /\ previous[b] \in Known /\ Known \subseteq Blocks /\ Closed(index)
    BY Zenon DEF Linkable, IndexOK, Known
  <1>2. b # Genesis
    BY <1>1, TreeAssumption, Zenon
  <1>3. block_num[b] = block_num[previous[b]] + 1 /\ block_num[previous[b]] \in Nat
    BY <1>2, BlockFacts, Zenon
  <1>4. ASSUME NEW x \in Known, b \in Chain[x] PROVE FALSE
    <2>1. block_num[previous[b]] <= block_num[b]
      BY <1>3
    <2>2. b \in Known
      BY <1>1, <1>4, <2>1, Zenon DEF Closed, Known
    <2> QED BY <1>1, <2>2, Zenon
  <1> QED BY <1>1, <1>2, <1>3, <1>4, Zenon

(* The block add elects: the head, a block on top of it, or the end of      *)
(* another branch.                                                          *)
LEMMA Elected ==
  ASSUME Counting, LibsGrow, InvalidGainNothing, IndexOK(index), head \in Known, Supreme(index, head),
         NEW b \in Blocks, Linkable(b), NEW B, B = Best(Inserted(b))
  PROVE  /\ B \in Blocks /\ B \in Known \cup {b} /\ Supreme(Inserted(b), B) /\ ~Outranks(head, B)
         /\ \A y \in (Known \cup {b}) \ {B} : Before(Inserted(b), B, y)
         /\ \/ B = head
            \/ B # head /\ B # Genesis /\ previous[B] = head
            \/ \E c \in Blocks : Forked(head, B, c)
         /\ ~Valid(B) => dpos_irreversible[B] <= dpos_irreversible[head]
         /\ previous[b] = head => B = b
  <1>1. IndexOK(Inserted(b)) /\ DOMAIN Inserted(b) = Known \cup {b}
    BY InsertedFacts, Zenon
  <1>2. /\ b \notin Known /\ b # Genesis /\ previous[b] \in Known /\ previous[b] \in Blocks
        /\ block_num[b] = block_num[previous[b]] + 1 /\ block_num[previous[b]] \in Nat
        /\ \A x \in Known : x \in Blocks /\ b \notin Chain[x]
    BY LinkableFacts, Zenon
  <1>3. Supreme(Inserted(b), B) /\ B \in Blocks
    BY <1>1, BestIsSupreme, Zenon
  <1>4. B \in Known \cup {b} /\ \A y \in (Known \cup {b}) \ {B} : Before(Inserted(b), B, y)
    BY <1>1, BestExists, Zenon
  <1>5. ~Outranks(head, B) /\ head \in Blocks /\ \A y \in Known : ~Outranks(y, head)
    BY <1>1, <1>2, <1>3, Zenon DEF Supreme, Known
  <1>6. ASSUME head \in Chain[B], B # head PROVE previous[B] = head /\ B # Genesis
    <2>1. Outranks(B, head)
      BY <1>3, <1>6, LibAlongChain, Zenon
    <2>2. B = b
      BY <1>4, <1>5, <2>1, Zenon
    <2>3. head \in Chain[previous[b]]
      BY <1>3, <1>6, <2>2, ChainDown, Zenon
    <2>4. previous[b] # head => Outranks(previous[b], head)
      BY <1>2, <2>3, LibAlongChain, Zenon
    <2> QED BY <1>2, <1>5, <2>2, <2>4, Zenon
  <1>7. ASSUME B \in Chain[head], B # head PROVE FALSE
    BY <1>5, <1>7, LibAlongChain, Zenon
  <1>8. \/ B = head
        \/ B # head /\ B # Genesis /\ previous[B] = head
        \/ \E c \in Blocks : Forked(head, B, c)
    BY <1>3, <1>5, <1>6, <1>7, ForkExists, Zenon
  <1>9. ASSUME ~Valid(B) PROVE dpos_irreversible[B] <= dpos_irreversible[head]
    <2>1. CASE B \in Known
      <3>1. dpos_irreversible[head] >= dpos_irreversible[B]
        BY <1>3, <1>5, <2>1, RankFacts, Zenon
      <3> QED BY <1>3, <1>5, <3>1, BlockFacts, Zenon
    <2>2. CASE B = b
      <3>1. dpos_irreversible[b] = dpos_irreversible[previous[b]]
        BY <1>9, <2>2, Zenon DEF InvalidGainNothing
      <3>2. dpos_irreversible[head] >= dpos_irreversible[previous[b]]
        BY <1>2, <1>5, RankFacts, Zenon
      <3> QED BY <1>2, <1>5, <2>2, <3>1, <3>2, BlockFacts, Zenon
    <2> QED BY <1>4, <2>1, <2>2, Zenon
  <1>10. ASSUME previous[b] = head PROVE B = b
    <2> SUFFICES ASSUME B \in Known PROVE FALSE
      BY <1>4, Zenon
    <2>1. head \in Chain[b] /\ head # b
      BY <1>2, <1>10, BlockFacts, Zenon
    <2>2. Outranks(b, head)
      BY <2>1, LibAlongChain, Zenon
    <2>3. Outranks(b, B)
      BY <1>3, <1>5, <2>2, OutranksTransitive, Zenon
    <2> QED BY <1>1, <1>3, <2>3, Zenon DEF Supreme
  <1> QED BY <1>3, <1>4, <1>5, <1>8, <1>9, <1>10, Zenon

(* The block prune takes out is irreversible for the head and for the       *)
(* elected block, and below the point where their branches leave.           *)
LEMMA PrunedIsShared ==
  ASSUME Counting,
         LibsGrow, LibsAgree, InvalidGainNothing, IndexOK(index), head \in Known, Supreme(index, head),
         Low(index, Final(head)), in_current_chain = Marked(index, head),
         NEW b \in Blocks, Linkable(b), NEW cur, in_current_chain \subseteq cur, cur \subseteq in_current_chain \cup {b},
         NEW B, B = Best(Inserted(b)),
         NEW s \in Oldest(Inserted(b), cur), block_num[s] < dpos_irreversible[B]
  PROVE  /\ s \in Known /\ s \in Blocks /\ s \in Chain[head] /\ s \in Chain[B] /\ s # head /\ s # B
         /\ block_num[s] <= Final(head) /\ block_num[s] < Final(B)
         /\ \A y \in Known \cup {b} : block_num[s] <= block_num[y]
         /\ \A c \in Blocks : Forked(head, B, c) => block_num[s] < block_num[c]
  <1> DEFINE idx == Inserted(b)
  <1>1. IndexOK(idx) /\ DOMAIN idx = Known \cup {b}
    BY InsertedFacts, Zenon
  <1>2. /\ b \notin Known /\ b # Genesis /\ previous[b] \in Known /\ previous[b] \in Blocks
        /\ block_num[b] = block_num[previous[b]] + 1 /\ block_num[previous[b]] \in Nat
        /\ \A x \in Known : x \in Blocks /\ b \notin Chain[x]
    BY LinkableFacts, Zenon
  <1>3. /\ B \in Blocks /\ B \in Known \cup {b} /\ ~Outranks(head, B)
        /\ \/ B = head
           \/ B # head /\ B # Genesis /\ previous[B] = head
           \/ \E c \in Blocks : Forked(head, B, c)
    BY Elected, Zenon
  <1> HIDE DEF idx
  <1>4. Low(idx, Final(head))
    BY <1>1, Zenon DEF Low, Known
  <1>5. Marked(idx, head) = in_current_chain
    BY <1>1, <1>2, Zenon DEF Marked, Known
  <1>6. ASSUME NEW x \in cur \cap DOMAIN idx PROVE x \in Chain[head] \/ \E y \in DOMAIN idx : block_num[y] < block_num[x]
    <2>1. CASE x = b
      <3>1. previous[b] \in DOMAIN idx /\ block_num[previous[b]] < block_num[b]
        BY <1>1, <1>2
      <3> QED BY <2>1, <3>1, Zenon
    <2>2. CASE x \in in_current_chain
      BY <2>2, Zenon DEF Marked
    <2> QED BY <2>1, <2>2, Zenon
  <1>7. /\ s \in DOMAIN idx /\ s \in Blocks /\ s \in Chain[head] /\ block_num[s] <= Final(head)
        /\ \A y \in DOMAIN idx : block_num[s] <= block_num[y]
    <2>1. head \in DOMAIN idx /\ Marked(idx, head) \subseteq cur /\ s \in Oldest(idx, cur)
      BY <1>1, <1>5, Zenon DEF idx
    <2> QED BY <1>1, <1>4, <1>6, <2>1, OldestOnChain, Zenon
  <1>8. s \in Known /\ head \in Blocks
    BY <1>1, <1>2, <1>7, Zenon
  <1>9. /\ block_num[s] \in Nat \ {0} /\ dpos_irreversible[B] \in Nat /\ dpos_irreversible[B] < block_num[B]
        /\ block_num[B] \in Nat /\ Final(head) \in Nat /\ Final(B) \in Nat /\ dpos_irreversible[B] <= Final(B)
        /\ dpos_irreversible[head] \in Nat /\ dpos_irreversible[head] < block_num[head]
        /\ block_num[head] \in Nat \ {0}
    BY <1>3, <1>7, <1>8, BlockFacts, RankFacts, Zenon
  <1>10. s # B /\ block_num[s] < Final(B)
    BY <1>9
  <1>11. ASSUME NEW c \in Blocks, Forked(head, B, c) PROVE s \in Chain[B] /\ s # head /\ block_num[s] < block_num[c]
    <2>1. block_num[c] \in Nat /\ c \in Chain[head] /\ c \in Chain[B] /\ block_num[c] < block_num[head]
      BY <1>3, <1>8, <1>11, BlockFacts, ForkFacts, Zenon DEF Forked
    <2>2. Final(head) <= block_num[c]
      BY <1>3, <1>8, <1>11, ForkIsHigh, Zenon
    <2>3. block_num[s] # block_num[c]
      <3> SUFFICES ASSUME block_num[s] = block_num[c] PROVE FALSE
        BY Zenon
      <3>1. Final(B) > block_num[c]
        BY <1>10, Zenon
      <3>2. Final(head) < block_num[c]
        BY <1>3, <1>8, <1>11, <3>1, Zenon DEF LibsAgree
      <3> QED BY <1>7, <1>9, <2>1, <3>2
    <2>4. block_num[s] < block_num[c] /\ block_num[s] <= block_num[c]
      BY <1>7, <1>9, <2>1, <2>2, <2>3
    <2>5. s \in Chain[c]
      BY <1>7, <1>8, <2>1, <2>4, ChainLinear, Zenon
    <2>6. s \in Chain[B]
      BY <1>3, <2>1, <2>5, ChainDown, Zenon
    <2>7. s # head
      BY <1>9, <2>1, <2>4
    <2> QED BY <2>4, <2>6, <2>7, Zenon
  <1>12. s \in Chain[B] /\ s # head
    <2>1. CASE B = head
      BY <1>7, <1>10, <2>1, Zenon
    <2>2. CASE B # head /\ B # Genesis /\ previous[B] = head
      <3>1. Chain[B] = {B} \cup Chain[head] /\ block_num[B] = block_num[head] + 1
        BY <1>3, <2>2, BlockFacts, Zenon
      <3>2. block_num[s] < block_num[head]
        BY <1>9, <3>1
      <3> QED BY <1>7, <1>9, <3>1, <3>2
    <2> QED BY <1>3, <1>11, <2>1, <2>2, Zenon
  <1> QED BY <1>1, <1>7, <1>8, <1>10, <1>11, <1>12, Zenon

(* The index add leaves behind, with or without a pruned block.             *)
LEMMA AddIndex ==
  ASSUME Counting,
         LibsGrow, LibsAgree, InvalidGainNothing, IndexOK(index), head \in Known, Supreme(index, head),
         Low(index, Final(head)), in_current_chain = Marked(index, head),
         NEW b \in Blocks, Linkable(b), NEW cur, in_current_chain \subseteq cur, cur \subseteq in_current_chain \cup {b},
         NEW new, NEW floor, add(b, cur, new, floor),
         NEW B, B = Best(Inserted(b))
  PROVE  /\ IndexOK(index') /\ fork_head' = B /\ Supreme(index', B) /\ Low(index', Final(B))
         /\ head \in DOMAIN index' /\ DOMAIN index' \subseteq Known \cup {b}
         /\ \A x \in DOMAIN index' : index'[x] = Inserted(b)[x]
         /\ \A c \in Blocks : Forked(head, B, c) => c \in DOMAIN index'
  <1> DEFINE idx == Inserted(b)
  <1>1. IndexOK(idx) /\ DOMAIN idx = Known \cup {b}
    BY InsertedFacts, Zenon
  <1>2. /\ B \in Blocks /\ B \in Known \cup {b} /\ ~Outranks(head, B) /\ Supreme(idx, B)
        /\ \A y \in (Known \cup {b}) \ {B} : Before(idx, B, y)
    BY Elected, Zenon
  <1>3. head \in Blocks /\ Known \subseteq Blocks
    BY Zenon DEF IndexOK, Known
  <1>4. \/ \E s \in Prunable(idx, cur) :
             /\ index' = PrunedIndex(idx, s)
             /\ fork_head' = IF DOMAIN PrunedIndex(idx, s) = DOMAIN idx \ {s}
                             THEN Best(idx) ELSE Best(PrunedIndex(idx, s))
        \/ index' = idx /\ fork_head' = Best(idx)
    BY Zenon DEF add
  <1>5. CASE index' = idx /\ fork_head' = Best(idx)
    <2> HIDE DEF idx
    <2>1. Final(head) \in Nat /\ Final(B) \in Nat /\ Final(B) >= Final(head)
      BY <1>2, <1>3, RankFacts, Zenon
    <2>2. PICK d \in Known : block_num[d] <= Final(head)
      BY Zenon DEF Low, Known
    <2>3. Low(idx, Final(B))
      <3>1. block_num[d] \in Nat
        BY <1>3, BlockFacts, Zenon
      <3>2. block_num[d] <= Final(B)
        BY <2>1, <2>2, <3>1
      <3> QED BY <1>1, <3>2, Zenon DEF Low
    <2>4. ASSUME NEW c \in Blocks, Forked(head, B, c) PROVE c \in DOMAIN idx
      <3>1. Final(head) <= block_num[c] /\ c \in Chain[head]
        BY <1>2, <1>3, <2>4, ForkIsHigh, Zenon DEF Forked
      <3>2. block_num[d] <= block_num[c]
        <4>1. block_num[d] \in Nat /\ block_num[c] \in Nat
          BY <1>3, BlockFacts, Zenon
        <4> QED BY <2>1, <2>2, <3>1, <4>1
      <3> QED BY <1>1, <3>1, <3>2, Zenon DEF IndexOK, Closed
    <2>5. fork_head' = B
      BY <1>5, Zenon DEF idx
    <2> QED BY <1>1, <1>2, <1>5, <2>3, <2>4, <2>5, Zenon DEF idx
  <1>6. ASSUME NEW s \in Prunable(idx, cur), index' = PrunedIndex(idx, s),
               fork_head' = IF DOMAIN PrunedIndex(idx, s) = DOMAIN idx \ {s}
                            THEN Best(idx) ELSE Best(PrunedIndex(idx, s))
        PROVE  /\ IndexOK(index') /\ fork_head' = B /\ Supreme(index', B) /\ Low(index', Final(B))
               /\ head \in DOMAIN index' /\ DOMAIN index' \subseteq Known \cup {b}
               /\ \A x \in DOMAIN index' : index'[x] = idx[x]
               /\ \A c \in Blocks : Forked(head, B, c) => c \in DOMAIN index'
    <2>1. s \in Oldest(idx, cur) /\ block_num[s] < dpos_irreversible[B]
      BY <1>6, Zenon DEF Prunable
    <2>2. /\ s \in Known /\ s \in Blocks /\ s \in Chain[head] /\ s \in Chain[B] /\ s # head /\ s # B
          /\ block_num[s] <= Final(head) /\ block_num[s] < Final(B)
          /\ \A y \in Known \cup {b} : block_num[s] <= block_num[y]
          /\ \A c \in Blocks : Forked(head, B, c) => block_num[s] < block_num[c]
      BY <2>1, PrunedIsShared, Zenon
    <2>3. Best(idx) = B
      BY Zenon
    <2> HIDE DEF idx
    <2>4. s \in DOMAIN idx /\ \A y \in DOMAIN idx : block_num[s] <= block_num[y]
      BY <1>1, <2>2, Zenon
    <2>5. /\ IndexOK(index')
          /\ DOMAIN index' = {x \in DOMAIN idx : x # s /\ s \in Chain[x]}
          /\ \A x \in DOMAIN index' : index'[x] = idx[x]
      <3>1. /\ IndexOK(PrunedIndex(idx, s))
            /\ DOMAIN PrunedIndex(idx, s) = {x \in DOMAIN idx : x # s /\ s \in Chain[x]}
            /\ \A x \in DOMAIN PrunedIndex(idx, s) : PrunedIndex(idx, s)[x] = idx[x]
        BY <1>1, <2>4, PrunedFacts, Zenon
      <3> QED BY <1>6, <3>1, Zenon
    <2>6. head \in DOMAIN index' /\ B \in DOMAIN index' /\ DOMAIN index' \subseteq Known \cup {b}
      BY <1>1, <1>2, <2>2, <2>5, Zenon
    <2>7. Supreme(index', B)
      BY <1>2, <2>5, <2>6, Zenon DEF Supreme
    <2>8. fork_head' = B
      <3>1. DOMAIN index' \subseteq Blocks /\ index' \in [DOMAIN index' -> Nat]
        BY <2>5, Zenon DEF IndexOK
      <3>2. ASSUME NEW y \in DOMAIN index' \ {B} PROVE Before(index', B, y)
        <4>1. Before(idx, B, y)
          BY <1>2, <2>6, Zenon
        <4> QED BY <2>5, <2>6, <4>1, Zenon DEF Before
      <3>3. Best(index') = B
        BY <2>6, <3>1, <3>2, BestIs, Zenon
      <3> QED BY <1>6, <2>3, <3>3, Zenon
    <2>9. Low(index', Final(B))
      <3>1. PICK t \in Chain[B] : previous[t] = s /\ t # s /\ t # Genesis /\ block_num[t] = block_num[s] + 1
        BY <1>2, <2>2, ChainNext, Zenon
      <3>2. /\ block_num[s] \in Nat /\ Final(B) \in Nat /\ t \in Blocks
            /\ s \in Chain[t] /\ Chain[B] \subseteq Blocks
        <4>1. t \in Blocks
          BY <1>2, <3>1, ChainDown, Zenon
        <4>2. s \in Chain[t]
          BY <3>1, <4>1, <2>2, BlockFacts, Zenon
        <4> QED BY <1>2, <2>2, <4>1, <4>2, BlockFacts, RankFacts, Zenon
      <3>3. block_num[s] <= block_num[t] /\ block_num[t] <= Final(B)
        BY <2>2, <3>1, <3>2
      <3>4. t \in DOMAIN idx
        BY <1>1, <1>2, <2>4, <3>1, <3>3, Zenon DEF IndexOK, Closed
      <3> QED BY <2>5, <3>1, <3>2, <3>3, <3>4, Zenon DEF Low
    <2>10. ASSUME NEW c \in Blocks, Forked(head, B, c) PROVE c \in DOMAIN index'
      <3>1. block_num[s] < block_num[c] /\ c \in Chain[head]
        BY <2>2, <2>10, Zenon DEF Forked
      <3>2. block_num[s] \in Nat /\ block_num[c] \in Nat
        BY <2>2, BlockFacts, Zenon
      <3>3. block_num[s] <= block_num[c] /\ c # s
        BY <3>1, <3>2
      <3>4. c \in DOMAIN idx
        BY <1>1, <2>4, <3>1, <3>3, Zenon DEF IndexOK, Closed
      <3>5. s \in Chain[c]
        BY <1>3, <2>2, <3>1, <3>3, ChainLinear, Zenon
      <3> QED BY <2>5, <3>3, <3>4, <3>5, Zenon
    <2> QED BY <2>5, <2>6, <2>7, <2>8, <2>9, <2>10, Zenon
  <1> QED BY <1>4, <1>5, <1>6, Zenon DEF idx

(* What add does to the stores, for a node whose chain they hold up to H.   *)
LEMMA AddStores ==
  ASSUME Counting,
         LibsGrow, LibsAgree, InvalidGainNothing, IndexOK(index), head \in Known, Supreme(index, head),
         Low(index, Final(head)), in_current_chain = Marked(index, head), LogOK(blog),
         NEW b \in Blocks, Linkable(b), NEW cur, in_current_chain \subseteq cur, cur \subseteq in_current_chain \cup {b},
         NEW new, NEW floor \in Nat, floor <= Len(blog), Len(applied) \in Nat, add(b, cur, new, floor),
         NEW H \in Blocks, head \in Chain[H], Durable(blog, reversible \cup new, H), Guarded(blog, H)
  PROVE  /\ LogOK(blog') /\ Len(blog') >= Len(blog) /\ Durable(blog', reversible', H) /\ Guarded(blog', H)
         /\ committed' \in Nat /\ committed' <= Len(blog')
  <1> DEFINE idx == Inserted(b)
  <1>1. CASE blog' = blog /\ reversible' = reversible \cup new /\ committed' = floor
    <2>1. Len(blog) \in Nat
      BY EnumeratesAll, Zenon DEF LogOK
    <2> QED BY <1>1, <2>1
  <1>2. ASSUME NEW s \in Prunable(idx, cur), on_irreversible(s, new, floor)
        PROVE  /\ LogOK(blog') /\ Len(blog') >= Len(blog) /\ Durable(blog', reversible', H) /\ Guarded(blog', H)
               /\ committed' \in Nat /\ committed' <= Len(blog')
    <2>1. s \in Oldest(idx, cur) /\ block_num[s] < dpos_irreversible[Best(Inserted(b))] /\ CanLog(s)
      BY <1>2, Zenon DEF Prunable
    <2>2. s \in Chain[head] /\ s \in Blocks /\ block_num[s] <= Final(head)
      BY <2>1, PrunedIsShared, Zenon
    <2>3. head \in Blocks
      BY Zenon DEF IndexOK, Known
    <2>4. s \in Chain[H] /\ block_num[s] <= Final(H)
      <3>1. Chain[head] \subseteq Chain[H] /\ dpos_irreversible[head] <= dpos_irreversible[H]
        BY ChainDown, LibAlongChain, Zenon
      <3>2. dpos_irreversible[H] >= dpos_irreversible[head]
        BY <2>3, <3>1, BlockFacts, Zenon
      <3>3. Final(H) >= Final(head) /\ Final(H) \in Nat /\ Final(head) \in Nat /\ block_num[s] \in Nat
        BY <2>2, <2>3, <3>2, RankFacts, BlockFacts, Zenon
      <3>4. block_num[s] <= Final(H)
        BY <2>2, <3>3
      <3> QED BY <2>2, <3>1, <3>4, Zenon
    <2>5. /\ blog' = Logged(s) /\ committed' = Committed(s, floor)
          /\ reversible' = {r \in reversible \cup new : block_num[r] > block_num[s]}
      BY <1>2, Zenon DEF on_irreversible, Later
    <2>6. /\ LogOK(blog') /\ Len(blog') >= Len(blog) /\ Len(blog') >= block_num[s]
          /\ Durable(blog', reversible', H) /\ Guarded(blog', H)
      BY <2>1, <2>4, <2>5, LogFacts, Zenon
    <2>7. Len(blog) \in Nat /\ Len(blog') \in Nat
      BY <2>6, EnumeratesAll, Zenon DEF LogOK
    <2>8. block_num[s] \in Nat
      BY <2>2, BlockFacts, Zenon
    <2>9. committed' \in Nat /\ committed' <= Len(blog')
      BY <2>5, <2>6, <2>7, <2>8 DEF Committed
    <2> QED BY <2>6, <2>9, Zenon
  <1>3. \/ \E s \in Prunable(idx, cur) : on_irreversible(s, new, floor)
        \/ blog' = blog /\ reversible' = reversible \cup new /\ committed' = floor
    BY Zenon DEF add
  <1> QED BY <1>1, <1>2, <1>3, Zenon
=============================================================================
