------------------------- MODULE HeaderChainProofs -------------------------
(***************************************************************************)
(* Proofs about HeaderChain for every set of schedules and every value of  *)
(* the bounds, MaxTracked and ProducerRepetitions.                         *)
(*                                                                         *)
(* A header state is sound (Sound) when its fields have their types, the   *)
(* irreversible number is behind the proposed one, and confirm_count is    *)
(* aligned with the block number.  Each stage of a new block (generate_next, *)
(* set_confirmed, maybe_promote_pending, set_new_producers) keeps a header *)
(* state sound; IInv says that the head and the pending block are sound    *)
(* and is inductive.  Neither safety property is inductive without the     *)
(* other: set_confirmed computes a proposed number from a position in      *)
(* confirm_count, which is at most the block number only when the counters *)
(* are aligned.                                                            *)
(***************************************************************************)
EXTENDS HeaderChain, FiniteSetTheorems, WellFoundedInduction, TLAPS

(* A nonempty set of natural numbers has a least element. *)
LEMMA LeastNumber ==
  ASSUME NEW S \in SUBSET Nat, S # {}
  PROVE  \E m \in S : \A k \in S : m <= k
  <1>1. PICK m \in S : \A k \in S : ~(<<k, m>> \in OpToRel(<, Nat))
    BY NatLessThanWellFounded, WFMin, Zenon
  <1>2. \A k \in S : ~(k < m)
    BY <1>1, Zenon DEF OpToRel
  <1> QED BY <1>2

(* calc_dpos_last_irreversible picks a number some producer implied: at     *)
(* most the k producers of its rank implied less, and more than k implied   *)
(* it or less.                                                              *)
LEMMA CalcRank ==
  ASSUME NEW f, NEW B \in Nat, IsFiniteSet(DOMAIN f), f \in [DOMAIN f -> 0..B], DOMAIN f # {}
  PROVE  LET v == calc_dpos_last_irreversible(f)
         IN  /\ v \in {f[p] : p \in DOMAIN f}
             /\ Cardinality({p \in DOMAIN f : f[p] < v}) <= LibIndex(Cardinality(DOMAIN f))
             /\ Cardinality({p \in DOMAIN f : f[p] <= v}) > LibIndex(Cardinality(DOMAIN f))
  <1> DEFINE D == DOMAIN f
             k == LibIndex(Cardinality(D))
             Below(v)   == {p \in D : f[p] < v}
             UpTo(v)    == {p \in D : f[p] <= v}
             S == {v \in Nat : Cardinality(UpTo(v)) > k}
             OK(v) == Cardinality(Below(v)) <= k /\ Cardinality(UpTo(v)) > k
             V == {f[p] : p \in D}
  <1>1. Cardinality(D) \in Nat \ {0}
    BY FS_CardinalityType, FS_EmptySet, Zenon
  <1>2. k \in Nat /\ k < Cardinality(D)
    BY <1>1 DEF LibIndex
  <1>3. UpTo(B) = D
    OBVIOUS
  <1>4. B \in S
    BY <1>2, <1>3, Zenon
  <1>5. PICK m \in S : \A j \in S : m <= j
    <2> HIDE DEF S
    <2>1. S \in SUBSET Nat BY Zenon DEF S
    <2> QED BY <1>4, <2>1, LeastNumber, Zenon
  <1>6. Cardinality(Below(m)) <= k
    <2>1. CASE m = 0
      <3>1. Below(m) = {}
        BY <2>1
      <3> QED BY <3>1, FS_EmptySet, <1>2
    <2>2. CASE m # 0
      <3>1. m - 1 \in Nat /\ m - 1 \notin S
        BY <1>5, <2>2
      <3>2. Below(m) = UpTo(m - 1)
        BY <3>1
      <3>3. Cardinality(UpTo(m - 1)) \in Nat
        BY FS_Subset, FS_CardinalityType, Zenon
      <3> HIDE DEF UpTo, Below, k
      <3> QED BY <3>1, <3>2, <3>3, <1>2
    <2> QED BY <2>1, <2>2, Zenon
  <1>7. m \in V
    <2>1. SUFFICES ASSUME \A p \in D : f[p] # m PROVE FALSE
      BY Zenon
    <2>2. Below(m) = UpTo(m)
      BY <2>1
    <2>3. Cardinality(UpTo(m)) > k
      BY Zenon
    <2>4. Cardinality(UpTo(m)) \in Nat
      BY FS_Subset, FS_CardinalityType, Zenon
    <2> HIDE DEF UpTo, Below, k
    <2> QED BY <2>2, <2>3, <2>4, <1>6, <1>2
  <1>8. \E v \in V : OK(v)
    BY <1>6, <1>7, Zenon
  <1>9. calc_dpos_last_irreversible(f) = CHOOSE v \in V : OK(v)
    BY Zenon DEF calc_dpos_last_irreversible
  <1>10. calc_dpos_last_irreversible(f) \in V /\ OK(calc_dpos_last_irreversible(f))
    <2> HIDE DEF V, OK
    <2> QED BY <1>8, <1>9, Zenon
  <1> QED BY <1>10, Zenon

(* It stays in the range of the implied numbers.                            *)
LEMMA CalcInRange ==
  ASSUME NEW f, NEW B \in Nat, IsFiniteSet(DOMAIN f), f \in [DOMAIN f -> 0..B]
  PROVE  calc_dpos_last_irreversible(f) \in 0..B
  <1>1. CASE DOMAIN f = {}
    BY <1>1 DEF calc_dpos_last_irreversible
  <1>2. CASE DOMAIN f # {}
    <2>1. calc_dpos_last_irreversible(f) \in {f[p] : p \in DOMAIN f}
      BY <1>2, CalcRank, Zenon
    <2>2. PICK p \in DOMAIN f : calc_dpos_last_irreversible(f) = f[p]
      BY <2>1, Zenon
    <2>3. f[p] \in 0..B
      BY Zenon
    <2> QED BY <2>2, <2>3, Zenon
  <1> QED BY <1>1, <1>2, Zenon

(* It is at least every number below which no more than k producers are.    *)
LEMMA CalcAtLeast ==
  ASSUME NEW f, NEW B \in Nat, IsFiniteSet(DOMAIN f), f \in [DOMAIN f -> 0..B], DOMAIN f # {},
         NEW v \in Nat, Cardinality({p \in DOMAIN f : f[p] < v}) <= LibIndex(Cardinality(DOMAIN f))
  PROVE  calc_dpos_last_irreversible(f) >= v
  <1> DEFINE c == calc_dpos_last_irreversible(f)
             k == LibIndex(Cardinality(DOMAIN f))
             Below == {p \in DOMAIN f : f[p] < v}
             UpTo  == {p \in DOMAIN f : f[p] <= c}
  <1>1. c \in 0..B
    BY CalcInRange, Zenon
  <1>2. Cardinality(UpTo) > k
    BY CalcRank, Zenon
  <1>3. Cardinality(Below) <= k
    BY Zenon
  <1>4. IsFiniteSet(Below) /\ Cardinality(Below) \in Nat /\ Cardinality(UpTo) \in Nat
    BY FS_Subset, FS_CardinalityType, Zenon
  <1>5. Cardinality(DOMAIN f) \in Nat \ {0}
    BY FS_CardinalityType, FS_EmptySet, Zenon
  <1>6. k \in Nat
    BY <1>5 DEF LibIndex
  <1>7. SUFFICES ASSUME c < v PROVE FALSE
    BY <1>1
  <1> HIDE DEF c, k
  <1>8. UpTo \in SUBSET Below
    BY <1>1, <1>7
  <1> HIDE DEF Below, UpTo
  <1>9. Cardinality(UpTo) <= Cardinality(Below)
    BY <1>4, <1>8, FS_Subset, Zenon
  <1> QED BY <1>2, <1>3, <1>4, <1>6, <1>9

(* The slot arithmetic of get_scheduled_producer stays inside the schedule. *)
LEMMA SlotInSchedule ==
  ASSUME NEW n \in Nat \ {0}, NEW when \in Nat
  PROVE  (when % (n * ProducerRepetitions)) \div ProducerRepetitions + 1 \in 1..n
  <1> DEFINE R == ProducerRepetitions
             m == n * R
             a == when % m
             q == a \div R
  <1>1. R \in Nat \ {0}
    BY RepetitionsAssumption, Zenon
  <1>2. m \in Nat \ {0}
    BY <1>1
  <1>3. a \in 0..(m - 1)
    <2> HIDE DEF m
    <2> QED BY <1>2
  <1>4. q \in Nat /\ R * q <= a
    <2> HIDE DEF a, R
    <2> QED BY <1>1, <1>3
  <1>5. ~(q >= n)
    <2> HIDE DEF a, R, q
    <2>1. ASSUME q >= n PROVE R * q >= R * n
      BY <2>1, <1>1, <1>4
    <2>2. m = R * n
      BY <1>1
    <2> QED BY <2>1, <2>2, <1>1, <1>2, <1>3, <1>4
  <1> QED BY <1>4, <1>5

(* A header state is the record of its fields. *)
LEMMA FieldsOf ==
  ASSUME NEW hs, IsHeaderState(hs)
  PROVE  DOMAIN hs = HeaderFields
  <1>1. hs = [f \in HeaderFields |-> hs[f]]
    BY Zenon DEF IsHeaderState
  <1> QED BY <1>1, Zenon

(* The schedule that get_scheduled_producer indexes. *)
LEMMA ActiveSchedule ==
  ASSUME NEW hs, IsHeaderState(hs)
  PROVE  hs.active.producers \in Seq(Accounts) /\ Len(hs.active.producers) \in Nat \ {0}
  <1>1. hs.active \in ScheduleType /\ hs.active.producers # <<>>
    BY Zenon DEF IsHeaderState
  <1>2. hs.active.producers \in Seq(Accounts)
    BY <1>1, Zenon DEF ScheduleType
  <1> QED BY <1>1, <1>2

(* The producer of every slot is an account of the active schedule.         *)
LEMMA ScheduledProducer ==
  ASSUME NEW hs, IsHeaderState(hs), NEW when \in Nat
  PROVE  get_scheduled_producer(hs, when) \in Accounts
  <1> DEFINE prods == hs.active.producers
             i == (when % (Len(prods) * ProducerRepetitions)) \div ProducerRepetitions + 1
  <1>1. prods \in Seq(Accounts) /\ Len(prods) \in Nat \ {0}
    BY ActiveSchedule, Zenon
  <1>2. i \in 1..Len(prods)
    BY <1>1, SlotInSchedule, Zenon
  <1>3. prods[i] \in Accounts
    <2> HIDE DEF prods, i
    <2> QED BY <1>1, <1>2
  <1> QED BY <1>3, Zenon DEF get_scheduled_producer

(* An assignment to an entry keeps a map from accounts to block numbers one. *)
LEMMA PutType ==
  ASSUME NEW map, NEW keys, NEW key \in keys, NEW value \in Nat, IsNumMap(map, keys)
  PROVE  IsNumMap(Put(map, key, value), keys)
  <1>1. IsFiniteSet(DOMAIN map \cup {key})
    BY FS_AddElement, Zenon DEF IsNumMap
  <1> QED BY <1>1, Zenon DEF IsNumMap, Put

(* GrowConfirmCount: one counter more, and never more than MaxTracked.      *)
LEMMA GrowType ==
  ASSUME NEW cc \in Seq(Nat \ {0}), NEW c \in Nat \ {0}
  PROVE  /\ GrowConfirmCount(cc, c) \in Seq(Nat \ {0})
         /\ Len(cc) < MaxTracked => Len(GrowConfirmCount(cc, c)) = Len(cc) + 1
         /\ Len(cc) >= MaxTracked => Len(GrowConfirmCount(cc, c)) = Len(cc)
  BY MaxTrackedAssumption DEF GrowConfirmCount

(* generate_next turns a sound header state into a typed one with the new   *)
(* block's counter, and the irreversible number stays behind the proposed one. *)
LEMMA GenerateNextType ==
  ASSUME NEW hs, IsHeaderState(hs), BehindProposed(hs), NEW when \in Nat
  PROVE  /\ IsHeaderState(generate_next(hs, when))
         /\ BehindProposed(generate_next(hs, when))
         /\ Aligned(hs) => Aligned(generate_next(hs, when))
  <1> DEFINE g == generate_next(hs, when)
             producer == get_scheduled_producer(hs, when)
             implied  == Put(hs.last_implied_irb, producer, hs.dpos_proposed)
             lib      == calc_dpos_last_irreversible(implied)
             counts   == GrowConfirmCount(hs.confirm_count, RequiredConfs(hs.active))
             produced == Put(hs.last_produced, producer, hs.block_num + 1)
  <1>0. /\ hs.block_num \in Nat \ {0} /\ hs.dpos_proposed \in Nat
        /\ IsNumMap(hs.last_produced, BlockProducers) /\ IsNumMap(hs.last_implied_irb, Accounts)
        /\ hs.confirm_count \in Seq(Nat \ {0}) /\ hs.active \in ScheduleType
    BY Zenon DEF IsHeaderState
  <1>1. producer \in Accounts
    BY ScheduledProducer, Zenon
  <1> HIDE DEF producer
  <1>2. IsNumMap(implied, Accounts) /\ IsNumMap(produced, BlockProducers)
    <2>1. IsNumMap(implied, Accounts)
      BY <1>0, <1>1, PutType, Zenon
    <2>2. producer \in BlockProducers
      BY <1>1, Zenon DEF BlockProducers
    <2>3. IsNumMap(produced, BlockProducers)
      BY <1>0, <2>2, PutType
    <2> QED BY <2>1, <2>3, Zenon
  <1>3. \A p \in DOMAIN implied : implied[p] <= hs.dpos_proposed
    <2>1. \A p \in DOMAIN hs.last_implied_irb : hs.last_implied_irb[p] <= hs.dpos_proposed
      BY Zenon DEF BehindProposed
    <2> QED BY <1>0, <2>1 DEF Put
  <1>4. lib \in 0..hs.dpos_proposed
    <2>1. implied \in [DOMAIN implied -> Nat] /\ IsFiniteSet(DOMAIN implied)
      BY <1>2, Zenon DEF IsNumMap
    <2> HIDE DEF implied
    <2>2. implied \in [DOMAIN implied -> 0..hs.dpos_proposed]
      BY <1>0, <1>3, <2>1
    <2> QED BY <1>0, <2>1, <2>2, CalcInRange, Zenon
  <1>12. RequiredConfs(hs.active) \in Nat \ {0}
    <2> DEFINE n == Len(hs.active.producers)
    <2>1. n \in Nat
      BY ActiveSchedule, Zenon
    <2>2. (n * 2) \div 3 + 1 \in Nat \ {0}
      <3> HIDE DEF n
      <3> QED BY <2>1
    <2> QED BY <2>2, Zenon DEF RequiredConfs
  <1>5. counts \in Seq(Nat \ {0})
    BY <1>0, <1>12, GrowType, Zenon
  <1>6. /\ DOMAIN g = HeaderFields
        /\ g.block_num = hs.block_num + 1 /\ g.timestamp = when /\ g.confirmed = hs.confirmed
        /\ g.producer = producer /\ g.schedule_version = hs.active.version
        /\ g.new_producers = <<>> /\ g.active = hs.active /\ g.pending = hs.pending
        /\ g.pending_lib = hs.pending_lib /\ g.last_produced = produced
        /\ g.last_implied_irb = implied /\ g.confirm_count = counts
        /\ g.dpos_proposed = hs.dpos_proposed /\ g.dpos_irreversible = lib
    <2> HIDE DEF produced, implied, counts, lib, producer
    <2> QED BY FieldsOf, Zenon DEF generate_next, HeaderFields, produced, implied, counts, lib, producer
  <1>7. g = [f \in HeaderFields |-> g[f]]
    BY FieldsOf, Zenon DEF generate_next
  <1>8. hs.active.version \in Nat
    BY <1>0, Zenon DEF ScheduleType
  <1> HIDE DEF g, produced, implied, counts, lib, producer
  <1>9. IsHeaderState(g)
    <2>1. g.block_num \in Nat \ {0} /\ g.timestamp \in Nat /\ g.confirmed \in Nat
      BY <1>0, <1>6, SMTT(20) DEF IsHeaderState
    <2>2. g.producer \in BlockProducers /\ g.schedule_version \in Nat
      BY <1>1, <1>6, <1>8, Zenon DEF BlockProducers
    <2>3. g.new_producers \in Seq(ScheduleType)
      BY <1>6
    <2>4. /\ g.active \in ScheduleType /\ g.active.producers # <<>>
          /\ g.pending \in ScheduleType /\ g.pending_lib \in Nat
      BY <1>6, Zenon DEF IsHeaderState
    <2>5. g.dpos_proposed \in Nat /\ g.dpos_irreversible \in Nat
      BY <1>0, <1>4, <1>6
    <2> QED BY <1>2, <1>5, <1>6, <1>7, <2>1, <2>2, <2>3, <2>4, <2>5, Zenon DEF IsHeaderState
  <1>10. BehindProposed(g)
    BY <1>0, <1>3, <1>4, <1>6 DEF BehindProposed
  <1>11. Aligned(hs) => Aligned(g)
    <2>1. /\ Len(hs.confirm_count) \in Nat
          /\ Len(hs.confirm_count) < MaxTracked => Len(counts) = Len(hs.confirm_count) + 1
          /\ Len(hs.confirm_count) >= MaxTracked => Len(counts) = Len(hs.confirm_count)
      BY <1>0, <1>12, GrowType DEF counts
    <2> QED BY <1>0, <1>6, <2>1, MaxTrackedAssumption DEF Aligned, BehindProposed
  <1> QED BY <1>9, <1>10, <1>11, Zenon DEF g

(* A nonempty set of positions has a last one. *)
LEMMA LastPosition ==
  ASSUME NEW n \in Nat, NEW S \in SUBSET (1..n), S # {}
  PROVE  \E m \in S : \A k \in S : k <= m
  <1> DEFINE T == {t \in Nat : \E i \in S : t = n - i}
  <1>1. \A i \in S : n - i \in T
    OBVIOUS
  <1>5. T # {}
    BY <1>1, Zenon
  <1>6. T \in SUBSET Nat
    BY Zenon
  <1>2. PICK t \in T : \A k \in T : t <= k
    <2> HIDE DEF T
    <2> QED BY <1>5, <1>6, LeastNumber, Zenon
  <1>3. PICK m \in S : t = n - m
    BY Zenon
  <1>4. ASSUME NEW k \in S PROVE k <= m
    <2>1. t <= n - k
      BY <1>1, <1>2, Zenon
    <2> QED BY <1>3, <2>1
  <1> QED BY <1>4, Zenon

(* set_confirmed: whichever counters reach zero, the header state stays typed, *)
(* the proposed number does not exceed the block number, and the counters that *)
(* remain are those of the blocks after it.                                 *)
LEMMA SetConfirmedType ==
  ASSUME NEW hs, IsHeaderState(hs), BehindProposed(hs), Aligned(hs), NEW num \in Nat
  PROVE  /\ IsHeaderState(set_confirmed(hs, num))
         /\ BehindProposed(set_confirmed(hs, num))
         /\ Aligned(set_confirmed(hs, num))
  <1> DEFINE g     == set_confirmed(hs, num)
             cc    == hs.confirm_count
             first == IF num < Len(cc) THEN Len(cc) - num ELSE 1
             reached == {i \in first..Len(cc) : cc[i] = 1}
             last  == CHOOSE i \in reached : \A j \in reached : j <= i
             down  == [i \in 1..Len(cc) |-> IF i >= first THEN cc[i] - 1 ELSE cc[i]]
             kept  == [i \in 1..(Len(cc) - last) |-> cc[last + i] - 1]
  <1>0. /\ hs.block_num \in Nat \ {0} /\ hs.dpos_proposed \in Nat /\ hs.dpos_irreversible \in Nat
        /\ cc \in Seq(Nat \ {0}) /\ Len(cc) \in Nat
    BY DEF IsHeaderState
  <1>1. first \in Nat \ {0}
    BY <1>0
  <1>2. /\ Len(cc) <= hs.block_num - 1 /\ Len(cc) <= hs.block_num - hs.dpos_proposed
        /\ Len(cc) <= MaxTracked
    BY <1>0, MaxTrackedAssumption DEF Aligned, BehindProposed
  <1>3. \A p \in DOMAIN hs.last_implied_irb :
          hs.last_implied_irb[p] \in Nat /\ hs.last_implied_irb[p] <= hs.dpos_proposed
    BY Zenon DEF BehindProposed, IsHeaderState, IsNumMap
  <1>4. CASE reached = {}
    <2>1. g = [hs EXCEPT !.confirmed = num, !.confirm_count = down]
      BY <1>4, Zenon DEF set_confirmed
    <2>2. down \in Seq(Nat \ {0}) /\ Len(down) = Len(cc)
      <3>1. ASSUME NEW i \in 1..Len(cc) PROVE down[i] \in Nat \ {0}
        <4> HIDE DEF cc, first
        <4> QED BY <1>0, <1>1, <1>4
      <3> HIDE DEF cc, first
      <3> QED BY <1>0, <3>1
    <2>3. /\ g.confirm_count = down /\ g.confirmed = num
          /\ \A f \in HeaderFields \ {"confirmed", "confirm_count"} : g[f] = hs[f]
          /\ g = [f \in HeaderFields |-> g[f]]
      <3> HIDE DEF down
      <3> QED BY <2>1, FieldsOf, Zenon DEF HeaderFields
    <2> HIDE DEF g, down
    <2>4. IsHeaderState(g)
      BY <2>2, <2>3, Zenon DEF IsHeaderState, HeaderFields
    <2>5. BehindProposed(g)
      BY <2>3 DEF BehindProposed, HeaderFields
    <2>7. g.block_num = hs.block_num /\ g.dpos_proposed = hs.dpos_proposed
      BY <2>3, Zenon DEF HeaderFields
    <2>6. Aligned(g)
      BY <2>2, <2>3, <2>7, Zenon DEF Aligned
    <2> QED BY <2>4, <2>5, <2>6, Zenon DEF g
  <1>5. CASE reached # {}
    <2>1. g = [hs EXCEPT !.confirmed = num, !.dpos_proposed = BlockNumFor(hs, last),
                         !.confirm_count = kept]
      BY <1>5, Zenon DEF set_confirmed
    <2>2. last \in reached /\ \A j \in reached : j <= last
      <3>1. reached \in SUBSET (1..Len(cc))
        <4> HIDE DEF cc, first
        <4> QED BY <1>0, <1>1
      <3> HIDE DEF reached
      <3> QED BY <1>0, <1>5, <3>1, LastPosition, Zenon
    <2>3. last \in 1..Len(cc) /\ last >= first
      <3> HIDE DEF last, cc, first
      <3> QED BY <1>0, <1>1, <2>2
    <2>4. kept \in Seq(Nat \ {0}) /\ Len(kept) = Len(cc) - last
      <3>1. ASSUME NEW i \in 1..(Len(cc) - last) PROVE cc[last + i] - 1 \in Nat \ {0}
        <4> HIDE DEF last, cc, first
        <4> QED BY <1>0, <1>1, <2>2, <2>3
      <3> HIDE DEF last, cc, first
      <3> QED BY <1>0, <2>3, <3>1
    <2>5. /\ g.confirm_count = kept /\ g.confirmed = num /\ g.dpos_proposed = BlockNumFor(hs, last)
          /\ \A f \in HeaderFields \ {"confirmed", "confirm_count", "dpos_proposed"} : g[f] = hs[f]
          /\ g = [f \in HeaderFields |-> g[f]]
      <3> HIDE DEF kept, last
      <3> QED BY <2>1, FieldsOf, Zenon DEF HeaderFields
    <2>6. BlockNumFor(hs, last) = hs.block_num - (Len(cc) - last)
      BY Zenon DEF BlockNumFor
    <2> HIDE DEF g, kept, last, cc, first, reached
    <2>7. /\ BlockNumFor(hs, last) \in Nat \ {0} /\ BlockNumFor(hs, last) <= hs.block_num
          /\ BlockNumFor(hs, last) > hs.dpos_proposed
      BY <1>0, <1>2, <2>3, <2>6, SMTT(20)
    <2>8. IsHeaderState(g)
      BY <2>4, <2>5, <2>7, Zenon DEF IsHeaderState, HeaderFields
    <2>11. /\ g.block_num = hs.block_num /\ g.last_implied_irb = hs.last_implied_irb
           /\ g.dpos_irreversible = hs.dpos_irreversible
      BY <2>5, Zenon DEF HeaderFields
    <2>12. g.dpos_proposed = BlockNumFor(hs, last) /\ Len(g.confirm_count) = Len(cc) - last
      BY <2>4, <2>5, Zenon
    <2>9. BehindProposed(g)
      BY <1>0, <1>3, <2>7, <2>11, <2>12 DEF BehindProposed
    <2>10. Aligned(g)
      <3>1. /\ g.dpos_proposed # 0 /\ g.block_num - g.dpos_proposed = Len(cc) - last
            /\ g.block_num - g.dpos_proposed \in Nat
        BY <1>0, <2>3, <2>6, <2>7, <2>11, <2>12, SMTT(20)
      <3>2. Len(cc) - last <= MaxTracked
        BY <1>0, <1>2, <2>3, MaxTrackedAssumption
      <3> QED BY <2>12, <3>1, <3>2, Zenon DEF Aligned
    <2> QED BY <2>8, <2>9, <2>10, Zenon DEF g
  <1> QED BY <1>4, <1>5, Zenon

(* The producers of a schedule are finitely many accounts.                  *)
LEMMA ProducersFinite ==
  ASSUME NEW sch \in ScheduleType
  PROVE  ProducersOf(sch) \in SUBSET Accounts /\ IsFiniteSet(ProducersOf(sch))
  <1> DEFINE prods == sch.producers
             n == Len(prods)
             P == {prods[i] : i \in DOMAIN prods}
  <1>1. prods \in Seq(Accounts)
    BY Zenon DEF ScheduleType
  <1>2. n \in Nat /\ DOMAIN prods = 1..n /\ \A i \in 1..n : prods[i] \in Accounts
    <2> HIDE DEF prods
    <2> QED BY <1>1
  <1>3. prods \in Surjection(1..n, P)
    <2> HIDE DEF prods
    <2> QED BY <1>1, <1>2 DEF Surjection
  <1>4. IsFiniteSet(1..n)
    BY <1>2, FS_Interval
  <1>5. IsFiniteSet(P)
    <2> HIDE DEF P, n, prods
    <2> QED BY <1>3, <1>4, FS_Surjection, Zenon
  <1>6. P \in SUBSET Accounts
    BY <1>2, Zenon
  <1> QED BY <1>5, <1>6, Zenon DEF ProducersOf

(* The maps that maybe_promote_pending rebuilds map accounts to block numbers. *)
LEMMA InheritType ==
  ASSUME NEW map, NEW keys, IsNumMap(map, keys), NEW default \in Nat,
         NEW producers \in SUBSET keys, IsFiniteSet(producers)
  PROVE  IsNumMap(Inherit(map, producers, default), keys)
  BY Zenon DEF IsNumMap, Inherit

(* maybe_promote_pending keeps a header state sound: the numbers new producers *)
(* start from are the irreversible number, which is behind the proposed one. *)
LEMMA PromoteType ==
  ASSUME NEW hs, IsHeaderState(hs), BehindProposed(hs), Aligned(hs)
  PROVE  /\ IsHeaderState(maybe_promote_pending(hs))
         /\ BehindProposed(maybe_promote_pending(hs))
         /\ Aligned(maybe_promote_pending(hs))
  <1>1. CASE ~PendingPromotable(hs)
    BY <1>1, Zenon DEF maybe_promote_pending
  <1>2. CASE PendingPromotable(hs)
    <2> DEFINE g == maybe_promote_pending(hs)
               prods    == ProducersOf(hs.pending)
               lib      == hs.dpos_irreversible
               produced == Put(Inherit(hs.last_produced, prods, lib), hs.producer, hs.block_num)
               implied  == Inherit(hs.last_implied_irb, prods, lib)
               emptied  == [hs.pending EXCEPT !.producers = <<>>]
    <2>0. /\ hs.block_num \in Nat \ {0} /\ hs.dpos_proposed \in Nat /\ lib \in Nat
          /\ hs.producer \in BlockProducers /\ hs.pending \in ScheduleType
          /\ IsNumMap(hs.last_produced, BlockProducers) /\ IsNumMap(hs.last_implied_irb, Accounts)
      BY Zenon DEF IsHeaderState
    <2>1. prods \in SUBSET Accounts /\ prods \in SUBSET BlockProducers /\ IsFiniteSet(prods)
      BY <2>0, ProducersFinite, Zenon DEF BlockProducers
    <2>2. g = [hs EXCEPT !.active = hs.pending, !.pending = emptied,
                         !.last_produced = produced, !.last_implied_irb = implied]
      BY <1>2, Zenon DEF maybe_promote_pending
    <2>3. /\ g.active = hs.pending /\ g.pending = emptied
          /\ g.last_produced = produced /\ g.last_implied_irb = implied
          /\ \A f \in HeaderFields \ {"active", "pending", "last_produced", "last_implied_irb"} :
               g[f] = hs[f]
          /\ g = [f \in HeaderFields |-> g[f]]
      <3> HIDE DEF produced, implied, emptied
      <3> QED BY <2>2, FieldsOf, Zenon DEF HeaderFields
    <2>4. IsNumMap(implied, Accounts)
      BY <2>0, <2>1, InheritType, Zenon
    <2>5. IsNumMap(produced, BlockProducers)
      <3>1. IsNumMap(Inherit(hs.last_produced, prods, lib), BlockProducers)
        BY <2>0, <2>1, InheritType, Zenon
      <3> QED BY <2>0, <3>1, PutType, Zenon
    <2>6. emptied \in ScheduleType
      <3>1. <<>> \in Seq(Accounts)
        OBVIOUS
      <3> QED BY <2>0, <3>1, Zenon DEF ScheduleType
    <2>7. \A p \in DOMAIN implied : implied[p] <= hs.dpos_proposed
      <3>1. \A p \in DOMAIN hs.last_implied_irb : hs.last_implied_irb[p] <= hs.dpos_proposed
        BY Zenon DEF BehindProposed
      <3>2. lib <= hs.dpos_proposed
        BY Zenon DEF BehindProposed
      <3> QED BY <3>1, <3>2, Zenon DEF Inherit
    <2>8. hs.pending.producers # <<>>
      BY <1>2, Zenon DEF PendingPromotable
    <2> HIDE DEF g, produced, implied, emptied
    <2>9. IsHeaderState(g)
      BY <2>0, <2>3, <2>4, <2>5, <2>6, <2>8, Zenon DEF IsHeaderState, HeaderFields
    <2>10. /\ g.block_num = hs.block_num /\ g.dpos_proposed = hs.dpos_proposed
           /\ g.dpos_irreversible = hs.dpos_irreversible /\ g.confirm_count = hs.confirm_count
      BY <2>3, Zenon DEF HeaderFields
    <2>11. BehindProposed(g)
      BY <2>3, <2>7, <2>10, Zenon DEF BehindProposed
    <2>12. Aligned(g)
      BY <2>10, Zenon DEF Aligned
    <2> QED BY <2>9, <2>11, <2>12, Zenon DEF g
  <1> QED BY <1>1, <1>2, Zenon

(* set_new_producers keeps a header state sound.                            *)
LEMMA SetNewProducersType ==
  ASSUME NEW hs, IsHeaderState(hs), BehindProposed(hs), Aligned(hs), NEW sch \in ScheduleType
  PROVE  /\ IsHeaderState(set_new_producers(hs, sch))
         /\ BehindProposed(set_new_producers(hs, sch))
         /\ Aligned(set_new_producers(hs, sch))
  <1> DEFINE g == set_new_producers(hs, sch)
  <1>1. /\ g.new_producers = <<sch>> /\ g.pending = sch /\ g.pending_lib = hs.block_num
        /\ \A f \in HeaderFields \ {"new_producers", "pending", "pending_lib"} : g[f] = hs[f]
        /\ g = [f \in HeaderFields |-> g[f]]
    BY FieldsOf, Zenon DEF set_new_producers, HeaderFields
  <1>2. <<sch>> \in Seq(ScheduleType)
    OBVIOUS
  <1> HIDE DEF g
  <1>3. IsHeaderState(g)
    BY <1>1, <1>2, Zenon DEF IsHeaderState, HeaderFields
  <1>4. /\ g.block_num = hs.block_num /\ g.dpos_proposed = hs.dpos_proposed
        /\ g.dpos_irreversible = hs.dpos_irreversible /\ g.confirm_count = hs.confirm_count
        /\ g.last_implied_irb = hs.last_implied_irb
    BY <1>1, Zenon DEF HeaderFields
  <1>5. BehindProposed(g) /\ Aligned(g)
    BY <1>4, Zenon DEF BehindProposed, Aligned
  <1> QED BY <1>3, <1>5, Zenon DEF g

-----------------------------------------------------------------------------
(* A header state that keeps its type and both irreversibility invariants. *)
Sound(hs) == IsHeaderState(hs) /\ BehindProposed(hs) /\ Aligned(hs)
GpoType == [num : Nat, schedule : ScheduleType]
IInv ==
  /\ Sound(head)
  /\ pending # <<>> => /\ pending = <<pending[1]>>
                       /\ Sound(pending[1].bs)
                       /\ pending[1].gpo \in GpoType
  /\ gpo \in GpoType
  /\ IsNumMap(watermark, BlockProducers)
  /\ restarts \in 0..MaxRestarts
  /\ Len(history) = head.block_num

(* It is the type invariant together with the two safety invariants.        *)
LEMMA IInvParts == IInv <=> TypeOK /\ LibBehindProposed /\ ConfirmCountAligned
  BY Zenon DEF IInv, Sound, TypeOK, LibBehindProposed, ConfirmCountAligned, GpoType

(* The genesis state of initialize_fork_db satisfies the invariant.         *)
LEMMA InitIInv == Init => IInv
  <1> SUFFICES ASSUME Init PROVE IInv
    BY Zenon
  <1>1. InitialSchedule \in ScheduleType /\ InitialSchedule.producers # <<>>
    <2>1. SystemAccount \in Accounts
      BY Zenon DEF Accounts
    <2>2. <<SystemAccount>> \in Seq(Accounts)
      BY <2>1
    <2> QED BY <2>2, Zenon DEF InitialSchedule, ScheduleType
  <1>2. \A keys : IsNumMap([p \in {} |-> 0], keys)
    BY FS_EmptySet, Zenon DEF IsNumMap
  <1> DEFINE g == GenesisState(InitialSchedule)
             empty == [p \in {} |-> 0]
  <1>3. /\ g.block_num = 1 /\ g.timestamp = 0 /\ g.confirmed = 1
        /\ g.schedule_version = 0 /\ g.new_producers = <<>> /\ g.active = InitialSchedule
        /\ g.pending = InitialSchedule /\ g.pending_lib = 0 /\ g.last_produced = empty
        /\ g.last_implied_irb = empty /\ g.confirm_count = <<>> /\ g.dpos_proposed = 0
        /\ g.dpos_irreversible = 0 /\ g = [f \in HeaderFields |-> g[f]]
    <2> HIDE DEF empty
    <2> QED BY Zenon DEF GenesisState, HeaderFields, empty
  <1>4. g.producer \in BlockProducers
    BY Zenon DEF BlockProducers, GenesisState
  <1>5. <<>> \in Seq(ScheduleType) /\ <<>> \in Seq(Nat \ {0})
    OBVIOUS
  <1> HIDE DEF g
  <1>6. IsHeaderState(g)
    BY <1>1, <1>2, <1>3, <1>4, <1>5 DEF IsHeaderState
  <1>7. BehindProposed(g) /\ Aligned(g)
    <2>1. DOMAIN g.last_implied_irb = {} /\ Len(g.confirm_count) = 0
      BY <1>3, Zenon
    <2> QED BY <1>3, <2>1, MaxTrackedAssumption DEF BehindProposed, Aligned
  <1>8. head = g /\ pending = <<>> /\ gpo = NoProposal /\ watermark = empty /\ restarts = 0
        /\ Len(history) = 1
    BY Zenon DEF Init, g
  <1>9. NoProposal \in GpoType
    BY DEF NoProposal, GpoType, ScheduleType
  <1>10. TypeOK
    <2>1. restarts \in 0..MaxRestarts
      BY <1>8, BoundsAssumption
    <2>2. Len(history) = head.block_num
      BY <1>3, <1>8, Zenon
    <2> QED BY <1>2, <1>6, <1>8, <1>9, <2>1, <2>2, Zenon DEF TypeOK, GpoType
  <1> QED BY <1>7, <1>8, <1>10, IInvParts, Zenon DEF LibBehindProposed, ConfirmCountAligned

(* A block that start_block prepares on a sound head is sound.              *)
LEMMA PreparedSound ==
  ASSUME NEW hs, Sound(hs), NEW when \in Nat, NEW num \in Nat
  PROVE  Sound(maybe_promote_pending(set_confirmed(generate_next(hs, when), num)))
  BY GenerateNextType, SetConfirmedType, PromoteType, Zenon DEF Sound

(* What the proof of a step reads off a sound header state.                 *)
LEMMA SoundFields ==
  ASSUME NEW hs, Sound(hs)
  PROVE  /\ hs.block_num \in Nat \ {0} /\ hs.timestamp \in Nat /\ hs.producer \in BlockProducers
         /\ hs.active \in ScheduleType /\ hs.pending \in ScheduleType
  BY Zenon DEF Sound, IsHeaderState

(* A proposed schedule is numbered after a schedule of the header state.    *)
LEMMA ReferenceVersion ==
  ASSUME NEW hs, Sound(hs)
  PROVE  ReferenceSchedule(hs).version + 1 \in Nat
  <1>1. ReferenceSchedule(hs) \in ScheduleType
    BY SoundFields DEF ReferenceSchedule
  <1> QED BY <1>1 DEF ScheduleType

(* blocks_to_confirm is a natural number.                                   *)
LEMMA ConfirmNumber ==
  ASSUME TypeOK, NEW p
  PROVE  blocks_to_confirm(p) \in Nat
  <1>1. head.block_num \in Nat /\ \A q \in DOMAIN watermark : watermark[q] \in Nat
    BY Zenon DEF TypeOK, IsHeaderState, IsNumMap
  <1> QED BY <1>1 DEF blocks_to_confirm

(* A proposed list of producers is a sequence of accounts.                  *)
LEMMA ScheduleInAccounts ==
  ASSUME NEW producers \in Schedules
  PROVE  producers \in Seq(Accounts)
  <1> DEFINE P == {producers[i] : i \in DOMAIN producers}
  <1>1. P \in SUBSET Accounts
    BY Zenon DEF Accounts
  <1>2. producers \in Seq(P)
    BY SchedulesAssumption, Zenon
  <1> HIDE DEF P
  <1> QED BY <1>1, <1>2

(* Every action of the controller and the producer plugin keeps the invariant. *)
LEMMA NextIInv == IInv /\ [Next]_vars => IInv'
  <1> SUFFICES ASSUME IInv, [Next]_vars PROVE IInv'
    BY Zenon
  <1>0. /\ Sound(head) /\ gpo \in GpoType /\ IsNumMap(watermark, BlockProducers)
        /\ pending # <<>> => /\ pending = <<pending[1]>> /\ Sound(pending[1].bs)
                             /\ pending[1].gpo \in GpoType
        /\ restarts \in 0..MaxRestarts /\ Len(history) = head.block_num
    BY Zenon DEF IInv
  <1>1. ASSUME NEW when \in NextSlots, StartBlock(when) PROVE IInv'
    <2> DEFINE num == blocks_to_confirm(get_scheduled_producer(head, when))
               bs  == maybe_promote_pending(Confirmed(when))
    <2>1. when \in Nat
      <3>1. head.timestamp \in Nat
        BY <1>0, SoundFields, Zenon
      <3> QED BY <3>1, BoundsAssumption DEF NextSlots
    <2>2. num \in Nat
      BY ConfirmNumber, IInvParts, Zenon
    <2>3. Sound(bs)
      BY <1>0, <2>1, <2>2, PreparedSound, Zenon DEF Confirmed
    <2>4. \E x : /\ pending' = <<x>> /\ x.gpo \in GpoType /\ Sound(x.bs)
      <3>1. CASE pending' = <<[bs |-> set_new_producers(bs, gpo.schedule), gpo |-> NoProposal]>>
        <4>1. NoProposal \in GpoType
          BY DEF NoProposal, GpoType, ScheduleType
        <4>2. Sound(set_new_producers(bs, gpo.schedule))
          BY <1>0, <2>3, SetNewProducersType, Zenon DEF Sound, GpoType
        <4> QED BY <3>1, <4>1, <4>2
      <3>2. CASE pending' = <<[bs |-> bs, gpo |-> gpo]>>
        BY <1>0, <2>3, <3>2
      <3> QED BY <1>1, <3>1, <3>2, Zenon DEF StartBlock
    <2>5. UNCHANGED <<head, gpo, watermark, restarts, history>>
      BY <1>1, Zenon DEF StartBlock
    <2> QED BY <1>0, <2>4, <2>5 DEF IInv
  <1>2. ASSUME NEW producers \in Schedules, SetProposedProducers(producers) PROVE IInv'
    <2> DEFINE p   == pending[1]
               ref == ReferenceSchedule(p.bs)
               sch == [version |-> ref.version + 1, producers |-> producers]
               q   == [p EXCEPT !.gpo = [num |-> head.block_num + 1, schedule |-> sch]]
    <2>1. pending # <<>> /\ pending' = <<q>> /\ UNCHANGED <<head, gpo, watermark, restarts, history>>
      BY <1>2, Zenon DEF SetProposedProducers
    <2>2. Sound(p.bs)
      BY <1>0, <2>1, Zenon
    <2>3. ref.version + 1 \in Nat
      BY <2>2, ReferenceVersion, Zenon
    <2>4. producers \in Seq(Accounts)
      BY ScheduleInAccounts, Zenon
    <2>5. sch \in ScheduleType
      BY <2>3, <2>4, Zenon DEF ScheduleType
    <2>6. head.block_num + 1 \in Nat
      <3>1. head.block_num \in Nat
        BY <1>0, SoundFields, Zenon
      <3> QED BY <3>1
    <2>7. Sound(q.bs) /\ q.gpo \in GpoType
      <3> DEFINE new == [num |-> head.block_num + 1, schedule |-> sch]
      <3>1. new \in GpoType
        <4> HIDE DEF sch
        <4> QED BY <2>5, <2>6, Zenon DEF GpoType
      <3>2. q.bs = p.bs /\ q.gpo = new
        <4> HIDE DEF new
        <4> QED BY DEF new
      <3> HIDE DEF q, new
      <3> QED BY <1>0, <2>1, <3>1, <3>2, Zenon
    <2> HIDE DEF q
    <2> QED BY <1>0, <2>1, <2>7, Zenon DEF IInv
  <1>3. ASSUME CommitBlock PROVE IInv'
    <2> DEFINE bs == pending[1].bs
               marked == NewlyActive(bs)
               all == DOMAIN watermark \cup marked \cup {bs.producer}
    <2>1. /\ pending # <<>> /\ head' = bs /\ gpo' = pending[1].gpo /\ pending' = <<>>
          /\ history' = Recorded(bs) /\ UNCHANGED restarts
          /\ watermark' = [p \in all |-> IF p \in marked \cup {bs.producer} THEN bs.block_num ELSE watermark[p]]
      BY <1>3, Zenon DEF CommitBlock
    <2>2. Len(Recorded(bs)) = bs.block_num
      <3>1. Sound(bs)
        BY <1>0, <2>1, Zenon
      <3>2. bs.block_num \in Nat \ {0}
        BY <3>1, SoundFields, Zenon
      <3> HIDE DEF bs
      <3> QED BY <3>2 DEF Recorded
    <2>3. IsNumMap(watermark', BlockProducers)
      <3> DEFINE new == generate_next(bs, bs.timestamp + 1)
      <3>1. Sound(bs) /\ bs.producer \in BlockProducers /\ bs.block_num \in Nat
            /\ bs.timestamp + 1 \in Nat
        <4>1. Sound(bs)
          BY <1>0, <2>1, Zenon
        <4>2. bs.producer \in BlockProducers /\ bs.block_num \in Nat /\ bs.timestamp \in Nat
          BY <4>1, SoundFields, Zenon
        <4> QED BY <4>1, <4>2
      <3>2. IsHeaderState(new)
        BY <3>1, GenerateNextType, Zenon DEF Sound
      <3>3. ProducersOf(new.pending) \in SUBSET Accounts /\ IsFiniteSet(ProducersOf(new.pending))
        <4> HIDE DEF new
        <4>1. new.pending \in ScheduleType
          BY <3>2, Zenon DEF IsHeaderState
        <4> QED BY <4>1, ProducersFinite, Zenon
      <3>4. marked \in SUBSET BlockProducers /\ IsFiniteSet(marked)
        <4> HIDE DEF new
        <4>1. marked \in SUBSET ProducersOf(new.pending)
          BY Zenon DEF NewlyActive, new
        <4> QED BY <3>3, <4>1, FS_Subset, Zenon DEF BlockProducers
      <3> HIDE DEF marked
      <3>5. IsFiniteSet(all)
        <4>1. IsFiniteSet(DOMAIN watermark)
          BY <1>0, Zenon DEF IsNumMap
        <4>2. IsFiniteSet(DOMAIN watermark \cup marked)
          BY <3>4, <4>1, FS_Union, Zenon
        <4> QED BY <4>2, FS_AddElement, Zenon
      <3>6. all \in SUBSET BlockProducers
        BY <1>0, <3>1, <3>4, Zenon DEF IsNumMap
      <3>7. \A p \in all : watermark'[p] \in Nat
        BY <1>0, <2>1, <3>1, Zenon DEF IsNumMap
      <3> HIDE DEF all
      <3> QED BY <2>1, <3>5, <3>6, <3>7, Zenon DEF IsNumMap
    <2> QED BY <1>0, <2>1, <2>2, <2>3, Zenon DEF IInv
  <1>4. ASSUME CommitRejected PROVE IInv'
    BY <1>0, <1>4, Zenon DEF CommitRejected, IInv
  <1>5. ASSUME AbortBlock PROVE IInv'
    BY <1>0, <1>5, Zenon DEF AbortBlock, IInv
  <1>6. ASSUME NEW p \in DOMAIN watermark, Restart(p) PROVE IInv'
    <2>1. IsNumMap(watermark', BlockProducers)
      <3>1. IsFiniteSet(DOMAIN watermark \ {p})
        BY <1>0, FS_RemoveElement, Zenon DEF IsNumMap
      <3> QED BY <1>0, <1>6, <3>1, Zenon DEF IsNumMap, Restart
    <2>2. restarts' \in 0..MaxRestarts
      BY <1>0, <1>6, BoundsAssumption DEF Restart
    <2> QED BY <1>0, <1>6, <2>1, <2>2, Zenon DEF IInv, Restart
  <1>7. CASE UNCHANGED vars
    BY <1>0, <1>7, Zenon DEF vars, IInv
  <1> QED BY <1>1, <1>2, <1>3, <1>4, <1>5, <1>6, <1>7, Zenon DEF Next

(* Type correctness of the header chain: in particular the active schedule  *)
(* never becomes empty and no counter of confirm_count is zero when         *)
(* set_confirmed decrements it.                                             *)
THEOREM TypeCorrect == Spec => []TypeOK
  <1>1. Spec => []IInv
    BY InitIInv, NextIInv, PTL DEF Spec
  <1>2. IInv => TypeOK
    BY IInvParts, Zenon
  <1> QED BY <1>1, <1>2, PTL

(* A block is proposed irreversible only once it exists and irreversible only *)
(* once it is proposed, through missed slots, restarts and schedule changes of *)
(* generate_next, set_confirmed and maybe_promote_pending.                  *)
THEOREM TwoPhase == Spec => []LibBehindProposed
  <1>1. Spec => []IInv
    BY InitIInv, NextIInv, PTL DEF Spec
  <1>2. IInv => LibBehindProposed
    BY IInvParts, Zenon
  <1> QED BY <1>1, <1>2, PTL

(* The position set_confirmed decrements always belongs to the block it thinks *)
(* it belongs to, also once maximum_tracked_dpos_confirmations is reached.  *)
THEOREM CountersAligned == Spec => []ConfirmCountAligned
  <1>1. Spec => []IInv
    BY InitIInv, NextIInv, PTL DEF Spec
  <1>2. IInv => ConfirmCountAligned
    BY IInvParts, Zenon
  <1> QED BY <1>1, <1>2, PTL

-----------------------------------------------------------------------------
(* What each stage of a new block sets and what it leaves alone. *)

(* The fields that generate_next assigns.                                   *)
LEMMA GenerateNextFields ==
  ASSUME NEW hs, IsHeaderState(hs), NEW when
  PROVE  LET g == generate_next(hs, when)
             producer == get_scheduled_producer(hs, when)
             implied  == Put(hs.last_implied_irb, producer, hs.dpos_proposed)
         IN  /\ g.block_num = hs.block_num + 1 /\ g.timestamp = when /\ g.producer = producer
             /\ g.schedule_version = hs.active.version /\ g.new_producers = <<>>
             /\ g.active = hs.active /\ g.pending = hs.pending /\ g.pending_lib = hs.pending_lib
             /\ g.last_produced = Put(hs.last_produced, producer, hs.block_num + 1)
             /\ g.last_implied_irb = implied
             /\ g.dpos_irreversible = calc_dpos_last_irreversible(implied)
             /\ g.dpos_proposed = hs.dpos_proposed
             /\ g.confirm_count = GrowConfirmCount(hs.confirm_count, RequiredConfs(hs.active))
  <1> DEFINE producer == get_scheduled_producer(hs, when)
             implied  == Put(hs.last_implied_irb, producer, hs.dpos_proposed)
             lib      == calc_dpos_last_irreversible(implied)
             counts   == GrowConfirmCount(hs.confirm_count, RequiredConfs(hs.active))
             produced == Put(hs.last_produced, producer, hs.block_num + 1)
  <1>1. generate_next(hs, when) =
          [hs EXCEPT !.block_num = hs.block_num + 1, !.timestamp = when, !.producer = producer,
                     !.schedule_version = hs.active.version, !.new_producers = <<>>,
                     !.last_produced = produced, !.last_implied_irb = implied,
                     !.dpos_irreversible = lib, !.confirm_count = counts]
    BY Zenon DEF generate_next
  <1> HIDE DEF produced, implied, counts, lib, producer
  <1>2. /\ generate_next(hs, when).last_produced = produced
        /\ generate_next(hs, when).last_implied_irb = implied
        /\ generate_next(hs, when).dpos_irreversible = lib
        /\ generate_next(hs, when).confirm_count = counts
        /\ generate_next(hs, when).producer = producer
    BY <1>1, FieldsOf, Zenon DEF HeaderFields
  <1>3. /\ generate_next(hs, when).block_num = hs.block_num + 1
        /\ generate_next(hs, when).timestamp = when
        /\ generate_next(hs, when).schedule_version = hs.active.version
        /\ generate_next(hs, when).new_producers = <<>>
        /\ generate_next(hs, when).active = hs.active
        /\ generate_next(hs, when).pending = hs.pending
        /\ generate_next(hs, when).pending_lib = hs.pending_lib
        /\ generate_next(hs, when).dpos_proposed = hs.dpos_proposed
    BY <1>1, FieldsOf, Zenon DEF HeaderFields
  <1> QED BY <1>2, <1>3, Zenon DEF produced, implied, counts, lib, producer

(* set_confirmed sets the count of confirmed blocks and touches nothing but *)
(* the counters and the proposed number besides.                            *)
LEMMA SetConfirmedFields ==
  ASSUME NEW hs, IsHeaderState(hs), NEW num
  PROVE  LET g == set_confirmed(hs, num)
         IN  /\ g.confirmed = num
             /\ \A f \in HeaderFields \ {"confirmed", "confirm_count", "dpos_proposed"} : g[f] = hs[f]
  <1> DEFINE g == set_confirmed(hs, num)
  <1>1. \E x, y : \/ g = [hs EXCEPT !.confirmed = num, !.confirm_count = x]
                 \/ g = [hs EXCEPT !.confirmed = num, !.dpos_proposed = y, !.confirm_count = x]
    BY Zenon DEF set_confirmed
  <1> HIDE DEF g
  <1>2. PICK x, y : \/ g = [hs EXCEPT !.confirmed = num, !.confirm_count = x]
                   \/ g = [hs EXCEPT !.confirmed = num, !.dpos_proposed = y, !.confirm_count = x]
    BY <1>1, Zenon
  <1>3. g.confirmed = num
    BY <1>2, FieldsOf, Zenon DEF HeaderFields
  <1>4. \A f \in HeaderFields \ {"confirmed", "confirm_count", "dpos_proposed"} : g[f] = hs[f]
    BY <1>2, FieldsOf, Zenon
  <1> QED BY <1>3, <1>4, Zenon DEF g

(* maybe_promote_pending replaces the schedules and the producers' maps.    *)
LEMMA PromoteFields ==
  ASSUME NEW hs, IsHeaderState(hs), PendingPromotable(hs)
  PROVE  LET g == maybe_promote_pending(hs)
             producers == ProducersOf(hs.pending)
         IN  /\ g.active = hs.pending
             /\ g.pending = [hs.pending EXCEPT !.producers = <<>>]
             /\ g.last_produced = Put(Inherit(hs.last_produced, producers, hs.dpos_irreversible),
                                      hs.producer, hs.block_num)
             /\ g.last_implied_irb = Inherit(hs.last_implied_irb, producers, hs.dpos_irreversible)
             /\ \A f \in HeaderFields \ {"active", "pending", "last_produced", "last_implied_irb"} :
                  g[f] = hs[f]
  <1> DEFINE prods    == ProducersOf(hs.pending)
             produced == Put(Inherit(hs.last_produced, prods, hs.dpos_irreversible), hs.producer, hs.block_num)
             implied  == Inherit(hs.last_implied_irb, prods, hs.dpos_irreversible)
             emptied  == [hs.pending EXCEPT !.producers = <<>>]
             g        == maybe_promote_pending(hs)
  <1>1. g = [hs EXCEPT !.active = hs.pending, !.pending = emptied,
                       !.last_produced = produced, !.last_implied_irb = implied]
    BY Zenon DEF maybe_promote_pending
  <1> HIDE DEF produced, implied, emptied, g, prods
  <1>2. /\ g.active = hs.pending /\ g.pending = emptied
        /\ g.last_produced = produced /\ g.last_implied_irb = implied
    BY <1>1, FieldsOf, Zenon DEF HeaderFields
  <1>3. \A f \in HeaderFields \ {"active", "pending", "last_produced", "last_implied_irb"} : g[f] = hs[f]
    BY <1>1, FieldsOf, Zenon
  <1> QED BY <1>2, <1>3, Zenon DEF produced, implied, emptied, g, prods

(* set_new_producers announces the schedule.                                *)
LEMMA SetNewProducersFields ==
  ASSUME NEW hs, IsHeaderState(hs), NEW sch
  PROVE  LET g == set_new_producers(hs, sch)
         IN  /\ g.new_producers = <<sch>> /\ g.pending = sch /\ g.pending_lib = hs.block_num
             /\ \A f \in HeaderFields \ {"new_producers", "pending", "pending_lib"} : g[f] = hs[f]
  BY FieldsOf, Zenon DEF set_new_producers, HeaderFields

-----------------------------------------------------------------------------
(* The pending block is the one its header describes. *)

(* The new block before maybe_promote_pending, from the slot and the count  *)
(* of confirmed blocks in its header.                                       *)
Settled(hs, when, num) == set_confirmed(generate_next(hs, when), num)

(* Before promotion the new block has the schedules of its parent.          *)
LEMMA SettledFields ==
  ASSUME NEW hs, Sound(hs), NEW when \in Nat, NEW num \in Nat
  PROVE  LET s == Settled(hs, when, num)
         IN  /\ Sound(s)
             /\ s.block_num = hs.block_num + 1 /\ s.timestamp = when /\ s.confirmed = num
             /\ s.producer = get_scheduled_producer(hs, when)
             /\ s.schedule_version = hs.active.version /\ s.new_producers = <<>>
             /\ s.active = hs.active /\ s.pending = hs.pending
             /\ s.last_produced = Put(hs.last_produced, s.producer, s.block_num)
  <1> DEFINE g == generate_next(hs, when)
             s == Settled(hs, when, num)
  <1>1. Sound(g) /\ Sound(s)
    BY GenerateNextType, SetConfirmedType, Zenon DEF Sound, Settled
  <1>2. IsHeaderState(hs) /\ IsHeaderState(g)
    BY <1>1, Zenon DEF Sound
  <1>3. /\ g.block_num = hs.block_num + 1 /\ g.timestamp = when
        /\ g.producer = get_scheduled_producer(hs, when)
        /\ g.schedule_version = hs.active.version /\ g.new_producers = <<>>
        /\ g.active = hs.active /\ g.pending = hs.pending
        /\ g.last_produced = Put(hs.last_produced, g.producer, g.block_num)
    BY <1>2, GenerateNextFields
  <1> HIDE DEF g
  <1>4. /\ s.confirmed = num
        /\ \A f \in HeaderFields \ {"confirmed", "confirm_count", "dpos_proposed"} : s[f] = g[f]
    BY <1>2, SetConfirmedFields DEF Settled, g
  <1> HIDE DEF s
  <1>5. /\ s.block_num = g.block_num /\ s.timestamp = g.timestamp /\ s.producer = g.producer
        /\ s.schedule_version = g.schedule_version /\ s.new_producers = g.new_producers
        /\ s.active = g.active /\ s.pending = g.pending /\ s.last_produced = g.last_produced
    BY <1>4, Zenon DEF HeaderFields
  <1> QED BY <1>1, <1>3, <1>4, <1>5, Zenon DEF s

(* The same, for the schedules alone. *)
LEMMA SettledSchedules ==
  ASSUME NEW hs, Sound(hs), NEW when \in Nat, NEW num \in Nat
  PROVE  /\ Sound(Settled(hs, when, num))
         /\ Settled(hs, when, num).active = hs.active
         /\ Settled(hs, when, num).pending = hs.pending
  BY SettledFields

(* Promotion changes nothing that the header carries.                       *)
LEMMA PromotedFields ==
  ASSUME NEW hs, Sound(hs)
  PROVE  LET b == maybe_promote_pending(hs)
         IN  /\ b.block_num = hs.block_num /\ b.timestamp = hs.timestamp
             /\ b.confirmed = hs.confirmed /\ b.producer = hs.producer
             /\ b.schedule_version = hs.schedule_version /\ b.new_producers = hs.new_producers
             /\ b.dpos_irreversible = hs.dpos_irreversible
             /\ b.dpos_proposed = hs.dpos_proposed /\ b.confirm_count = hs.confirm_count
  <1> DEFINE b == maybe_promote_pending(hs)
  <1>1. CASE ~PendingPromotable(hs)
    BY <1>1, Zenon DEF maybe_promote_pending
  <1>2. CASE PendingPromotable(hs)
    <2>1. \A f \in HeaderFields \ {"active", "pending", "last_produced", "last_implied_irb"} : b[f] = hs[f]
      BY <1>2, PromoteFields, Zenon DEF Sound
    <2> HIDE DEF b
    <2> QED BY <2>1, Zenon DEF HeaderFields, b
  <1> QED BY <1>1, <1>2, Zenon

(* bs is what start_block builds on hs for some slot and count: with or     *)
(* without a newly announced schedule.                                      *)
Built(hs, bs) ==
  LET s == Settled(hs, bs.timestamp, bs.confirmed)
  IN  /\ bs.timestamp > hs.timestamp
      /\ bs.producer = get_scheduled_producer(hs, bs.timestamp)
      /\ bs.schedule_version = hs.active.version
      /\ \/ bs.new_producers = <<>> /\ bs = maybe_promote_pending(s)
         \/ \E sch : /\ bs.new_producers = <<sch>>
                     /\ ~PendingPromotable(s) /\ CanSetNewProducers(s, sch)
                     /\ bs = set_new_producers(maybe_promote_pending(s), sch)

(* start_block builds such a block, whether or not it announces a schedule. *)
LEMMA BuiltPlain ==
  ASSUME NEW hs, Sound(hs), NEW when \in Nat, NEW num \in Nat, when > hs.timestamp
  PROVE  LET b == maybe_promote_pending(Settled(hs, when, num))
         IN  /\ Built(hs, b) /\ b.timestamp = when /\ b.confirmed = num
             /\ b.producer = get_scheduled_producer(hs, when)
  <1> DEFINE s == Settled(hs, when, num)
             b == maybe_promote_pending(s)
  <1>1. /\ Sound(s) /\ s.timestamp = when /\ s.confirmed = num
        /\ s.producer = get_scheduled_producer(hs, when)
        /\ s.schedule_version = hs.active.version /\ s.new_producers = <<>>
    BY SettledFields
  <1> HIDE DEF s
  <1>2. /\ b.timestamp = when /\ b.confirmed = num
        /\ b.producer = get_scheduled_producer(hs, when)
        /\ b.schedule_version = hs.active.version /\ b.new_producers = <<>>
    BY <1>1, PromotedFields, Zenon
  <1>3. b = maybe_promote_pending(Settled(hs, b.timestamp, b.confirmed))
    BY <1>2, Zenon DEF s
  <1> HIDE DEF b
  <1>4. Built(hs, b)
    BY <1>2, <1>3, Zenon DEF Built
  <1> QED BY <1>2, <1>4, Zenon DEF b, s

(* The same with a newly announced schedule.                                *)
LEMMA BuiltAnnouncing ==
  ASSUME NEW hs, Sound(hs), NEW when \in Nat, NEW num \in Nat, when > hs.timestamp, NEW sch,
         ~PendingPromotable(Settled(hs, when, num)), CanSetNewProducers(Settled(hs, when, num), sch)
  PROVE  LET b == set_new_producers(maybe_promote_pending(Settled(hs, when, num)), sch)
         IN  /\ Built(hs, b) /\ b.timestamp = when /\ b.confirmed = num
             /\ b.producer = get_scheduled_producer(hs, when)
  <1> DEFINE s == Settled(hs, when, num)
             m == maybe_promote_pending(s)
             b == set_new_producers(m, sch)
  <1>1. /\ Sound(s) /\ s.timestamp = when /\ s.confirmed = num
        /\ s.producer = get_scheduled_producer(hs, when)
        /\ s.schedule_version = hs.active.version
    BY SettledFields
  <1>2. ~PendingPromotable(s) /\ CanSetNewProducers(s, sch)
    BY Zenon
  <1> HIDE DEF s
  <1>3. m = s
    BY <1>2, Zenon DEF maybe_promote_pending
  <1>4. /\ b.new_producers = <<sch>>
        /\ \A f \in HeaderFields \ {"new_producers", "pending", "pending_lib"} : b[f] = s[f]
    BY <1>1, <1>3, SetNewProducersFields DEF Sound
  <1>5. b = set_new_producers(m, sch)
    BY Zenon
  <1> HIDE DEF b, m
  <1>6. /\ b.timestamp = when /\ b.confirmed = num
        /\ b.producer = get_scheduled_producer(hs, when)
        /\ b.schedule_version = hs.active.version
    BY <1>1, <1>4, Zenon DEF HeaderFields
  <1>7. Settled(hs, b.timestamp, b.confirmed) = s
    BY <1>6, Zenon DEF s
  <1>8. Built(hs, b)
    BY <1>2, <1>4, <1>5, <1>6, <1>7, Zenon DEF Built, m
  <1> QED BY <1>6, <1>8, Zenon DEF b, m, s

(* No producer is recorded with a block above the header state's own.       *)
ProducedBefore(hs) == \A p \in DOMAIN hs.last_produced : hs.last_produced[p] <= hs.block_num

(* The record of last produced blocks stays below the new block's number.   *)
LEMMA SettledProduced ==
  ASSUME NEW hs, Sound(hs), ProducedBefore(hs), NEW when \in Nat, NEW num \in Nat
  PROVE  ProducedBefore(Settled(hs, when, num))
  <1> DEFINE s == Settled(hs, when, num)
  <1>1. /\ s.block_num = hs.block_num + 1
        /\ s.last_produced = Put(hs.last_produced, s.producer, s.block_num)
    BY SettledFields
  <1>2. hs.block_num \in Nat /\ \A p \in DOMAIN hs.last_produced : hs.last_produced[p] \in Nat
    BY Zenon DEF Sound, IsHeaderState, IsNumMap
  <1>3. \A p \in DOMAIN hs.last_produced : hs.last_produced[p] <= hs.block_num
    BY Zenon DEF ProducedBefore
  <1> HIDE DEF s
  <1>4. \A p \in DOMAIN s.last_produced : s.last_produced[p] <= s.block_num
    BY <1>1, <1>2, <1>3 DEF Put
  <1> QED BY <1>4, Zenon DEF ProducedBefore, s

(* Producers that promotion adds start at the irreversible block, which     *)
(* exists.                                                                  *)
LEMMA PromotedProduced ==
  ASSUME NEW hs, Sound(hs), ProducedBefore(hs)
  PROVE  ProducedBefore(maybe_promote_pending(hs))
  <1>1. CASE ~PendingPromotable(hs)
    BY <1>1, Zenon DEF maybe_promote_pending
  <1>2. CASE PendingPromotable(hs)
    <2> DEFINE b == maybe_promote_pending(hs)
               prods == ProducersOf(hs.pending)
    <2>1. b.last_produced = Put(Inherit(hs.last_produced, prods, hs.dpos_irreversible), hs.producer, hs.block_num)
      BY <1>2, PromoteFields, Zenon DEF Sound
    <2>2. b.block_num = hs.block_num
      BY PromotedFields, Zenon
    <2>3. hs.block_num \in Nat /\ hs.dpos_irreversible <= hs.block_num
      BY DEF Sound, IsHeaderState, BehindProposed
    <2>4. \A p \in DOMAIN hs.last_produced : hs.last_produced[p] <= hs.block_num
      BY Zenon DEF ProducedBefore
    <2> HIDE DEF b, prods
    <2>5. \A p \in DOMAIN b.last_produced : b.last_produced[p] <= b.block_num
      BY <2>1, <2>2, <2>3, <2>4 DEF Put, Inherit
    <2> QED BY <2>5, Zenon DEF ProducedBefore, b
  <1> QED BY <1>1, <1>2, Zenon

(* Promotion turns the schedule a proposal was numbered after from pending  *)
(* to active, and keeps its version.                                        *)
LEMMA ReferenceKept ==
  ASSUME NEW hs, Sound(hs)
  PROVE  ReferenceSchedule(maybe_promote_pending(hs)).version = ReferenceSchedule(hs).version
  <1>1. CASE ~PendingPromotable(hs)
    BY <1>1, Zenon DEF maybe_promote_pending
  <1>2. CASE PendingPromotable(hs)
    <2> DEFINE b == maybe_promote_pending(hs)
    <2>1. b.active = hs.pending /\ b.pending = [hs.pending EXCEPT !.producers = <<>>]
      BY <1>2, PromoteFields, Zenon DEF Sound
    <2>2. hs.pending.producers # <<>> /\ hs.pending \in ScheduleType
      BY <1>2, Zenon DEF PendingPromotable, Sound, IsHeaderState
    <2>3. b.pending.producers = <<>>
      BY <2>1, <2>2, Zenon DEF ScheduleType
    <2> HIDE DEF b
    <2> QED BY <2>1, <2>2, <2>3, Zenon DEF ReferenceSchedule, b
  <1> QED BY <1>1, <1>2, Zenon

(* A waiting proposal has the version after the schedule it will replace.   *)
Fits(proposal, hs) ==
  proposal.num # 0 => proposal.schedule.version = 1 + ReferenceSchedule(hs).version

(* The second inductive invariant: the pending block is the one its header  *)
(* describes, with the watermark's count of confirmed blocks, and proposals *)
(* carry the right version.  It needs the first one for the fields' types.  *)
BInv ==
  /\ IInv
  /\ ProducedBefore(head) /\ Fits(gpo, head)
  /\ pending # <<>> => LET bs == pending[1].bs
                       IN  /\ Built(head, bs) /\ bs.confirmed = blocks_to_confirm(bs.producer)
                           /\ ProducedBefore(bs) /\ Fits(pending[1].gpo, bs)

(* It holds at genesis.                                                     *)
LEMMA InitBInv == Init => BInv
  <1> SUFFICES ASSUME Init PROVE BInv
    BY Zenon
  <1>1. IInv
    BY InitIInv, Zenon
  <1>2. DOMAIN head.last_produced = {}
    BY Zenon DEF Init, GenesisState
  <1>3. pending = <<>> /\ gpo.num = 0
    BY Zenon DEF Init, NoProposal
  <1> QED BY <1>1, <1>2, <1>3, Zenon DEF BInv, ProducedBefore, Fits

(* start_block establishes the pending block's part of the invariant.       *)
LEMMA StartBInv ==
  ASSUME BInv, NEW when \in NextSlots, StartBlock(when)
  PROVE  /\ UNCHANGED <<head, gpo, watermark, restarts, history>>
         /\ \E x : /\ pending' = <<x>> /\ Built(head, x.bs)
                   /\ x.bs.confirmed = blocks_to_confirm(x.bs.producer)
                   /\ ProducedBefore(x.bs) /\ Fits(x.gpo, x.bs)
  <1> DEFINE num == blocks_to_confirm(get_scheduled_producer(head, when))
             s   == Settled(head, when, num)
             b   == maybe_promote_pending(s)
             n   == set_new_producers(b, gpo.schedule)
  <1>0. /\ Sound(head) /\ ProducedBefore(head) /\ Fits(gpo, head) /\ gpo \in GpoType
    BY Zenon DEF BInv, IInv
  <1>1. when \in Nat /\ when > head.timestamp
    <2>1. head.timestamp \in Nat
      BY <1>0, SoundFields, Zenon
    <2> QED BY <2>1, BoundsAssumption DEF NextSlots
  <1>2. num \in Nat
    BY ConfirmNumber, IInvParts, Zenon DEF BInv
  <1>3. Confirmed(when) = s
    BY Zenon DEF Confirmed, Settled
  <1> HIDE DEF num
  <1>4. /\ Sound(s) /\ s.active = head.active /\ s.pending = head.pending
    BY <1>0, <1>1, <1>2, SettledSchedules, Zenon
  <1>5. ProducedBefore(s)
    BY <1>0, <1>1, <1>2, SettledProduced, Zenon
  <1>6. Built(head, b) /\ b.confirmed = num /\ b.producer = get_scheduled_producer(head, when)
    BY <1>0, <1>1, <1>2, BuiltPlain
  <1>13. ASSUME ~PendingPromotable(s), CanSetNewProducers(s, gpo.schedule)
         PROVE  Built(head, n) /\ n.confirmed = num /\ n.producer = get_scheduled_producer(head, when)
    BY <1>0, <1>1, <1>2, <1>13, BuiltAnnouncing
  <1>7. UNCHANGED <<head, gpo, watermark, restarts, history>>
    BY Zenon DEF StartBlock
  <1>8. \/ /\ ProposalReady(b, PendingPromotable(s)) /\ CanSetNewProducers(b, gpo.schedule)
           /\ pending' = <<[bs |-> n, gpo |-> NoProposal]>>
        \/ pending' = <<[bs |-> b, gpo |-> gpo]>>
    BY <1>3, Zenon DEF StartBlock
  <1> HIDE DEF s
  <1>9. Sound(b) /\ ProducedBefore(b)
    BY <1>4, <1>5, PromoteType, PromotedProduced, Zenon DEF Sound
  <1>10. CASE pending' = <<[bs |-> b, gpo |-> gpo]>>
    <2>1. ReferenceSchedule(b).version = ReferenceSchedule(s).version
      BY <1>4, ReferenceKept, Zenon
    <2>2. ReferenceSchedule(s) = ReferenceSchedule(head)
      BY <1>4, Zenon DEF ReferenceSchedule
    <2> HIDE DEF b
    <2>3. Fits(gpo, b)
      BY <1>0, <2>1, <2>2, Zenon DEF Fits
    <2> QED BY <1>6, <1>7, <1>9, <1>10, <2>3 DEF num
  <1>11. CASE /\ ProposalReady(b, PendingPromotable(s)) /\ CanSetNewProducers(b, gpo.schedule)
              /\ pending' = <<[bs |-> n, gpo |-> NoProposal]>>
    <2>1. ~PendingPromotable(s)
      BY <1>11, Zenon DEF ProposalReady
    <2>2. b = s
      BY <2>1, Zenon DEF maybe_promote_pending
    <2>3. Built(head, n) /\ n.confirmed = num /\ n.producer = get_scheduled_producer(head, when)
      BY <1>11, <1>13, <2>1, <2>2, Zenon
    <2> HIDE DEF b
    <2>4. \A f \in HeaderFields \ {"new_producers", "pending", "pending_lib"} : n[f] = b[f]
      BY <1>9, SetNewProducersFields DEF Sound
    <2> HIDE DEF n
    <2>5. n.last_produced = b.last_produced /\ n.block_num = b.block_num
      BY <2>4, Zenon DEF HeaderFields
    <2>6. ProducedBefore(n)
      BY <1>9, <2>5, Zenon DEF ProducedBefore
    <2>7. Fits(NoProposal, n)
      BY Zenon DEF Fits, NoProposal
    <2> QED BY <1>7, <1>11, <2>3, <2>6, <2>7 DEF num
  <1> QED BY <1>8, <1>10, <1>11, Zenon

(* Every action keeps the second invariant.                                 *)
LEMMA NextBInv == BInv /\ [Next]_vars => BInv'
  <1> SUFFICES ASSUME BInv, [Next]_vars PROVE BInv'
    BY Zenon
  <1>0. /\ ProducedBefore(head) /\ Fits(gpo, head)
        /\ pending # <<>> => /\ Built(head, pending[1].bs) /\ ProducedBefore(pending[1].bs)
                             /\ pending[1].bs.confirmed = blocks_to_confirm(pending[1].bs.producer)
                             /\ Fits(pending[1].gpo, pending[1].bs)
    BY Zenon DEF BInv
  <1>p. IInv /\ IInv'
    BY NextIInv, Zenon DEF BInv
  <1>1. ASSUME NEW when \in NextSlots, StartBlock(when) PROVE BInv'
    <2>1. UNCHANGED <<head, gpo, watermark, restarts, history>>
      BY <1>1, StartBInv, Zenon
    <2>2. PICK x : /\ pending' = <<x>> /\ Built(head, x.bs)
                   /\ x.bs.confirmed = blocks_to_confirm(x.bs.producer)
                   /\ ProducedBefore(x.bs) /\ Fits(x.gpo, x.bs)
      BY <1>1, StartBInv, Zenon
    <2>3. x.bs.confirmed = blocks_to_confirm(x.bs.producer)'
      BY <2>1, <2>2 DEF blocks_to_confirm
    <2> QED BY <1>0, <1>p, <2>1, <2>2, <2>3, Zenon DEF BInv
  <1>2. ASSUME NEW producers \in Schedules, SetProposedProducers(producers) PROVE BInv'
    <2> DEFINE p   == pending[1]
               ref == ReferenceSchedule(p.bs)
               sch == [version |-> ref.version + 1, producers |-> producers]
               new == [num |-> head.block_num + 1, schedule |-> sch]
               q   == [p EXCEPT !.gpo = new]
    <2>1. pending # <<>> /\ pending' = <<q>> /\ UNCHANGED <<head, gpo, watermark, restarts, history>>
      BY <1>2, Zenon DEF SetProposedProducers
    <2>2. q.bs = p.bs /\ (q.gpo = new \/ q.gpo = p.gpo)
      <3> HIDE DEF new
      <3> QED OBVIOUS
    <2>3. ref.version \in Nat
      <3>1. Sound(p.bs)
        BY <1>p, <2>1, Zenon DEF IInv
      <3>2. ref \in ScheduleType
        BY <3>1, SoundFields, Zenon DEF ReferenceSchedule
      <3> QED BY <3>2, Zenon DEF ScheduleType
    <2>4. Fits(new, p.bs)
      <3> HIDE DEF p
      <3> QED BY <2>3 DEF Fits
    <2>5. Fits(q.gpo, q.bs)
      <3> HIDE DEF new, q
      <3> QED BY <1>0, <2>1, <2>2, <2>4
    <2>6. \A r : blocks_to_confirm(r)' = blocks_to_confirm(r)
      BY <2>1 DEF blocks_to_confirm
    <2> HIDE DEF q, new, sch, ref
    <2> QED BY <1>0, <1>p, <2>1, <2>2, <2>5, <2>6, Zenon DEF BInv
  <1>3. ASSUME CommitBlock PROVE BInv'
    <2>1. pending # <<>> /\ head' = pending[1].bs /\ gpo' = pending[1].gpo /\ pending' = <<>>
      BY <1>3, Zenon DEF CommitBlock
    <2> QED BY <1>0, <1>p, <2>1, Zenon DEF BInv
  <1>4. ASSUME CommitRejected \/ AbortBlock PROVE BInv'
    <2>1. pending' = <<>> /\ UNCHANGED <<head, gpo>>
      BY <1>4, Zenon DEF CommitRejected, AbortBlock
    <2> QED BY <1>0, <1>p, <2>1, Zenon DEF BInv
  <1>5. ASSUME NEW p \in DOMAIN watermark, Restart(p) PROVE BInv'
    <2>1. pending = <<>> /\ UNCHANGED <<head, gpo, pending>>
      BY <1>5, Zenon DEF Restart
    <2> QED BY <1>0, <1>p, <2>1, Zenon DEF BInv
  <1>6. CASE UNCHANGED vars
    <2>1. UNCHANGED <<head, pending, gpo, watermark>>
      BY <1>6 DEF vars
    <2>2. \A p : blocks_to_confirm(p)' = blocks_to_confirm(p)
      BY <2>1 DEF blocks_to_confirm
    <2> QED BY <1>0, <1>p, <2>1, <2>2, Zenon DEF BInv
  <1> QED BY <1>1, <1>2, <1>3, <1>4, <1>5, <1>6, Zenon DEF Next

(* The invariant holds throughout. *)
LEMMA BuiltInvariance == Spec => []BInv
  BY InitBInv, NextBInv, PTL DEF Spec

(* What next compares with the header.                                      *)
LEMMA GenerateNextHeader ==
  ASSUME NEW hs, IsHeaderState(hs), NEW when
  PROVE  /\ generate_next(hs, when).producer = get_scheduled_producer(hs, when)
         /\ generate_next(hs, when).schedule_version = hs.active.version
         /\ generate_next(hs, when).block_num = hs.block_num + 1
  BY GenerateNextFields

(* next, run on the header of a block start_block built, makes the same     *)
(* header state, and each of its assertions holds but the one on double     *)
(* confirmation.                                                            *)
LEMMA BuiltIsNext ==
  ASSUME NEW hs, NEW bs, Built(hs, bs), Sound(hs), Sound(bs)
  PROVE  LET h == HeaderOf(bs)
         IN  /\ next(hs, h) = bs
             /\ (bs.producer \in DOMAIN hs.last_produced
                   => ConfirmsOnlyNew(hs.last_produced[bs.producer], hs.block_num + 1, bs.confirmed))
                => CanNext(hs, h)
  <1> DEFINE h == HeaderOf(bs)
             s == Settled(hs, bs.timestamp, bs.confirmed)
             g == generate_next(hs, bs.timestamp)
  <1>1. /\ h.timestamp = bs.timestamp /\ h.producer = bs.producer /\ h.confirmed = bs.confirmed
        /\ h.schedule_version = bs.schedule_version /\ h.new_producers = bs.new_producers
    BY Zenon DEF HeaderOf
  <1>2. /\ bs.timestamp > hs.timestamp
        /\ bs.producer = get_scheduled_producer(hs, bs.timestamp)
        /\ bs.schedule_version = hs.active.version
        /\ \/ bs.new_producers = <<>> /\ bs = maybe_promote_pending(s)
           \/ \E sch : /\ bs.new_producers = <<sch>>
                       /\ ~PendingPromotable(s) /\ CanSetNewProducers(s, sch)
                       /\ bs = set_new_producers(maybe_promote_pending(s), sch)
    BY Zenon DEF Built
  <1>3. /\ g.producer = get_scheduled_producer(hs, bs.timestamp)
        /\ g.schedule_version = hs.active.version /\ g.block_num = hs.block_num + 1
    <2>1. IsHeaderState(hs)
      BY Zenon DEF Sound
    <2> QED BY <2>1, GenerateNextHeader, Zenon
  <1>4. s = set_confirmed(g, h.confirmed) /\ g = generate_next(hs, h.timestamp)
    BY <1>1, Zenon DEF Settled
  <1> HIDE DEF h, s, g
  <1>7. next(hs, h) = IF h.new_producers = <<>> THEN maybe_promote_pending(s)
                      ELSE set_new_producers(maybe_promote_pending(s), h.new_producers[1])
    BY <1>4, Zenon DEF next
  <1>8. \/ h.new_producers = <<>> /\ bs = maybe_promote_pending(s)
        \/ /\ h.new_producers # <<>>
           /\ ~PendingPromotable(s) /\ CanSetNewProducers(s, h.new_producers[1])
           /\ bs = set_new_producers(maybe_promote_pending(s), h.new_producers[1])
    <2>1. CASE bs.new_producers = <<>> /\ bs = maybe_promote_pending(s)
      BY <1>1, <2>1, Zenon
    <2>2. ASSUME NEW sch, bs.new_producers = <<sch>>,
                 ~PendingPromotable(s), CanSetNewProducers(s, sch),
                 bs = set_new_producers(maybe_promote_pending(s), sch)
          PROVE  /\ h.new_producers # <<>>
                 /\ ~PendingPromotable(s) /\ CanSetNewProducers(s, h.new_producers[1])
                 /\ bs = set_new_producers(maybe_promote_pending(s), h.new_producers[1])
      <3>1. h.new_producers # <<>> /\ h.new_producers[1] = sch
        BY <1>1, <2>2
      <3> QED BY <2>2, <3>1, Zenon
    <2> QED BY <1>2, <2>1, <2>2, Zenon
  <1>5. next(hs, h) = bs
    BY <1>7, <1>8, Zenon
  <1>6. ASSUME bs.producer \in DOMAIN hs.last_produced
                 => ConfirmsOnlyNew(hs.last_produced[bs.producer], hs.block_num + 1, bs.confirmed)
        PROVE  CanNext(hs, h)
    <2>1. h.new_producers # <<>> => ~PendingPromotable(s) /\ CanSetNewProducers(s, h.new_producers[1])
      BY <1>8, Zenon
    <2> QED BY <1>1, <1>2, <1>3, <1>4, <1>6, <2>1, Zenon DEF CanNext
  <1> QED BY <1>5, <1>6, Zenon DEF h

(* blocks_to_confirm never reaches back to a block the producer has already *)
(* confirmed, as long as its watermark is not stale.                        *)
LEMMA FreshConfirms ==
  ASSUME IInv, ProducedBefore(head), NEW p \in DOMAIN head.last_produced, ~StaleWatermark(p)
  PROVE  ConfirmsOnlyNew(head.last_produced[p], head.block_num + 1, blocks_to_confirm(p))
  <1>1. head.block_num \in Nat /\ head.last_produced[p] \in Nat
    BY Zenon DEF IInv, Sound, IsHeaderState, IsNumMap
  <1>2. head.last_produced[p] <= head.block_num
    BY Zenon DEF ProducedBefore
  <1>3. CASE p \in DOMAIN watermark /\ watermark[p] < head.block_num
    <2>1. watermark[p] \in Nat
      BY <1>3, Zenon DEF IInv, IsNumMap
    <2>2. head.last_produced[p] <= watermark[p]
      BY <1>1, <1>3, <2>1 DEF StaleWatermark
    <2>3. blocks_to_confirm(p) = (head.block_num - watermark[p]) % 65536
      BY <1>3 DEF blocks_to_confirm
    <2>4. blocks_to_confirm(p) \in Nat /\ blocks_to_confirm(p) <= head.block_num - watermark[p]
      <3>1. \A d \in Nat : d % 65536 \in Nat /\ d % 65536 <= d
        OBVIOUS
      <3>2. head.block_num - watermark[p] \in Nat
        BY <1>1, <1>3, <2>1
      <3> QED BY <2>3, <3>1, <3>2
    <2> HIDE DEF blocks_to_confirm
    <2> QED BY <1>1, <2>1, <2>2, <2>4 DEF ConfirmsOnlyNew
  <1>4. CASE ~(p \in DOMAIN watermark /\ watermark[p] < head.block_num)
    <2>1. blocks_to_confirm(p) = 0
      BY <1>4 DEF blocks_to_confirm
    <2> QED BY <1>1, <1>2, <2>1 DEF ConfirmsOnlyNew
  <1> QED BY <1>3, <1>4, Zenon

(* The header state that start_block builds is the one every validator      *)
(* computes with block_header_state::next, whatever slots are missed,       *)
(* schedules proposed and nodes restarted; and next accepts the header      *)
(* unless the producer's watermark is older than its last_produced entry.   *)
THEOREM ValidatorsAgree == Spec => []ValidatorAgrees
  <1>1. BInv => ValidatorAgrees
    <2> SUFFICES ASSUME BInv, pending # <<>>
                 PROVE  LET bs == pending[1].bs
                        IN  /\ next(head, HeaderOf(bs)) = bs
                            /\ CanNext(head, HeaderOf(bs)) \/ StaleWatermark(bs.producer)
      BY Zenon DEF ValidatorAgrees
    <2> DEFINE bs == pending[1].bs
    <2>1. /\ Built(head, bs) /\ bs.confirmed = blocks_to_confirm(bs.producer)
          /\ Sound(head) /\ Sound(bs) /\ IInv /\ ProducedBefore(head)
      BY Zenon DEF BInv, IInv
    <2> HIDE DEF bs
    <2>2. next(head, HeaderOf(bs)) = bs
      BY <2>1, BuiltIsNext, Zenon
    <2>3. ASSUME ~StaleWatermark(bs.producer) PROVE CanNext(head, HeaderOf(bs))
      <3>1. bs.producer \in DOMAIN head.last_produced
              => ConfirmsOnlyNew(head.last_produced[bs.producer], head.block_num + 1, bs.confirmed)
        BY <2>1, <2>3, FreshConfirms, Zenon
      <3> QED BY <2>1, <3>1, BuiltIsNext, Zenon
    <2> QED BY <2>2, <2>3, Zenon DEF bs
  <1> QED BY <1>1, BuiltInvariance, PTL

(* A waiting proposal always has the version set_new_producers asks for.    *)
THEOREM ProposalsFit == Spec => []ProposalVersionFits
  <1>1. BInv => ProposalVersionFits
    <2>1. BInv => Fits(gpo, head)
      BY Zenon DEF BInv
    <2> QED BY <2>1, Zenon DEF Fits, ReferenceSchedule, ProposalVersionFits
  <1> QED BY <1>1, BuiltInvariance, PTL

(* When start_block announces a waiting proposal, both assertions of        *)
(* set_new_producers hold: a proposal can never make start_block throw.     *)
AnnouncementFits ==
  \A when \in NextSlots :
    ProposalReady(maybe_promote_pending(Confirmed(when)), PendingPromotable(Confirmed(when)))
      => CanSetNewProducers(maybe_promote_pending(Confirmed(when)), gpo.schedule)

(* start_block never fails on the schedule that set_proposed_producers left. *)
THEOREM AnnouncementsFit == Spec => []AnnouncementFits
  <1>1. BInv => AnnouncementFits
    <2> SUFFICES ASSUME BInv, NEW when \in NextSlots,
                        ProposalReady(maybe_promote_pending(Confirmed(when)), PendingPromotable(Confirmed(when)))
                 PROVE  CanSetNewProducers(maybe_promote_pending(Confirmed(when)), gpo.schedule)
      BY Zenon DEF AnnouncementFits
    <2> DEFINE num == blocks_to_confirm(get_scheduled_producer(head, when))
               s   == Settled(head, when, num)
    <2>1. Sound(head) /\ Fits(gpo, head) /\ gpo \in GpoType
      BY Zenon DEF BInv, IInv
    <2>2. when \in Nat
      <3>1. head.timestamp \in Nat
        BY <2>1, SoundFields, Zenon
      <3> QED BY <3>1, BoundsAssumption DEF NextSlots
    <2>3. num \in Nat
      BY ConfirmNumber, IInvParts, Zenon DEF BInv
    <2>4. Confirmed(when) = s
      BY Zenon DEF Confirmed, Settled
    <2> HIDE DEF num
    <2>5. s.active = head.active /\ s.pending = head.pending
      BY <2>1, <2>2, <2>3, SettledSchedules, Zenon
    <2> HIDE DEF s
    <2>6. ~PendingPromotable(s)
      BY <2>4, Zenon DEF ProposalReady
    <2>7. maybe_promote_pending(s) = s
      BY <2>6, Zenon DEF maybe_promote_pending
    <2>8. gpo.num # 0 /\ s.pending.producers = <<>>
      BY <2>4, <2>7, Zenon DEF ProposalReady
    <2>9. gpo.schedule.version = 1 + head.active.version
      BY <2>1, <2>5, <2>8, Zenon DEF Fits, ReferenceSchedule
    <2>10. head.active.version \in Nat
      BY <2>1, SoundFields, Zenon DEF ScheduleType
    <2>11. gpo.schedule.version = s.active.version + 1
      BY <2>5, <2>9, <2>10
    <2> QED BY <2>4, <2>7, <2>8, <2>11, Zenon DEF CanSetNewProducers
  <1> QED BY <1>1, BuiltInvariance, PTL
=============================================================================
