---------------------------- MODULE QuorumProofs ----------------------------
(***************************************************************************)
(* Irreversibility in HeaderChain rests on quorums, for every set of       *)
(* schedules, every pattern of missed slots and restarts and every value   *)
(* of MaxTracked and ProducerRepetitions: a proposed irreversible block    *)
(* was confirmed by more than two thirds of the schedule that signed it,   *)
(* and an irreversible block was seen as proposed by more than two thirds  *)
(* of the active schedule.                                                 *)
(*                                                                         *)
(* The counters of confirm_count say nothing about who confirmed.  The     *)
(* invariant QInv ties them to the record of confirmers: a counter and     *)
(* the number of confirmers always add up to what was required (Tally),    *)
(* because a producer's watermark is at or above every block it confirmed, *)
(* so that blocks_to_confirm never reaches a block twice.                  *)
(***************************************************************************)
EXTENDS HeaderChainProofs

EntryType ==
  [producer : BlockProducers, required : Nat, confirmers : SUBSET BlockProducers,
   proposed : Nat, floor : Nat]

(* Each tracked counter is what its block still lacks.                      *)
Tally(hs, hist) ==
  \A j \in 1..Len(hs.confirm_count) :
    hs.confirm_count[j] + Cardinality(hist[BlockNumFor(hs, j)].confirmers)
      = hist[BlockNumFor(hs, j)].required

(* A counter belongs to a block after genesis that exists.                  *)
LEMMA TrackedRange ==
  ASSUME NEW hs, Sound(hs), NEW j \in 1..Len(hs.confirm_count)
  PROVE  BlockNumFor(hs, j) \in 2..hs.block_num
  <1>1. /\ hs.block_num \in Nat \ {0} /\ hs.dpos_proposed \in Nat
        /\ hs.confirm_count \in Seq(Nat \ {0}) /\ hs.dpos_proposed <= hs.block_num
    BY Zenon DEF Sound, IsHeaderState, BehindProposed
  <1>2. Len(hs.confirm_count) \in Nat
    BY <1>1
  <1>3. Len(hs.confirm_count) <= hs.block_num - 1
    BY <1>1, <1>2, MaxTrackedAssumption DEF Sound, Aligned
  <1> QED BY <1>1, <1>2, <1>3, SMTT(20) DEF BlockNumFor

(* The counters after generate_next: the new block's is the last, and each  *)
(* of the others still belongs to the block it belonged to.                 *)
LEMMA GrownCounters ==
  ASSUME NEW cc \in Seq(Nat \ {0}), NEW c \in Nat \ {0}
  PROVE  LET new == GrowConfirmCount(cc, c)
         IN  /\ new[Len(new)] = c /\ Len(new) \in Nat \ {0}
             /\ \A j \in 1..(Len(new) - 1) : /\ j + Len(cc) - (Len(new) - 1) \in 1..Len(cc)
                                             /\ new[j] = cc[j + Len(cc) - (Len(new) - 1)]
  <1> DEFINE new == GrowConfirmCount(cc, c)
  <1>1. Len(cc) \in Nat
    OBVIOUS
  <1>2. CASE Len(cc) < MaxTracked
    <2>1. new = Append(cc, c)
      BY <1>2, Zenon DEF GrowConfirmCount
    <2>2. Len(new) = Len(cc) + 1 /\ new[Len(cc) + 1] = c /\ \A j \in 1..Len(cc) : new[j] = cc[j]
      BY <2>1
    <2> HIDE DEF new
    <2>3. \A j \in 1..(Len(new) - 1) : j + Len(cc) - (Len(new) - 1) = j /\ j \in 1..Len(cc)
      BY <1>1, <2>2
    <2> QED BY <1>1, <2>2, <2>3 DEF new
  <1>3. CASE ~(Len(cc) < MaxTracked)
    <2>1. Len(cc) > 0
      BY <1>1, <1>3, MaxTrackedAssumption
    <2>2. new = Append(Tail(cc), c)
      BY <1>3, Zenon DEF GrowConfirmCount
    <2>3. /\ Tail(cc) \in Seq(Nat \ {0}) /\ Len(Tail(cc)) = Len(cc) - 1
          /\ \A j \in 1..(Len(cc) - 1) : Tail(cc)[j] = cc[j + 1]
      BY <1>1, <2>1
    <2>4. /\ Len(new) = Len(cc) /\ new[Len(cc)] = c
          /\ \A j \in 1..(Len(cc) - 1) : new[j] = cc[j + 1]
      <3> DEFINE t == Tail(cc)
      <3> HIDE DEF t
      <3>1. t \in Seq(Nat \ {0}) /\ Len(t) = Len(cc) - 1
        BY <2>3, Zenon DEF t
      <3>2. Append(t, c)[Len(t) + 1] = c /\ Len(Append(t, c)) = Len(t) + 1
            /\ \A j \in 1..Len(t) : Append(t, c)[j] = t[j]
        BY <3>1
      <3> QED BY <1>1, <2>1, <2>2, <2>3, <3>1, <3>2 DEF t
    <2> HIDE DEF new
    <2>5. \A j \in 1..(Len(new) - 1) : /\ j + Len(cc) - (Len(new) - 1) = j + 1
                                       /\ j + 1 \in 1..Len(cc) /\ j \in 1..(Len(cc) - 1)
      BY <1>1, <2>1, <2>4
    <2> QED BY <1>1, <2>1, <2>4, <2>5 DEF new
  <1> QED BY <1>2, <1>3, Zenon

(* A new confirmer is one confirmer more. *)
LEMMA OneMore ==
  ASSUME NEW S, NEW x, IsFiniteSet(S), x \notin S
  PROVE  Cardinality(S \cup {x}) = Cardinality(S) + 1 /\ Cardinality(S) \in Nat
  BY FS_AddElement, FS_CardinalityType, Zenon

(* A confirmer that is added leaves no fewer. *)
LEMMA NoFewer ==
  ASSUME NEW S, NEW x, IsFiniteSet(S)
  PROVE  Cardinality(S \cup {x}) >= Cardinality(S) /\ Cardinality(S \cup {x}) \in Nat
  <1>1. Cardinality(S) \in Nat
    BY FS_CardinalityType, Zenon
  <1>2. CASE x \in S
    <2>1. S \cup {x} = S
      BY <1>2, Zenon
    <2> QED BY <1>1, <2>1
  <1>3. CASE x \notin S
    BY <1>1, <1>3, OneMore
  <1> QED BY <1>2, <1>3, Zenon

(* set_confirmed decrements exactly the counters of the blocks that gain a  *)
(* confirmer, and proposes a block whose counter reaches zero.              *)
LEMMA SettledTally ==
  ASSUME NEW hs, Sound(hs), NEW num \in Nat, NEW p, NEW hist, NEW rec, Tally(hs, hist),
         \A i \in 1..hs.block_num : IsFiniteSet(hist[i].confirmers) /\ hist[i].required \in Nat,
         \A i \in 1..hs.block_num : i >= hs.block_num - num => p \notin hist[i].confirmers,
         \A i \in 1..hs.block_num :
           /\ rec[i].required = hist[i].required
           /\ i < hs.block_num - num => rec[i].confirmers = hist[i].confirmers
           /\ i >= hs.block_num - num => rec[i].confirmers = hist[i].confirmers \cup {p}
  PROVE  LET s == set_confirmed(hs, num)
         IN  /\ Tally(s, rec)
             /\ \/ s.dpos_proposed = hs.dpos_proposed
                \/ /\ s.dpos_proposed \in 1..hs.block_num
                   /\ Cardinality(rec[s.dpos_proposed].confirmers) >= rec[s.dpos_proposed].required
  <1> DEFINE n     == hs.block_num
             cc    == hs.confirm_count
             s     == set_confirmed(hs, num)
             first == IF num < Len(cc) THEN Len(cc) - num ELSE 1
             reached == {i \in first..Len(cc) : cc[i] = 1}
             last  == CHOOSE i \in reached : \A j \in reached : j <= i
             down  == [i \in 1..Len(cc) |-> IF i >= first THEN cc[i] - 1 ELSE cc[i]]
             kept  == [i \in 1..(Len(cc) - last) |-> cc[last + i] - 1]
             B(j)  == n - (Len(cc) - j)
             Card(j) == Cardinality(hist[B(j)].confirmers)
             New(j)  == Cardinality(rec[B(j)].confirmers)
  <1>0. n \in Nat \ {0} /\ cc \in Seq(Nat \ {0}) /\ Len(cc) \in Nat
    BY DEF Sound, IsHeaderState
  <1>1. first \in Nat \ {0}
    BY <1>0
  <1>2. ASSUME NEW j \in 1..Len(cc)
        PROVE  /\ B(j) = BlockNumFor(hs, j) /\ B(j) \in 1..n /\ cc[j] \in Nat \ {0}
               /\ cc[j] + Card(j) = rec[B(j)].required /\ Card(j) \in Nat
               /\ j >= first => New(j) = Card(j) + 1
               /\ j < first => New(j) = Card(j)
    <2>1. B(j) = BlockNumFor(hs, j)
      BY Zenon DEF BlockNumFor
    <2>2. BlockNumFor(hs, j) \in 2..n
      BY TrackedRange, Zenon
    <2>3. B(j) \in 1..n /\ cc[j] \in Nat \ {0}
      <3> HIDE DEF B, cc
      <3> QED BY <1>0, <2>1, <2>2
    <2>4. cc[j] + Card(j) = rec[B(j)].required
      <3>1. cc[j] + Cardinality(hist[BlockNumFor(hs, j)].confirmers) = hist[BlockNumFor(hs, j)].required
        BY Zenon DEF Tally
      <3>2. rec[B(j)].required = hist[B(j)].required
        BY <2>3, Zenon
      <3> HIDE DEF B, cc
      <3> QED BY <2>1, <3>1, <3>2, Zenon
    <2>5. IsFiniteSet(hist[B(j)].confirmers)
      BY <2>3, Zenon
    <2>6. Card(j) \in Nat
      BY <2>5, FS_CardinalityType, Zenon
    <2>7. j >= first => B(j) >= n - num
      <3> HIDE DEF cc, n
      <3> QED BY <1>0
    <2>8. j < first => B(j) < n - num
      <3> HIDE DEF cc, n
      <3> QED BY <1>0
    <2> HIDE DEF B, n, first
    <2>9. ASSUME j >= first PROVE New(j) = Card(j) + 1
      <3>1. p \notin hist[B(j)].confirmers /\ rec[B(j)].confirmers = hist[B(j)].confirmers \cup {p}
        BY <2>3, <2>7, <2>9, Zenon DEF n
      <3> QED BY <2>5, <3>1, OneMore, Zenon
    <2>10. ASSUME j < first PROVE New(j) = Card(j)
      BY <2>3, <2>8, <2>10, Zenon DEF n
    <2> QED BY <2>1, <2>3, <2>4, <2>6, <2>9, <2>10, Zenon
  <1>3. CASE reached = {}
    <2>1. s = [hs EXCEPT !.confirmed = num, !.confirm_count = down]
      BY <1>3, Zenon DEF set_confirmed
    <2>2. s.confirm_count = down /\ s.dpos_proposed = hs.dpos_proposed /\ s.block_num = n
      <3> HIDE DEF down
      <3> QED BY <2>1, FieldsOf, Zenon DEF HeaderFields, Sound
    <2>3. Len(down) = Len(cc)
      <3> HIDE DEF cc, first
      <3> QED BY <1>0
    <2>4. ASSUME NEW j \in 1..Len(cc) PROVE down[j] + New(j) = rec[B(j)].required
      <3>1. down[j] = IF j >= first THEN cc[j] - 1 ELSE cc[j]
        BY Zenon
      <3> HIDE DEF cc, first, down, New, Card, B
      <3> QED BY <1>0, <1>1, <1>2, <3>1
    <2> HIDE DEF s, down
    <2>5. ASSUME NEW j \in 1..Len(s.confirm_count) PROVE BlockNumFor(s, j) = B(j) /\ j \in 1..Len(cc)
      BY <2>2, <2>3, Zenon DEF BlockNumFor
    <2>6. Tally(s, rec)
      <3> HIDE DEF B, cc
      <3> QED BY <2>2, <2>4, <2>5 DEF Tally
    <2> QED BY <2>2, <2>6, Zenon DEF s
  <1>4. CASE reached # {}
    <2>1. s = [hs EXCEPT !.confirmed = num, !.dpos_proposed = BlockNumFor(hs, last),
                         !.confirm_count = kept]
      BY <1>4, Zenon DEF set_confirmed
    <2>2. last \in reached
      <3>1. reached \in SUBSET (1..Len(cc))
        <4> HIDE DEF cc, first
        <4> QED BY <1>0, <1>1
      <3> HIDE DEF reached
      <3> QED BY <1>0, <1>4, <3>1, LastPosition, Zenon
    <2>3. last \in 1..Len(cc) /\ last >= first /\ cc[last] = 1
      <3> HIDE DEF last, cc, first
      <3> QED BY <1>0, <1>1, <2>2
    <2>4. s.confirm_count = kept /\ s.dpos_proposed = BlockNumFor(hs, last) /\ s.block_num = n
      <3> HIDE DEF kept, last
      <3> QED BY <2>1, FieldsOf, Zenon DEF HeaderFields, Sound
    <2> HIDE DEF last, reached
    <2>5. Len(kept) = Len(cc) - last
      <3> HIDE DEF cc, first
      <3> QED BY <1>0, <2>3
    <2>6. ASSUME NEW j \in 1..(Len(cc) - last)
          PROVE  /\ last + j \in 1..Len(cc) /\ kept[j] = cc[last + j] - 1
                 /\ kept[j] + New(last + j) = rec[B(last + j)].required
      <3>1. last + j \in 1..Len(cc) /\ last + j >= first
        <4> HIDE DEF cc, first
        <4> QED BY <1>0, <1>1, <2>3, SMTT(20)
      <3>2. kept[j] = cc[last + j] - 1
        BY Zenon
      <3> HIDE DEF cc, first, kept, New, Card, B
      <3> QED BY <1>0, <1>1, <1>2, <3>1, <3>2, SMTT(20)
    <2> HIDE DEF s, kept
    <2>7. ASSUME NEW j \in 1..Len(s.confirm_count)
          PROVE  j \in 1..(Len(cc) - last) /\ BlockNumFor(s, j) = B(last + j)
      <3>1. Len(s.confirm_count) = Len(cc) - last
        BY <2>4, <2>5, Zenon
      <3> HIDE DEF cc
      <3> QED BY <1>0, <2>3, <2>4, <3>1 DEF BlockNumFor
    <2>8. Tally(s, rec)
      <3> HIDE DEF B, cc
      <3> QED BY <2>4, <2>6, <2>7 DEF Tally
    <2>9. New(last) = rec[B(last)].required /\ B(last) = s.dpos_proposed /\ B(last) \in 1..n
          /\ New(last) \in Nat
      <3> HIDE DEF cc, first, New, Card, B
      <3> QED BY <1>2, <2>3, <2>4
    <2>10. Cardinality(rec[s.dpos_proposed].confirmers) >= rec[s.dpos_proposed].required
      <3> HIDE DEF B
      <3> QED BY <2>9
    <2> QED BY <2>8, <2>9, <2>10, Zenon DEF s
  <1> QED BY <1>3, <1>4, Zenon

(* A schedule asks for at least one confirmation. *)
LEMMA RequiredPositive ==
  ASSUME NEW hs, IsHeaderState(hs)
  PROVE  RequiredConfs(hs.active) \in Nat \ {0}
  <1> DEFINE n == Len(hs.active.producers)
  <1>1. n \in Nat
    BY ActiveSchedule, Zenon
  <1>2. (n * 2) \div 3 + 1 \in Nat \ {0}
    <2> HIDE DEF n
    <2> QED BY <1>1
  <1> QED BY <1>2, Zenon DEF RequiredConfs

(* generate_next keeps the tally: the new block lacks every confirmation    *)
(* its schedule requires.                                                   *)
LEMMA GrownTally ==
  ASSUME NEW hs, Sound(hs), NEW when \in Nat, NEW hist, NEW grown, Tally(hs, hist),
         \A i \in 1..hs.block_num : grown[i] = hist[i],
         grown[hs.block_num + 1].required = RequiredConfs(hs.active),
         grown[hs.block_num + 1].confirmers = {}
  PROVE  Tally(generate_next(hs, when), grown)
  <1> DEFINE g   == generate_next(hs, when)
             cc  == hs.confirm_count
             c   == RequiredConfs(hs.active)
             new == GrowConfirmCount(cc, c)
             n   == hs.block_num
  <1>0. n \in Nat \ {0} /\ cc \in Seq(Nat \ {0}) /\ Len(cc) \in Nat
    BY DEF Sound, IsHeaderState
  <1>1. c \in Nat \ {0}
    BY RequiredPositive, Zenon DEF Sound
  <1>2. g.confirm_count = new /\ g.block_num = n + 1
    BY GenerateNextFields DEF Sound
  <1>3. /\ new[Len(new)] = c /\ Len(new) \in Nat \ {0}
        /\ \A j \in 1..(Len(new) - 1) : /\ j + Len(cc) - (Len(new) - 1) \in 1..Len(cc)
                                        /\ new[j] = cc[j + Len(cc) - (Len(new) - 1)]
    BY <1>0, <1>1, GrownCounters, Zenon
  <1> HIDE DEF g, new
  <1>4. ASSUME NEW j \in 1..Len(new), j # Len(new)
        PROVE  new[j] + Cardinality(grown[BlockNumFor(g, j)].confirmers) = grown[BlockNumFor(g, j)].required
    <2> DEFINE k == j + Len(cc) - (Len(new) - 1)
    <2>1. j \in 1..(Len(new) - 1)
      BY <1>3, <1>4
    <2>2. k \in 1..Len(cc) /\ new[j] = cc[k]
      BY <1>3, <2>1, Zenon
    <2>3. BlockNumFor(hs, k) = BlockNumFor(g, j)
      <3>1. BlockNumFor(hs, k) = n - (Len(cc) - k)
        BY Zenon DEF BlockNumFor
      <3>2. BlockNumFor(g, j) = n + 1 - (Len(new) - j)
        <4>1. BlockNumFor(g, j) = g.block_num - (Len(g.confirm_count) - j)
          BY Zenon DEF BlockNumFor
        <4>2. g.block_num = n + 1 /\ Len(g.confirm_count) = Len(new)
          BY <1>2, Zenon
        <4> HIDE DEF n
        <4> QED BY <1>0, <1>3, <4>1, <4>2
      <3> HIDE DEF cc, n
      <3> QED BY <1>0, <1>3, <3>1, <3>2
    <2> HIDE DEF k
    <2>4. BlockNumFor(hs, k) \in 2..n
      BY <2>2, TrackedRange, Zenon
    <2>5. grown[BlockNumFor(hs, k)] = hist[BlockNumFor(hs, k)]
      BY <1>0, <2>4
    <2>6. cc[k] + Cardinality(hist[BlockNumFor(hs, k)].confirmers) = hist[BlockNumFor(hs, k)].required
      BY <2>2, Zenon DEF Tally
    <2> QED BY <2>2, <2>3, <2>5, <2>6, Zenon
  <1>5. new[Len(new)] + Cardinality(grown[BlockNumFor(g, Len(new))].confirmers)
          = grown[BlockNumFor(g, Len(new))].required
    <2>1. BlockNumFor(g, Len(new)) = n + 1
      BY <1>0, <1>2, <1>3 DEF BlockNumFor
    <2>2. Cardinality({}) = 0
      BY FS_EmptySet, Zenon
    <2>3. grown[n + 1].confirmers = {} /\ grown[n + 1].required = c
      BY Zenon
    <2>4. Cardinality(grown[BlockNumFor(g, Len(new))].confirmers) = 0
      BY <2>1, <2>2, <2>3, Zenon
    <2>5. grown[BlockNumFor(g, Len(new))].required = c /\ new[Len(new)] = c
      BY <1>3, <2>1, <2>3, Zenon
    <2> HIDE DEF c
    <2> QED BY <1>1, <2>4, <2>5
  <1>6. \A j \in 1..Len(new) :
          new[j] + Cardinality(grown[BlockNumFor(g, j)].confirmers) = grown[BlockNumFor(g, j)].required
    BY <1>4, <1>5, Zenon
  <1> QED BY <1>2, <1>6, Zenon DEF Tally, g

(* What the record of the chain says after a block is committed: the block  *)
(* is added, and it and the blocks it confirms gain its producer.           *)
LEMMA RecordedFields ==
  ASSUME Sound(head), history \in Seq(EntryType), Len(history) = head.block_num,
         NEW bs, Sound(bs), bs.block_num = head.block_num + 1
  PROVE  LET rec == Recorded(bs)
             n   == head.block_num
         IN  /\ rec \in Seq(EntryType)
             /\ \A i \in 1..n :
                  /\ rec[i].producer = history[i].producer /\ rec[i].required = history[i].required
                  /\ rec[i].proposed = history[i].proposed /\ rec[i].floor = history[i].floor
                  /\ i < n + 1 - bs.confirmed => rec[i].confirmers = history[i].confirmers
                  /\ i >= n + 1 - bs.confirmed
                       => rec[i].confirmers = history[i].confirmers \cup {bs.producer}
             /\ rec[n + 1].producer = bs.producer /\ rec[n + 1].proposed = bs.dpos_proposed
             /\ rec[n + 1].required = RequiredConfs(head.active)
             /\ rec[n + 1].confirmers = {bs.producer}
             /\ rec[n + 1].floor = IF bs.active # head.active THEN bs.dpos_irreversible
                                                              ELSE history[n].floor
  <1> DEFINE n     == head.block_num
             p     == bs.producer
             first == bs.block_num - bs.confirmed
             base  == IF bs.active # head.active THEN bs.dpos_irreversible ELSE history[n].floor
             entry == [producer |-> p, required |-> RequiredConfs(head.active),
                       confirmers |-> {}, proposed |-> bs.dpos_proposed, floor |-> base]
             grown == Append(history, entry)
             rec   == [i \in 1..(n + 1) |-> IF i < first THEN grown[i]
                         ELSE [grown[i] EXCEPT !.confirmers = @ \cup {p}]]
  <1>0. /\ n \in Nat \ {0} /\ bs.confirmed \in Nat /\ p \in BlockProducers
        /\ bs.dpos_proposed \in Nat /\ bs.dpos_irreversible \in Nat
    BY Zenon DEF Sound, IsHeaderState
  <1>1. RequiredConfs(head.active) \in Nat
    BY RequiredPositive, Zenon DEF Sound
  <1>2. Recorded(bs) = rec
    <2>1. bs.block_num = n + 1 /\ bs.block_num - 1 = n
      BY <1>0
    <2> QED BY <2>1, Zenon DEF Recorded
  <1>3. \A i \in 1..n : history[i] \in EntryType
    BY <1>0
  <1>4. base \in Nat
    <2>1. history[n] \in EntryType
      BY <1>0, <1>3
    <2>2. history[n].floor \in Nat
      BY <2>1, Zenon DEF EntryType
    <2> QED BY <1>0, <2>2, Zenon
  <1>5. entry \in EntryType
    <2> HIDE DEF base
    <2> QED BY <1>0, <1>1, <1>4, Zenon DEF EntryType
  <1>6. /\ \A i \in 1..n : grown[i] = history[i]
        /\ grown[n + 1] = entry
        /\ \A i \in 1..(n + 1) : grown[i] \in EntryType
    <2> HIDE DEF entry
    <2>1. (\A i \in 1..n : grown[i] = history[i]) /\ grown[n + 1] = entry
      BY <1>0
    <2> HIDE DEF grown
    <2> QED BY <1>0, <1>3, <1>5, <2>1
  <1>7. /\ entry.producer = p /\ entry.required = RequiredConfs(head.active)
        /\ entry.confirmers = {} /\ entry.proposed = bs.dpos_proposed /\ entry.floor = base
    BY Zenon
  <1> HIDE DEF entry, grown, base
  <1>8. ASSUME NEW e \in EntryType
        PROVE  LET x == [e EXCEPT !.confirmers = @ \cup {p}]
               IN  /\ x \in EntryType /\ x.producer = e.producer /\ x.required = e.required
                   /\ x.proposed = e.proposed /\ x.floor = e.floor
                   /\ x.confirmers = e.confirmers \cup {p}
    <2> HIDE DEF p
    <2> QED BY <1>0, Zenon DEF EntryType
  <1>9. ASSUME NEW i \in 1..(n + 1)
        PROVE  /\ rec[i] \in EntryType
               /\ rec[i].producer = grown[i].producer /\ rec[i].required = grown[i].required
               /\ rec[i].proposed = grown[i].proposed /\ rec[i].floor = grown[i].floor
               /\ i < first => rec[i].confirmers = grown[i].confirmers
               /\ ~(i < first) => rec[i].confirmers = grown[i].confirmers \cup {p}
    <2>1. CASE i < first
      <3>1. rec[i] = grown[i]
        BY <2>1, Zenon
      <3> HIDE DEF rec, first, n, p
      <3> QED BY <1>6, <2>1, <3>1, Zenon
    <2>2. CASE ~(i < first)
      <3>1. rec[i] = [grown[i] EXCEPT !.confirmers = @ \cup {p}]
        BY <2>2, Zenon
      <3>2. grown[i] \in EntryType
        BY <1>6, Zenon
      <3> HIDE DEF rec, first, n, p
      <3> QED BY <1>8, <2>2, <3>1, <3>2, Zenon
    <2> QED BY <2>1, <2>2, Zenon
  <1>10. rec \in Seq(EntryType)
    <2>1. \A i \in 1..(n + 1) : rec[i] \in EntryType
      BY <1>9, Zenon
    <2>2. n + 1 \in Nat /\ DOMAIN rec = 1..(n + 1) /\ rec = [i \in 1..(n + 1) |-> rec[i]]
      BY <1>0
    <2> HIDE DEF rec, n
    <2> QED BY <2>1, <2>2
  <1>11. first = n + 1 - bs.confirmed /\ first <= n + 1
    BY <1>0
  <1> HIDE DEF rec, first
  <1>12. ASSUME NEW i \in 1..n
         PROVE  /\ rec[i].producer = history[i].producer /\ rec[i].required = history[i].required
                /\ rec[i].proposed = history[i].proposed /\ rec[i].floor = history[i].floor
                /\ i < n + 1 - bs.confirmed => rec[i].confirmers = history[i].confirmers
                /\ i >= n + 1 - bs.confirmed => rec[i].confirmers = history[i].confirmers \cup {p}
    <2>1. i \in 1..(n + 1) /\ grown[i] = history[i]
      BY <1>0, <1>6
    <2>2. i >= n + 1 - bs.confirmed => ~(i < first)
      BY <1>0, <1>11
    <2>3. i < n + 1 - bs.confirmed => i < first
      BY <1>11, Zenon
    <2> HIDE DEF n, p
    <2> QED BY <1>9, <2>1, <2>2, <2>3, Zenon
  <1>13. /\ rec[n + 1].producer = p /\ rec[n + 1].proposed = bs.dpos_proposed
         /\ rec[n + 1].required = RequiredConfs(head.active)
         /\ rec[n + 1].confirmers = {p} /\ rec[n + 1].floor = base
    <2>1. n + 1 \in 1..(n + 1) /\ ~(n + 1 < first)
      BY <1>0, <1>11
    <2>2. grown[n + 1] = entry
      BY <1>6, Zenon
    <2> HIDE DEF n, p
    <2> QED BY <1>7, <1>9, <2>1, <2>2, Zenon
  <1> QED BY <1>2, <1>10, <1>12, <1>13, Zenon DEF base

(* Announcing and promoting schedules leave the counters alone: they are    *)
(* those of set_confirmed.                                                  *)
LEMMA BuiltFields ==
  ASSUME NEW hs, NEW bs, Built(hs, bs), Sound(hs), Sound(bs)
  PROVE  LET s == Settled(hs, bs.timestamp, bs.confirmed)
         IN  /\ bs.block_num = hs.block_num + 1 /\ Sound(s)
             /\ bs.dpos_proposed = s.dpos_proposed /\ bs.dpos_irreversible = s.dpos_irreversible
             /\ bs.confirm_count = s.confirm_count
             /\ bs.active = maybe_promote_pending(s).active
             /\ bs.last_implied_irb = maybe_promote_pending(s).last_implied_irb
  <1> DEFINE s == Settled(hs, bs.timestamp, bs.confirmed)
             b == maybe_promote_pending(s)
  <1>1. bs.timestamp \in Nat /\ bs.confirmed \in Nat
    BY Zenon DEF Sound, IsHeaderState
  <1>2. Sound(s) /\ s.block_num = hs.block_num + 1
    BY <1>1, SettledFields, Zenon
  <1>5. bs = b \/ \E sch : bs = set_new_producers(b, sch)
    BY Zenon DEF Built
  <1> HIDE DEF s
  <1>3. /\ b.block_num = s.block_num /\ b.dpos_proposed = s.dpos_proposed
        /\ b.dpos_irreversible = s.dpos_irreversible /\ b.confirm_count = s.confirm_count
    BY <1>2, PromotedFields, Zenon
  <1>4. IsHeaderState(b)
    BY <1>2, PromoteType, Zenon DEF Sound
  <1> HIDE DEF b
  <1>6. ASSUME NEW sch, bs = set_new_producers(b, sch)
        PROVE  /\ bs.block_num = b.block_num /\ bs.dpos_proposed = b.dpos_proposed
               /\ bs.dpos_irreversible = b.dpos_irreversible /\ bs.confirm_count = b.confirm_count
               /\ bs.active = b.active /\ bs.last_implied_irb = b.last_implied_irb
    <2>1. \A f \in HeaderFields \ {"new_producers", "pending", "pending_lib"} : bs[f] = b[f]
      BY <1>4, <1>6, SetNewProducersFields
    <2> QED BY <2>1, Zenon DEF HeaderFields
  <1>7. /\ bs.block_num = b.block_num /\ bs.dpos_proposed = b.dpos_proposed
        /\ bs.dpos_irreversible = b.dpos_irreversible /\ bs.confirm_count = b.confirm_count
        /\ bs.active = b.active /\ bs.last_implied_irb = b.last_implied_irb
    BY <1>5, <1>6, Zenon
  <1> QED BY <1>2, <1>3, <1>7, Zenon DEF s, b

(* The counters, the confirmers and the watermarks agree. *)
CInv ==
  /\ BInv
  /\ history \in Seq(EntryType)
  /\ \A i \in 1..head.block_num : IsFiniteSet(history[i].confirmers)
  /\ \A i \in 1..head.block_num : \A p \in history[i].confirmers :
       p \in DOMAIN watermark => i <= watermark[p]
  /\ Tally(head, history)
  /\ ProposedHasQuorum

(* At genesis no block is tracked. *)
LEMMA InitCInv == Init => CInv
  <1> SUFFICES ASSUME Init PROVE CInv
    BY Zenon
  <1> DEFINE e == [producer |-> "", required |-> 1, confirmers |-> {}, proposed |-> 0, floor |-> 0]
  <1>1. BInv
    BY InitBInv, Zenon
  <1>2. history = <<e>>
    BY Zenon DEF Init
  <1>3. head.confirm_count = <<>> /\ head.dpos_proposed = 0 /\ head.block_num = 1
    BY Zenon DEF Init, GenesisState
  <1>4. e \in EntryType
    BY Zenon DEF EntryType, BlockProducers
  <1>5. e.confirmers = {}
    BY Zenon
  <1> HIDE DEF e
  <1>6. history \in Seq(EntryType)
    BY <1>2, <1>4
  <1>7. \A i \in 1..head.block_num : history[i].confirmers = {}
    BY <1>2, <1>3, <1>5
  <1>8. Tally(head, history)
    BY <1>3 DEF Tally
  <1>9. ProposedHasQuorum
    BY <1>3 DEF ProposedHasQuorum
  <1> QED BY <1>1, <1>6, <1>7, <1>8, <1>9, FS_EmptySet, Zenon DEF CInv

(* The blocks that the pending block confirms are new to its producer:      *)
(* blocks_to_confirm starts after the watermark, which no block confirmed   *)
(* before exceeds, and confirms nothing when there is no watermark.         *)
LEMMA NewToProducer ==
  ASSUME CInv, NEW p, NEW i \in 1..head.block_num,
         i >= head.block_num + 1 - blocks_to_confirm(p)
  PROVE  p \notin history[i].confirmers
  <1>1. head.block_num \in Nat
    BY Zenon DEF CInv, BInv, IInv, Sound, IsHeaderState
  <1>2. CASE p \in DOMAIN watermark /\ watermark[p] < head.block_num
    <2>1. watermark[p] \in Nat
      BY <1>2 DEF CInv, BInv, IInv, IsNumMap
    <2>2. blocks_to_confirm(p) = (head.block_num - watermark[p]) % 65536
      BY <1>2 DEF blocks_to_confirm
    <2>3. blocks_to_confirm(p) \in Nat /\ blocks_to_confirm(p) <= head.block_num - watermark[p]
      <3>1. \A d \in Nat : d % 65536 \in Nat /\ d % 65536 <= d
        OBVIOUS
      <3>2. head.block_num - watermark[p] \in Nat
        BY <1>1, <1>2, <2>1
      <3> QED BY <2>2, <3>1, <3>2
    <2>4. ~(i <= watermark[p])
      BY <1>1, <2>1, <2>3
    <2> QED BY <1>2, <2>4, Zenon DEF CInv
  <1>3. CASE ~(p \in DOMAIN watermark /\ watermark[p] < head.block_num)
    <2>1. blocks_to_confirm(p) = 0
      BY <1>3 DEF blocks_to_confirm
    <2> QED BY <1>1, <2>1
  <1> QED BY <1>2, <1>3, Zenon

(* commit_block keeps the counters, the confirmers and the watermarks in    *)
(* agreement, and a newly proposed block has its quorum.                    *)
LEMMA CommitTally ==
  ASSUME CInv, CommitBlock
  PROVE  Tally(head, history)' /\ ProposedHasQuorum'
  <1> DEFINE bs    == pending[1].bs
             n     == head.block_num
             num   == bs.confirmed
             p     == bs.producer
             g     == generate_next(head, bs.timestamp)
             s     == set_confirmed(g, num)
             rec   == Recorded(bs)
             fresh == [required |-> RequiredConfs(head.active), confirmers |-> {}]
             grown == [i \in 1..(n + 1) |-> IF i <= n THEN history[i] ELSE fresh]
  <1>1. pending # <<>> /\ head' = bs /\ history' = rec
    BY Zenon DEF CommitBlock
  <1>2. /\ Sound(head) /\ Sound(bs) /\ Built(head, bs) /\ num = blocks_to_confirm(p)
        /\ Len(history) = n /\ history \in Seq(EntryType) /\ Tally(head, history)
    BY <1>1, Zenon DEF CInv, BInv, IInv
  <1>3. num \in Nat /\ n \in Nat \ {0} /\ bs.timestamp \in Nat
    BY <1>2, Zenon DEF Sound, IsHeaderState
  <1> HIDE DEF bs
  <1>4. /\ bs.block_num = n + 1 /\ bs.dpos_proposed = s.dpos_proposed /\ bs.confirm_count = s.confirm_count
    BY <1>2, BuiltFields DEF Settled
  <1>5. Sound(g) /\ g.block_num = n + 1 /\ g.dpos_proposed = head.dpos_proposed
    <2>1. Sound(g)
      BY <1>2, <1>3, GenerateNextType, Zenon DEF Sound
    <2>2. IsHeaderState(head)
      BY <1>2, Zenon DEF Sound
    <2> QED BY <2>1, <2>2, GenerateNextFields, Zenon
  <1>6. /\ \A i \in 1..n :
             /\ rec[i].required = history[i].required
             /\ i < n + 1 - num => rec[i].confirmers = history[i].confirmers
             /\ i >= n + 1 - num => rec[i].confirmers = history[i].confirmers \cup {p}
        /\ rec[n + 1].required = RequiredConfs(head.active) /\ rec[n + 1].confirmers = {p}
    BY <1>2, <1>4, RecordedFields
  <1>7. /\ \A i \in 1..n : grown[i] = history[i]
        /\ grown[n + 1].required = RequiredConfs(head.active) /\ grown[n + 1].confirmers = {}
    BY <1>3
  <1> HIDE DEF grown, rec, g
  <1>8. Tally(g, grown)
    BY <1>2, <1>3, <1>7, GrownTally DEF g
  <1>9. \A i \in 1..(n + 1) : IsFiniteSet(grown[i].confirmers) /\ grown[i].required \in Nat
    <2>1. ASSUME NEW i \in 1..n PROVE IsFiniteSet(grown[i].confirmers) /\ grown[i].required \in Nat
      <3>1. history[i] \in EntryType
        BY <1>2
      <3>2. history[i].required \in Nat
        BY <3>1, Zenon DEF EntryType
      <3>3. IsFiniteSet(history[i].confirmers)
        BY Zenon DEF CInv
      <3> QED BY <1>7, <3>2, <3>3, Zenon
    <2>2. IsFiniteSet(grown[n + 1].confirmers) /\ grown[n + 1].required \in Nat
      <3>1. RequiredConfs(head.active) \in Nat
        BY <1>2, RequiredPositive, Zenon DEF Sound
      <3> QED BY <1>7, <3>1, FS_EmptySet, Zenon
    <2> HIDE DEF n
    <2> QED BY <1>3, <2>1, <2>2
  <1>10. \A i \in 1..(n + 1) : i >= n + 1 - num => p \notin grown[i].confirmers
    <2>1. ASSUME NEW i \in 1..n, i >= n + 1 - num PROVE p \notin grown[i].confirmers
      BY <1>2, <1>7, <2>1, NewToProducer, Zenon
    <2>2. p \notin grown[n + 1].confirmers
      BY <1>7, Zenon
    <2> HIDE DEF n, p, num
    <2> QED BY <1>3, <2>1, <2>2
  <1>11. \A i \in 1..(n + 1) :
           /\ rec[i].required = grown[i].required
           /\ i < n + 1 - num => rec[i].confirmers = grown[i].confirmers
           /\ i >= n + 1 - num => rec[i].confirmers = grown[i].confirmers \cup {p}
    <2>1. ~(n + 1 < n + 1 - num)
      BY <1>3
    <2> HIDE DEF n, p, num
    <2> QED BY <1>3, <1>6, <1>7, <2>1
  <1>12. /\ Tally(s, rec)
         /\ \/ s.dpos_proposed = g.dpos_proposed
            \/ /\ s.dpos_proposed \in 1..(n + 1)
               /\ Cardinality(rec[s.dpos_proposed].confirmers) >= rec[s.dpos_proposed].required
    <2> HIDE DEF n, p, num
    <2>1. Sound(g)
      BY <1>5, Zenon
    <2>2. \A i \in 1..g.block_num : IsFiniteSet(grown[i].confirmers) /\ grown[i].required \in Nat
      BY <1>5, <1>9, Zenon
    <2>3. \A i \in 1..g.block_num : i >= g.block_num - num => p \notin grown[i].confirmers
      BY <1>3, <1>5, <1>10
    <2>4. \A i \in 1..g.block_num :
            /\ rec[i].required = grown[i].required
            /\ i < g.block_num - num => rec[i].confirmers = grown[i].confirmers
            /\ i >= g.block_num - num => rec[i].confirmers = grown[i].confirmers \cup {p}
      BY <1>3, <1>5, <1>11
    <2>5. /\ Tally(s, rec)
          /\ \/ s.dpos_proposed = g.dpos_proposed
             \/ /\ s.dpos_proposed \in 1..g.block_num
                /\ Cardinality(rec[s.dpos_proposed].confirmers) >= rec[s.dpos_proposed].required
      BY <1>3, <1>8, <2>1, <2>2, <2>3, <2>4, SettledTally, Zenon
    <2> QED BY <1>5, <2>5, Zenon
  <1> HIDE DEF s
  <1>13. s.block_num = n + 1
    <2>1. \A f \in HeaderFields \ {"confirmed", "confirm_count", "dpos_proposed"} : s[f] = g[f]
      BY <1>5, SetConfirmedFields DEF Sound, s
    <2> QED BY <1>5, <2>1, Zenon DEF HeaderFields
  <1>14. Tally(bs, rec)
    BY <1>4, <1>12, <1>13, Zenon DEF Tally, BlockNumFor
  <1>15. head.dpos_proposed > 0
           => Cardinality(rec[head.dpos_proposed].confirmers) >= rec[head.dpos_proposed].required
    <2> DEFINE d == head.dpos_proposed
               C == history[d].confirmers
    <2> SUFFICES ASSUME d > 0 PROVE Cardinality(rec[d].confirmers) >= rec[d].required
      BY Zenon
    <2>1. d \in 1..n
      BY <1>2, <1>3 DEF Sound, IsHeaderState, BehindProposed
    <2>2. Cardinality(C) >= history[d].required
      BY Zenon DEF CInv, ProposedHasQuorum
    <2>3. IsFiniteSet(C) /\ Cardinality(C) \in Nat
      BY <2>1, FS_CardinalityType, Zenon DEF CInv
    <2>4. history[d].required \in Nat
      <3>1. history[d] \in EntryType
        BY <1>2, <2>1
      <3> QED BY <3>1, Zenon DEF EntryType
    <2>5. rec[d].required = history[d].required /\ (rec[d].confirmers = C \/ rec[d].confirmers = C \cup {p})
      <3> HIDE DEF p, num
      <3> QED BY <1>3, <1>6, <2>1
    <2>6. Cardinality(C \cup {p}) >= Cardinality(C) /\ Cardinality(C \cup {p}) \in Nat
      BY <2>3, NoFewer, Zenon
    <2> HIDE DEF d, C, p
    <2>7. CASE rec[d].confirmers = C
      BY <2>2, <2>5, <2>7, Zenon
    <2>8. CASE rec[d].confirmers = C \cup {p}
      <3>1. Cardinality(C \cup {p}) >= history[d].required
        <4> DEFINE before == Cardinality(C)
                   after  == Cardinality(C \cup {p})
                   needed == history[d].required
        <4>1. before \in Nat /\ after \in Nat /\ needed \in Nat /\ after >= before /\ before >= needed
          BY <2>2, <2>3, <2>4, <2>6, Zenon
        <4> HIDE DEF before, after, needed
        <4>2. after >= needed
          BY <4>1
        <4> QED BY <4>2, Zenon DEF after, needed
      <3> QED BY <2>5, <2>8, <3>1, Zenon
    <2> QED BY <2>5, <2>7, <2>8, Zenon
  <1>16. bs.dpos_proposed > 0
           => Cardinality(rec[bs.dpos_proposed].confirmers) >= rec[bs.dpos_proposed].required
    BY <1>4, <1>5, <1>12, <1>15, Zenon
  <1> QED BY <1>1, <1>14, <1>16, Zenon DEF ProposedHasQuorum, Tally, BlockNumFor

(* commit_block sets the watermark of the block's producer, and on_block    *)
(* that of newly active producers, to the new block: no watermark falls     *)
(* below a block its producer has confirmed.                                *)
LEMMA CommitWatermarks ==
  ASSUME CInv, CommitBlock
  PROVE  /\ (history \in Seq(EntryType))'
         /\ \A i \in 1..head'.block_num : IsFiniteSet(history'[i].confirmers)
         /\ \A i \in 1..head'.block_num : \A p \in history'[i].confirmers :
              p \in DOMAIN watermark' => i <= watermark'[p]
  <1> DEFINE bs     == pending[1].bs
             n      == head.block_num
             rec    == Recorded(bs)
             marked == NewlyActive(bs)
  <1>1. /\ pending # <<>> /\ head' = bs /\ history' = rec
        /\ watermark' = [p \in DOMAIN watermark \cup marked \cup {bs.producer} |->
                           IF p \in marked \cup {bs.producer} THEN bs.block_num ELSE watermark[p]]
    BY Zenon DEF CommitBlock
  <1>2. /\ Sound(head) /\ Sound(bs) /\ Built(head, bs)
        /\ Len(history) = n /\ history \in Seq(EntryType)
    BY <1>1, Zenon DEF CInv, BInv, IInv
  <1>3. n \in Nat \ {0}
    BY <1>2, Zenon DEF Sound, IsHeaderState
  <1> HIDE DEF bs, marked
  <1>4. bs.block_num = n + 1
    BY <1>2, BuiltFields, Zenon
  <1>5. /\ rec \in Seq(EntryType)
        /\ \A i \in 1..n : \/ rec[i].confirmers = history[i].confirmers
                           \/ rec[i].confirmers = history[i].confirmers \cup {bs.producer}
        /\ rec[n + 1].confirmers = {bs.producer}
    <2>1. bs.confirmed \in Nat
      BY <1>2, Zenon DEF Sound, IsHeaderState
    <2>2. /\ rec \in Seq(EntryType)
          /\ \A i \in 1..n :
               /\ i < n + 1 - bs.confirmed => rec[i].confirmers = history[i].confirmers
               /\ i >= n + 1 - bs.confirmed
                    => rec[i].confirmers = history[i].confirmers \cup {bs.producer}
          /\ rec[n + 1].confirmers = {bs.producer}
      BY <1>2, <1>4, RecordedFields, Zenon
    <2> HIDE DEF rec, n
    <2> QED BY <1>3, <2>1, <2>2
  <1> HIDE DEF rec
  <1>6. ASSUME NEW i \in 1..(n + 1) PROVE IsFiniteSet(rec[i].confirmers)
    <2>1. CASE i \in 1..n
      <3>1. IsFiniteSet(history[i].confirmers)
        BY <2>1, Zenon DEF CInv
      <3>2. IsFiniteSet(history[i].confirmers \cup {bs.producer})
        BY <3>1, FS_AddElement, Zenon
      <3> QED BY <1>5, <2>1, <3>1, <3>2, Zenon
    <2>2. CASE i = n + 1
      BY <1>5, <2>2, FS_Singleton, Zenon
    <2> QED BY <1>3, <2>1, <2>2
  <1>7. ASSUME NEW i \in 1..(n + 1), NEW p \in rec[i].confirmers, p \in DOMAIN watermark'
        PROVE  i <= watermark'[p]
    <2>1. CASE p \in marked \cup {bs.producer}
      <3>1. watermark'[p] = bs.block_num
        BY <1>1, <2>1, Zenon
      <3> QED BY <1>3, <1>4, <3>1
    <2>2. CASE p \notin marked \cup {bs.producer}
      <3>1. p \in DOMAIN watermark /\ watermark'[p] = watermark[p]
        BY <1>1, <1>7, <2>2, Zenon
      <3>2. p # bs.producer
        BY <2>2, Zenon
      <3>3. i \in 1..n /\ p \in history[i].confirmers
        <4>1. i # n + 1
          BY <1>5, <1>7, <3>2, Zenon
        <4>2. i \in 1..n
          BY <1>3, <4>1
        <4> QED BY <1>5, <1>7, <3>2, <4>2, Zenon
      <3> QED BY <3>1, <3>3, Zenon DEF CInv
    <2> QED BY <2>1, <2>2, Zenon
  <1> QED BY <1>1, <1>4, <1>5, <1>6, <1>7, Zenon

(* Every action keeps the agreement.                                        *)
LEMMA NextCInv == CInv /\ [Next]_vars => CInv'
  <1> SUFFICES ASSUME CInv, [Next]_vars PROVE CInv'
    BY Zenon
  <1>0. BInv'
    BY NextBInv, Zenon DEF CInv
  <1>1. CASE CommitBlock
    BY <1>0, <1>1, CommitTally, CommitWatermarks, Zenon DEF CInv
  <1>2. ASSUME NEW q \in DOMAIN watermark, Restart(q) PROVE CInv'
    <2>1. UNCHANGED <<head, history>> /\ watermark' = [r \in DOMAIN watermark \ {q} |-> watermark[r]]
      BY <1>2, Zenon DEF Restart
    <2>2. \A r \in DOMAIN watermark' : r \in DOMAIN watermark /\ watermark'[r] = watermark[r]
      BY <2>1, Zenon
    <2>3. \A i \in 1..head.block_num : \A p \in history[i].confirmers :
            p \in DOMAIN watermark' => i <= watermark'[p]
      BY <2>2, Zenon DEF CInv
    <2>4. Tally(head, history)' /\ ProposedHasQuorum'
      BY <2>1, Zenon DEF CInv, Tally, ProposedHasQuorum
    <2> QED BY <1>0, <2>1, <2>3, <2>4, Zenon DEF CInv
  <1>3. CASE UNCHANGED <<head, history, watermark>>
    <2>1. Tally(head, history)' /\ ProposedHasQuorum'
      BY <1>3, Zenon DEF CInv, Tally, ProposedHasQuorum
    <2> QED BY <1>0, <1>3, <2>1, Zenon DEF CInv
  <1>4. \/ CommitBlock \/ (\E q \in DOMAIN watermark : Restart(q))
        \/ UNCHANGED <<head, history, watermark>>
    BY Zenon DEF Next, StartBlock, SetProposedProducers, CommitRejected, AbortBlock, vars
  <1> QED BY <1>1, <1>2, <1>3, <1>4, Zenon

(* The invariant holds throughout. *)
LEMMA TallyInvariance == Spec => []CInv
  BY InitCInv, NextCInv, PTL DEF Spec

(* A proposed irreversible block has been confirmed by more than two thirds *)
(* of the schedule that signed it, each producer counted once, although     *)
(* set_confirmed only counts: blocks_to_confirm starts above the producer's *)
(* watermark and a restarted node confirms nothing but its own block.       *)
THEOREM ProposedBacked == Spec => []ProposedHasQuorum
  <1>1. CInv => ProposedHasQuorum
    BY Zenon DEF CInv
  <1> QED BY <1>1, TallyInvariance, PTL

-----------------------------------------------------------------------------
(* The second phase: irreversible blocks. *)

(* More than two thirds implied the irreversible number or more.            *)
LEMMA CalcQuorum ==
  ASSUME NEW f, NEW B \in Nat, IsFiniteSet(DOMAIN f), f \in [DOMAIN f -> 0..B], DOMAIN f # {}
  PROVE  LET m == Cardinality(DOMAIN f)
         IN  Cardinality({p \in DOMAIN f : f[p] >= calc_dpos_last_irreversible(f)})
               >= m - (m - 1) \div 3
  <1> DEFINE D == DOMAIN f
             v == calc_dpos_last_irreversible(f)
             Below == {p \in D : f[p] < v}
             Above == {p \in D : f[p] >= v}
  <1>1. v \in 0..B
    BY CalcInRange, Zenon
  <1>2. Cardinality(Below) <= LibIndex(Cardinality(D))
    BY CalcRank, Zenon
  <1> HIDE DEF v
  <1>3. Above = D \ Below /\ D \cap Below = Below
    BY <1>1
  <1>4. Cardinality(Above) = Cardinality(D) - Cardinality(Below)
    <2> HIDE DEF Above, Below, D
    <2>1. IsFiniteSet(D)
      BY Zenon DEF D
    <2>2. Cardinality(D \ Below) = Cardinality(D) - Cardinality(D \cap Below)
      BY <2>1, FS_Difference, Zenon
    <2> QED BY <1>3, <2>2, Zenon
  <1>5. Cardinality(D) \in Nat /\ Cardinality(Below) \in Nat
    BY FS_Subset, FS_CardinalityType, Zenon
  <1> HIDE DEF Above, Below, D
  <1>6. Cardinality(Above) >= Cardinality(D) - (Cardinality(D) - 1) \div 3
    <2>1. LibIndex(Cardinality(D)) = (Cardinality(D) - 1) \div 3
      BY Zenon DEF LibIndex
    <2>2. (Cardinality(D) - 1) \div 3 \in Int
      BY <1>5
    <2> QED BY <1>2, <1>4, <1>5, <2>1, <2>2
  <1> QED BY <1>6, Zenon DEF Above, D, v

(* No producer is listed twice. *)
Distinct(sch) == \A i, j \in DOMAIN sch.producers : sch.producers[i] = sch.producers[j] => i = j

(* A schedule without repetition has as many producers as entries.          *)
LEMMA ScheduleSize ==
  ASSUME NEW sch \in ScheduleType, Distinct(sch)
  PROVE  Cardinality(ProducersOf(sch)) = Len(sch.producers)
  <1> DEFINE prods == sch.producers
             n == Len(prods)
             P == ProducersOf(sch)
  <1>1. prods \in Seq(Accounts)
    BY Zenon DEF ScheduleType
  <1>2. n \in Nat /\ DOMAIN prods = 1..n
    BY <1>1
  <1>3. P = {prods[i] : i \in 1..n}
    BY <1>2, Zenon DEF ProducersOf
  <1>4. \A i, j \in 1..n : prods[i] = prods[j] => i = j
    BY <1>2, Zenon DEF Distinct
  <1>5. prods \in [1..n -> P]
    <2> HIDE DEF prods, P
    <2> QED BY <1>1, <1>2, <1>3
  <1>6. prods \in Bijection(1..n, P)
    <2>1. prods \in Injection(1..n, P)
      <3> HIDE DEF prods, P, n
      <3> QED BY <1>4, <1>5, Zenon DEF Injection, IsInjective
    <2>2. prods \in Surjection(1..n, P)
      <3>1. \A t \in P : \E i \in 1..n : prods[i] = t
        BY <1>3, Zenon
      <3> HIDE DEF prods, P, n
      <3> QED BY <1>5, <3>1, Zenon DEF Surjection
    <2> HIDE DEF prods, P, n
    <2> QED BY <2>1, <2>2, Zenon DEF Bijection
  <1>7. ExistsBijection(1..n, P)
    BY <1>6, Zenon DEF ExistsBijection
  <1> QED BY <1>2, <1>7, FS_CountingElements, Zenon

(* Every slot belongs to a producer of the active schedule.                 *)
LEMMA ScheduledIsActive ==
  ASSUME NEW hs, IsHeaderState(hs), NEW when \in Nat
  PROVE  get_scheduled_producer(hs, when) \in ProducersOf(hs.active)
  <1> DEFINE prods == hs.active.producers
             i == (when % (Len(prods) * ProducerRepetitions)) \div ProducerRepetitions + 1
  <1>1. prods \in Seq(Accounts) /\ Len(prods) \in Nat \ {0}
    BY ActiveSchedule, Zenon
  <1>2. i \in 1..Len(prods)
    BY <1>1, SlotInSchedule, Zenon
  <1>3. i \in DOMAIN prods
    <2> HIDE DEF prods, i
    <2> QED BY <1>1, <1>2
  <1>4. get_scheduled_producer(hs, when) = prods[i]
    BY Zenon DEF get_scheduled_producer
  <1> HIDE DEF i
  <1> QED BY <1>3, <1>4, Zenon DEF ProducersOf

(* What producers implied, after the new block: its producer has seen what  *)
(* was proposed before the block, and the irreversible number is computed   *)
(* from that.                                                               *)
LEMMA SettledImplied ==
  ASSUME NEW hs, Sound(hs), NEW when \in Nat, NEW num \in Nat
  PROVE  LET s == Settled(hs, when, num)
             f == Put(hs.last_implied_irb, get_scheduled_producer(hs, when), hs.dpos_proposed)
         IN  /\ s.last_implied_irb = f /\ s.dpos_irreversible = calc_dpos_last_irreversible(f)
             /\ s.pending_lib = hs.pending_lib
             /\ DOMAIN f = DOMAIN hs.last_implied_irb \cup {get_scheduled_producer(hs, when)}
             /\ IsFiniteSet(DOMAIN f) /\ f \in [DOMAIN f -> 0..hs.dpos_proposed]
  <1> DEFINE g == generate_next(hs, when)
             s == Settled(hs, when, num)
             p == get_scheduled_producer(hs, when)
             old == hs.last_implied_irb
             f == Put(old, p, hs.dpos_proposed)
  <1>0. IsHeaderState(hs) /\ hs.dpos_proposed \in Nat
    BY Zenon DEF Sound, IsHeaderState
  <1>1. /\ g.last_implied_irb = f /\ g.dpos_irreversible = calc_dpos_last_irreversible(f)
        /\ g.pending_lib = hs.pending_lib
    BY <1>0, GenerateNextFields, Zenon
  <1>2. IsHeaderState(g)
    BY GenerateNextType, Zenon DEF Sound
  <1> HIDE DEF f, g
  <1>3. \A x \in HeaderFields \ {"confirmed", "confirm_count", "dpos_proposed"} : s[x] = g[x]
    BY <1>2, SetConfirmedFields DEF Settled, g
  <1> HIDE DEF s
  <1>4. /\ s.last_implied_irb = f /\ s.dpos_irreversible = calc_dpos_last_irreversible(f)
        /\ s.pending_lib = hs.pending_lib
    BY <1>1, <1>3, Zenon DEF HeaderFields
  <1>5. /\ IsFiniteSet(DOMAIN old) /\ old \in [DOMAIN old -> Nat]
        /\ \A q \in DOMAIN old : old[q] <= hs.dpos_proposed
    BY Zenon DEF Sound, IsHeaderState, IsNumMap, BehindProposed
  <1> HIDE DEF old, p
  <1>6. DOMAIN f = DOMAIN old \cup {p}
    BY Zenon DEF f, Put
  <1>7. IsFiniteSet(DOMAIN f)
    BY <1>5, <1>6, FS_AddElement, Zenon
  <1>8. f \in [DOMAIN f -> 0..hs.dpos_proposed]
    BY <1>0, <1>5 DEF f, Put
  <1> QED BY <1>4, <1>6, <1>7, <1>8, Zenon DEF f, s, p, old

(* A header state whose schedules list no producer twice. *)
DistinctIn(hs) == Distinct(hs.active) /\ Distinct(hs.pending)

(* No schedule of the chain lists a producer twice: the lists come from     *)
(* set_proposed_producers, which refuses repetitions.                       *)
DInv ==
  /\ BInv
  /\ DistinctIn(head) /\ Distinct(gpo.schedule)
  /\ pending # <<>> => DistinctIn(pending[1].bs) /\ Distinct(pending[1].gpo.schedule)

(* A new block takes its schedules from its parent and the proposal.        *)
LEMMA BuiltDistinct ==
  ASSUME NEW hs, Sound(hs), DistinctIn(hs), NEW when \in Nat, NEW num \in Nat
  PROVE  DistinctIn(maybe_promote_pending(Settled(hs, when, num)))
  <1> DEFINE s == Settled(hs, when, num)
             b == maybe_promote_pending(s)
  <1>1. Sound(s) /\ s.active = hs.active /\ s.pending = hs.pending
    BY SettledSchedules, Zenon
  <1> HIDE DEF s
  <1>2. DistinctIn(s)
    BY <1>1, Zenon DEF DistinctIn
  <1>3. CASE ~PendingPromotable(s)
    BY <1>2, <1>3, Zenon DEF maybe_promote_pending, s
  <1>4. CASE PendingPromotable(s)
    <2>1. b.active = s.pending /\ b.pending = [s.pending EXCEPT !.producers = <<>>]
      BY <1>1, <1>4, PromoteFields, Zenon DEF Sound
    <2>2. s.pending \in ScheduleType
      BY <1>1, Zenon DEF Sound, IsHeaderState
    <2>3. b.pending.producers = <<>>
      BY <2>1, <2>2, Zenon DEF ScheduleType
    <2> HIDE DEF b
    <2>4. Distinct(b.pending)
      BY <2>3 DEF Distinct
    <2> QED BY <1>2, <2>1, <2>4, Zenon DEF DistinctIn, b, s
  <1> QED BY <1>3, <1>4, Zenon

(* It holds at genesis. *)
LEMMA InitDInv == Init => DInv
  <1> SUFFICES ASSUME Init PROVE DInv
    BY Zenon
  <1>1. BInv
    BY InitBInv, Zenon
  <1>2. head.active = InitialSchedule /\ head.pending = InitialSchedule /\ gpo.schedule.producers = <<>>
        /\ pending = <<>>
    BY Zenon DEF Init, GenesisState, NoProposal
  <1>3. Distinct(InitialSchedule)
    <2>1. InitialSchedule.producers = <<SystemAccount>>
      BY Zenon DEF InitialSchedule
    <2>2. DOMAIN <<SystemAccount>> = 1..1
      OBVIOUS
    <2> QED BY <2>1, <2>2 DEF Distinct
  <1>4. Distinct(gpo.schedule)
    BY <1>2 DEF Distinct
  <1> QED BY <1>1, <1>2, <1>3, <1>4, Zenon DEF DInv, DistinctIn

(* Every action keeps the schedules free of repetitions.                    *)
LEMMA NextDInv == DInv /\ [Next]_vars => DInv'
  <1> SUFFICES ASSUME DInv, [Next]_vars PROVE DInv'
    BY Zenon
  <1>0. BInv /\ BInv' /\ DistinctIn(head) /\ Distinct(gpo.schedule)
        /\ (pending # <<>> => DistinctIn(pending[1].bs) /\ Distinct(pending[1].gpo.schedule))
    BY NextBInv, Zenon DEF DInv
  <1>1. ASSUME NEW when \in NextSlots, StartBlock(when) PROVE DInv'
    <2> DEFINE num == blocks_to_confirm(get_scheduled_producer(head, when))
               b   == maybe_promote_pending(Confirmed(when))
               n   == set_new_producers(b, gpo.schedule)
    <2>1. Sound(head) /\ when \in Nat /\ num \in Nat
      <3>1. Sound(head)
        BY <1>0, Zenon DEF BInv, IInv
      <3>2. head.timestamp \in Nat
        BY <3>1, SoundFields, Zenon
      <3>3. when \in Nat
        BY <3>2, BoundsAssumption DEF NextSlots
      <3>4. num \in Nat
        BY <1>0, ConfirmNumber, IInvParts, Zenon DEF BInv
      <3> QED BY <3>1, <3>3, <3>4, Zenon
    <2>2. Sound(b) /\ DistinctIn(b)
      <3>1. Confirmed(when) = Settled(head, when, num)
        BY Zenon DEF Confirmed, Settled
      <3> HIDE DEF num
      <3>2. Sound(b)
        BY <2>1, <3>1, PreparedSound, Zenon DEF Settled
      <3> QED BY <1>0, <2>1, <3>1, <3>2, BuiltDistinct, Zenon
    <2>3. /\ UNCHANGED <<head, gpo>>
          /\ \/ pending' = <<[bs |-> n, gpo |-> NoProposal]>>
             \/ pending' = <<[bs |-> b, gpo |-> gpo]>>
      BY <1>1, Zenon DEF StartBlock
    <2> HIDE DEF b
    <2>4. n.pending = gpo.schedule /\ n.active = b.active
      <3>1. /\ n.pending = gpo.schedule
            /\ \A f \in HeaderFields \ {"new_producers", "pending", "pending_lib"} : n[f] = b[f]
        BY <2>2, SetNewProducersFields DEF Sound
      <3> HIDE DEF n
      <3> QED BY <3>1, Zenon DEF HeaderFields
    <2> HIDE DEF n
    <2>5. DistinctIn(n)
      BY <1>0, <2>2, <2>4, Zenon DEF DistinctIn
    <2>6. Distinct(NoProposal.schedule)
      BY DEF Distinct, NoProposal
    <2>7. pending' # <<>> /\ DistinctIn(pending'[1].bs) /\ Distinct(pending'[1].gpo.schedule)
      BY <1>0, <2>2, <2>3, <2>5, <2>6
    <2> QED BY <1>0, <2>3, <2>7, Zenon DEF DInv
  <1>2. ASSUME NEW producers \in Schedules, SetProposedProducers(producers) PROVE DInv'
    <2> DEFINE p   == pending[1]
               sch == [version |-> ReferenceSchedule(p.bs).version + 1, producers |-> producers]
               new == [num |-> head.block_num + 1, schedule |-> sch]
               q   == [p EXCEPT !.gpo = new]
    <2>1. pending # <<>> /\ pending' = <<q>> /\ UNCHANGED <<head, gpo>>
      BY <1>2, Zenon DEF SetProposedProducers
    <2>2. Distinct(new.schedule)
      <3>1. new.schedule.producers = producers
        BY Zenon
      <3> HIDE DEF new
      <3> QED BY <3>1, SchedulesAssumption, Zenon DEF Distinct
    <2>3. q.bs = p.bs /\ (q.gpo = new \/ q.gpo = p.gpo)
      <3> HIDE DEF new
      <3> QED OBVIOUS
    <2> HIDE DEF q, new
    <2>4. DistinctIn(q.bs) /\ Distinct(q.gpo.schedule)
      BY <1>0, <2>1, <2>2, <2>3, Zenon
    <2> QED BY <1>0, <2>1, <2>4, Zenon DEF DInv
  <1>3. CASE CommitBlock
    <2>1. pending # <<>> /\ head' = pending[1].bs /\ gpo' = pending[1].gpo /\ pending' = <<>>
      BY <1>3, Zenon DEF CommitBlock
    <2> QED BY <1>0, <2>1, Zenon DEF DInv
  <1>4. CASE UNCHANGED <<head, gpo>> /\ (pending' = <<>> \/ pending' = pending)
    BY <1>0, <1>4, Zenon DEF DInv
  <1>5. \/ \E when \in NextSlots : StartBlock(when)
        \/ \E producers \in Schedules : SetProposedProducers(producers)
        \/ CommitBlock
        \/ UNCHANGED <<head, gpo>> /\ (pending' = <<>> \/ pending' = pending)
    BY Zenon DEF Next, CommitRejected, AbortBlock, Restart, vars
  <1> QED BY <1>1, <1>2, <1>3, <1>4, <1>5, Zenon

(* Whoever implied more than floor did so in a block of its own, built on a *)
(* block at which that much was proposed.                                   *)
Seen(f, hist, n, floor) ==
  \A p \in DOMAIN f :
    f[p] > floor => \E i \in 2..n : hist[i].producer = p /\ hist[i - 1].proposed >= f[p]

(* The implied numbers are backed by blocks of the chain.  The floor is the *)
(* number that producers new to the schedule started from.                  *)
LInv ==
  /\ CInv /\ DInv
  /\ history[head.block_num].proposed = head.dpos_proposed
  /\ history[head.block_num].floor <= head.dpos_irreversible
  /\ Seen(head.last_implied_irb, history, head.block_num, history[head.block_num].floor)
  /\ head.block_num > 1 => DOMAIN head.last_implied_irb = ProducersOf(head.active)
  /\ head.block_num = 1 => /\ DOMAIN head.last_implied_irb = {} /\ head.dpos_proposed = 0
                           /\ head.pending.producers # <<>> /\ head.pending_lib = 0
  /\ IrreversibleHasQuorum

(* At genesis nobody has implied anything, and the initial schedule is      *)
(* pending as well as active.                                               *)
LEMMA InitLInv == Init => LInv
  <1> SUFFICES ASSUME Init PROVE LInv
    BY Zenon
  <1>1. CInv /\ DInv
    BY InitCInv, InitDInv, Zenon
  <1>2. /\ head.block_num = 1 /\ head.dpos_proposed = 0 /\ head.dpos_irreversible = 0
        /\ DOMAIN head.last_implied_irb = {} /\ head.pending_lib = 0
        /\ head.pending.producers = <<SystemAccount>>
    BY Zenon DEF Init, GenesisState, InitialSchedule
  <1>3. history[1].proposed = 0 /\ history[1].floor = 0
    BY Zenon DEF Init
  <1>4. Seen(head.last_implied_irb, history, head.block_num, history[head.block_num].floor)
    BY <1>2, Zenon DEF Seen
  <1>5. <<SystemAccount>> # <<>>
    BY Zenon
  <1>6. IrreversibleHasQuorum
    BY <1>2, <1>3 DEF IrreversibleHasQuorum
  <1> QED BY <1>1, <1>2, <1>3, <1>4, <1>5, <1>6 DEF LInv

(* What a commit makes of the implied numbers, before promotion: they are   *)
(* still backed, by the same blocks or by the new one.                      *)
LEMMA CommitSeen ==
  ASSUME LInv, CommitBlock
  PROVE  LET bs == pending[1].bs
             n  == head.block_num
             s  == Settled(head, bs.timestamp, bs.confirmed)
             f  == s.last_implied_irb
         IN  /\ Seen(f, Recorded(bs), n + 1, history[n].floor)
             /\ n > 1 => DOMAIN f = ProducersOf(head.active)
             /\ n = 1 => s.dpos_irreversible = 0 /\ PendingPromotable(s)
             /\ DOMAIN f # {} /\ IsFiniteSet(DOMAIN f) /\ f \in [DOMAIN f -> 0..head.dpos_proposed]
             /\ s.dpos_irreversible = calc_dpos_last_irreversible(f)
             /\ s.active = head.active /\ s.pending = head.pending /\ Sound(s)
  <1> DEFINE bs  == pending[1].bs
             n   == head.block_num
             p   == get_scheduled_producer(head, bs.timestamp)
             s   == Settled(head, bs.timestamp, bs.confirmed)
             old == head.last_implied_irb
             f   == Put(old, p, head.dpos_proposed)
             rec == Recorded(bs)
  <1>1. pending # <<>>
    BY Zenon DEF CommitBlock
  <1>2. /\ Sound(head) /\ Sound(bs) /\ Built(head, bs)
        /\ Len(history) = n /\ history \in Seq(EntryType)
    BY <1>1, Zenon DEF LInv, CInv, BInv, IInv
  <1> HIDE DEF bs
  <1>3. /\ n \in Nat \ {0} /\ bs.timestamp \in Nat /\ bs.confirmed \in Nat
        /\ head.dpos_proposed \in Nat /\ IsHeaderState(head)
    BY <1>2, Zenon DEF Sound, IsHeaderState
  <1>4. bs.block_num = n + 1 /\ bs.producer = p
    BY <1>2, BuiltFields, Zenon DEF Built
  <1>5. /\ Sound(s) /\ s.active = head.active /\ s.pending = head.pending
    BY <1>2, <1>3, SettledSchedules, Zenon
  <1>6. /\ s.last_implied_irb = f /\ s.dpos_irreversible = calc_dpos_last_irreversible(f)
        /\ s.pending_lib = head.pending_lib
        /\ DOMAIN f = DOMAIN old \cup {p}
        /\ IsFiniteSet(DOMAIN f) /\ f \in [DOMAIN f -> 0..head.dpos_proposed]
    BY <1>2, <1>3, SettledImplied, Zenon
  <1>7. p \in ProducersOf(head.active)
    BY <1>3, ScheduledIsActive, Zenon
  <1>8. \A q \in DOMAIN f : f[q] = IF q = p THEN head.dpos_proposed ELSE old[q]
    BY Zenon DEF Put
  <1> HIDE DEF s, f, p
  <1>9. /\ \A i \in 1..n : rec[i].producer = history[i].producer /\ rec[i].proposed = history[i].proposed
        /\ rec[n + 1].producer = p
    <2>1. rec[n + 1].producer = bs.producer
      BY <1>2, <1>4, RecordedFields, Zenon
    <2>2. \A i \in 1..n : rec[i].producer = history[i].producer /\ rec[i].proposed = history[i].proposed
      BY <1>2, <1>4, RecordedFields
    <2> QED BY <1>4, <2>1, <2>2, Zenon
  <1> HIDE DEF rec
  <1>10. Seen(f, rec, n + 1, history[n].floor)
    <2> SUFFICES ASSUME NEW q \in DOMAIN f, f[q] > history[n].floor
                 PROVE  \E i \in 2..(n + 1) : rec[i].producer = q /\ rec[i - 1].proposed >= f[q]
      BY Zenon DEF Seen
    <2>1. CASE q = p
      <3>1. rec[n].proposed = head.dpos_proposed
        BY <1>3, <1>9 DEF LInv
      <3> DEFINE k == n + 1
      <3>2. k \in 2..(n + 1) /\ k - 1 = n
        BY <1>3
      <3>3. f[q] = head.dpos_proposed
        BY <1>8, <2>1, Zenon
      <3>4. rec[n].proposed >= f[q]
        BY <1>3, <3>1, <3>3
      <3>5. rec[k].producer = q /\ rec[k - 1].proposed >= f[q]
        BY <1>9, <2>1, <3>2, <3>4, Zenon
      <3> HIDE DEF k
      <3> QED BY <3>2, <3>5, Zenon
    <2>2. CASE q # p
      <3>1. q \in DOMAIN old /\ f[q] = old[q]
        BY <1>6, <1>8, <2>2, Zenon
      <3>2. PICK i \in 2..n : history[i].producer = q /\ history[i - 1].proposed >= old[q]
        BY <3>1, Zenon DEF LInv, Seen
      <3>3. i \in 1..n /\ i - 1 \in 1..n /\ i \in 2..(n + 1)
        BY <1>3
      <3>4. rec[i].producer = q /\ rec[i - 1].proposed >= f[q]
        BY <1>9, <3>1, <3>2, <3>3, Zenon
      <3> QED BY <3>3, <3>4, Zenon
    <2> QED BY <2>1, <2>2, Zenon
  <1>11. n > 1 => DOMAIN f = ProducersOf(head.active)
    BY <1>6, <1>7, Zenon DEF LInv
  <1>12. ASSUME n = 1 PROVE s.dpos_irreversible = 0 /\ PendingPromotable(s)
    <2>1. head.dpos_proposed = 0 /\ head.pending.producers # <<>> /\ head.pending_lib = 0
      BY <1>12, Zenon DEF LInv
    <2>2. s.dpos_irreversible \in 0..head.dpos_proposed
      BY <1>3, <1>6, CalcInRange
    <2>3. s.dpos_irreversible = 0
      BY <2>1, <2>2
    <2> QED BY <1>5, <1>6, <2>1, <2>3 DEF PendingPromotable
  <1>13. DOMAIN f # {}
    BY <1>6, Zenon
  <1> QED BY <1>5, <1>6, <1>10, <1>11, <1>12, <1>13, Zenon DEF bs, s, rec

(* The committed block's number, maps and record, as the two lemmas below   *)
(* use them.                                                                *)
LEMMA CommitFacts ==
  ASSUME LInv, CommitBlock
  PROVE  LET bs  == pending[1].bs
             n   == head.block_num
             s   == Settled(head, bs.timestamp, bs.confirmed)
             rec == Recorded(bs)
         IN  /\ head' = bs /\ history' = rec /\ bs.block_num = n + 1 /\ n \in Nat \ {0}
             /\ bs.dpos_irreversible = s.dpos_irreversible /\ s.dpos_irreversible \in Nat
             /\ bs.active = maybe_promote_pending(s).active
             /\ bs.last_implied_irb = maybe_promote_pending(s).last_implied_irb
             /\ rec[n + 1].proposed = bs.dpos_proposed
             /\ rec[n + 1].floor = IF bs.active # head.active THEN s.dpos_irreversible
                                                              ELSE history[n].floor
             /\ history[n].floor \in Nat /\ head.dpos_irreversible \in Nat
             /\ history[n].floor <= head.dpos_irreversible
             /\ head.dpos_irreversible <= s.dpos_irreversible
  <1> DEFINE bs  == pending[1].bs
             n   == head.block_num
             s   == Settled(head, bs.timestamp, bs.confirmed)
             rec == Recorded(bs)
  <1>1. pending # <<>> /\ head' = bs /\ history' = rec /\ Outranks(bs, head)
    BY Zenon DEF CommitBlock
  <1>2. /\ Sound(head) /\ Sound(bs) /\ Built(head, bs)
        /\ Len(history) = n /\ history \in Seq(EntryType)
    BY <1>1, Zenon DEF LInv, CInv, BInv, IInv
  <1> HIDE DEF bs
  <1>3. n \in Nat \ {0} /\ head.dpos_irreversible \in Nat /\ bs.dpos_irreversible \in Nat
    BY <1>2, Zenon DEF Sound, IsHeaderState
  <1>4. /\ bs.block_num = n + 1 /\ bs.dpos_irreversible = s.dpos_irreversible
        /\ bs.active = maybe_promote_pending(s).active
        /\ bs.last_implied_irb = maybe_promote_pending(s).last_implied_irb
    BY <1>2, BuiltFields
  <1>5. /\ rec[n + 1].proposed = bs.dpos_proposed
        /\ rec[n + 1].floor = IF bs.active # head.active THEN bs.dpos_irreversible ELSE history[n].floor
    BY <1>2, <1>4, RecordedFields, Zenon
  <1>6. history[n].floor \in Nat
    <2>1. history[n] \in EntryType
      BY <1>2, <1>3
    <2> QED BY <2>1, Zenon DEF EntryType
  <1>7. history[n].floor <= head.dpos_irreversible
    BY Zenon DEF LInv
  <1> HIDE DEF s, rec
  <1>8. head.dpos_irreversible <= s.dpos_irreversible
    BY <1>1, <1>3, <1>4 DEF Outranks
  <1> QED BY <1>1, <1>3, <1>4, <1>5, <1>6, <1>7, <1>8, Zenon DEF bs, s, rec

(* The implied numbers stay backed when the block is committed, also when   *)
(* it changes the schedule: producers that stay keep a number that was      *)
(* backed, new ones start at the floor.                                     *)
LEMMA CommitImplied ==
  ASSUME LInv, CommitBlock
  PROVE  /\ head'.block_num > 1
         /\ history'[head'.block_num].proposed = head'.dpos_proposed
         /\ history'[head'.block_num].floor <= head'.dpos_irreversible
         /\ Seen(head'.last_implied_irb, history', head'.block_num, history'[head'.block_num].floor)
         /\ DOMAIN head'.last_implied_irb = ProducersOf(head'.active)
  <1> DEFINE bs  == pending[1].bs
             n   == head.block_num
             s   == Settled(head, bs.timestamp, bs.confirmed)
             m   == maybe_promote_pending(s)
             f   == s.last_implied_irb
             lib == s.dpos_irreversible
             rec == Recorded(bs)
             old == history[n].floor
             new == rec[n + 1].floor
             prods == ProducersOf(s.pending)
  <1>1. /\ head' = bs /\ history' = rec /\ bs.block_num = n + 1 /\ n \in Nat \ {0}
        /\ bs.dpos_irreversible = lib /\ lib \in Nat
        /\ bs.active = m.active /\ bs.last_implied_irb = m.last_implied_irb
        /\ rec[n + 1].proposed = bs.dpos_proposed
        /\ new = IF bs.active # head.active THEN lib ELSE old
        /\ old \in Nat /\ head.dpos_irreversible \in Nat
        /\ old <= head.dpos_irreversible /\ head.dpos_irreversible <= lib
    BY CommitFacts, Zenon
  <1>2. /\ Seen(f, rec, n + 1, old)
        /\ n > 1 => DOMAIN f = ProducersOf(head.active)
        /\ n = 1 => lib = 0 /\ PendingPromotable(s)
        /\ f \in [DOMAIN f -> 0..head.dpos_proposed]
        /\ s.active = head.active /\ s.pending = head.pending /\ Sound(s)
    BY CommitSeen, Zenon
  <1>3. new \in Nat /\ old <= new /\ new <= lib
    <2>1. /\ new = lib \/ new = old
          /\ old \in Nat /\ lib \in Nat /\ head.dpos_irreversible \in Nat
          /\ old <= head.dpos_irreversible /\ head.dpos_irreversible <= lib
      BY <1>1, Zenon
    <2> HIDE DEF new, old, lib
    <2> QED BY <2>1
  <1>4. head.dpos_proposed \in Nat
    BY Zenon DEF LInv, CInv, BInv, IInv, Sound, IsHeaderState
  <1> HIDE DEF bs, s, rec, f, old, new, lib, n
  <1>5. CASE ~PendingPromotable(s)
    <2>1. m = s
      BY <1>5, Zenon DEF maybe_promote_pending
    <2>2. bs.active = head.active /\ bs.last_implied_irb = f /\ new = old /\ n > 1
      BY <1>1, <1>2, <1>5, <2>1 DEF f
    <2>3. Seen(bs.last_implied_irb, rec, n + 1, new)
      BY <1>2, <2>2, Zenon
    <2>4. DOMAIN bs.last_implied_irb = ProducersOf(bs.active)
      BY <1>2, <2>2, Zenon
    <2> QED BY <1>1, <1>3, <2>2, <2>3, <2>4 DEF new, lib
  <1>6. CASE PendingPromotable(s)
    <2>1. m.active = s.pending /\ m.last_implied_irb = Inherit(f, prods, lib)
      BY <1>2, <1>6, PromoteFields, Zenon DEF Sound, f, lib
    <2> DEFINE h == Inherit(f, prods, lib)
    <2>2. DOMAIN h = prods /\ \A q \in prods : h[q] = IF q \in DOMAIN f THEN f[q] ELSE lib
      BY Zenon DEF Inherit
    <2>3. DOMAIN bs.last_implied_irb = ProducersOf(bs.active)
      BY <1>1, <2>1, <2>2, Zenon
    <2>4. bs.last_implied_irb = h /\ bs.active = s.pending
      BY <1>1, <2>1, Zenon
    <2> HIDE DEF h
    <2>5. ASSUME NEW q \in prods, h[q] > new
          PROVE  \E i \in 2..(n + 1) : rec[i].producer = q /\ rec[i - 1].proposed >= h[q]
      <3>1. q \in DOMAIN f
        <4> SUFFICES ASSUME q \notin DOMAIN f PROVE FALSE
          BY Zenon
        <4>1. h[q] = lib
          BY <2>2, Zenon
        <4>2. bs.active = head.active /\ lib # 0
          BY <1>1, <1>3, <2>5, <4>1
        <4>3. n > 1
          BY <1>1, <1>2, <4>2
        <4>4. prods = DOMAIN f
          BY <1>2, <2>4, <4>2, <4>3, Zenon
        <4> QED BY <4>4, Zenon
      <3>2. h[q] = f[q] /\ f[q] \in Nat
        BY <1>2, <1>4, <2>2, <3>1
      <3>3. f[q] > old
        BY <1>1, <1>3, <2>5, <3>2
      <3> QED BY <1>2, <3>1, <3>2, <3>3, Zenon DEF Seen
    <2>6. Seen(bs.last_implied_irb, rec, n + 1, new)
      BY <2>2, <2>4, <2>5, Zenon DEF Seen
    <2> QED BY <1>1, <1>3, <2>3, <2>6 DEF new, lib
  <1> QED BY <1>5, <1>6, Zenon

(* The committed block's irreversible number has its quorum: those who      *)
(* implied it or more are more than two thirds, and each is backed by a     *)
(* block of its own.                                                        *)
LEMMA CommitLib ==
  ASSUME LInv, CommitBlock
  PROVE  IrreversibleHasQuorum'
  <1> DEFINE bs  == pending[1].bs
             n   == head.block_num
             s   == Settled(head, bs.timestamp, bs.confirmed)
             f   == s.last_implied_irb
             lib == s.dpos_irreversible
             rec == Recorded(bs)
             act == bs.active
             k   == Len(act.producers)
             witnesses == {p \in ProducersOf(act) :
                             \E i \in 2..(n + 1) : rec[i].producer = p /\ rec[i - 1].proposed >= lib}
             above == {p \in DOMAIN f : f[p] >= lib}
  <1>1. /\ head' = bs /\ history' = rec /\ bs.block_num = n + 1 /\ n \in Nat \ {0}
        /\ bs.dpos_irreversible = lib /\ lib \in Nat
        /\ rec[n + 1].floor = IF bs.active # head.active THEN lib ELSE history[n].floor
        /\ history[n].floor \in Nat
    BY CommitFacts, Zenon
  <1>2. /\ Seen(f, rec, n + 1, history[n].floor)
        /\ n > 1 => DOMAIN f = ProducersOf(head.active)
        /\ n = 1 => lib = 0
        /\ DOMAIN f # {} /\ IsFiniteSet(DOMAIN f) /\ f \in [DOMAIN f -> 0..head.dpos_proposed]
        /\ lib = calc_dpos_last_irreversible(f)
    BY CommitSeen, Zenon
  <1>3. head.dpos_proposed \in Nat /\ head.active \in ScheduleType /\ Distinct(head.active)
    BY Zenon DEF LInv, DInv, DistinctIn, CInv, BInv, IInv, Sound, IsHeaderState
  <1>6. \A i \in 1..(n + 1) : rec[i].proposed \in Nat
    <2>1. pending # <<>>
      BY Zenon DEF CommitBlock
    <2>2. /\ Sound(head) /\ Sound(bs) /\ Len(history) = n /\ history \in Seq(EntryType)
      BY <2>1, Zenon DEF LInv, CInv, BInv, IInv
    <2>3. rec \in Seq(EntryType)
      BY <1>1, <2>2, RecordedFields, Zenon
    <2>4. Len(rec) = n + 1
      <3>1. DOMAIN rec = 1..bs.block_num
        BY Zenon DEF Recorded
      <3>2. bs.block_num = n + 1 /\ n \in Nat
        BY <1>1, Zenon
      <3> HIDE DEF rec, bs, n
      <3> QED BY <2>3, <3>1, <3>2
    <2> HIDE DEF rec
    <2>5. \A i \in 1..(n + 1) : rec[i] \in EntryType
      BY <2>3, <2>4
    <2> QED BY <2>5, Zenon DEF EntryType
  <1>4. ASSUME lib > rec[n + 1].floor PROVE Cardinality(witnesses) >= k - (k - 1) \div 3
    <2>1. act = head.active /\ rec[n + 1].floor = history[n].floor
      <3> HIDE DEF bs, s, rec, lib
      <3> QED BY <1>1, <1>4
    <2>2. n > 1
      <3> HIDE DEF bs, s, rec, lib, n
      <3> QED BY <1>1, <1>2, <1>4, <2>1
    <2>3. DOMAIN f = ProducersOf(act) /\ Cardinality(DOMAIN f) = k
      BY <1>2, <1>3, <2>1, <2>2, ScheduleSize, Zenon
    <2>4. Cardinality(above) >= k - (k - 1) \div 3
      BY <1>2, <1>3, <2>3, CalcQuorum, Zenon
    <2>5. above \in SUBSET witnesses
      <3> SUFFICES ASSUME NEW p \in DOMAIN f, f[p] >= lib
                   PROVE  p \in ProducersOf(act) /\ \E i \in 2..(n + 1) : rec[i].producer = p /\ rec[i - 1].proposed >= lib
        BY Zenon
      <3> HIDE DEF rec, f, lib, n, act
      <3>1. f[p] \in Nat /\ f[p] > history[n].floor
        BY <1>1, <1>2, <1>3, <1>4, <2>1
      <3>2. PICK i \in 2..(n + 1) : rec[i].producer = p /\ rec[i - 1].proposed >= f[p]
        BY <1>2, <3>1, Zenon DEF Seen
      <3>3. rec[i - 1].proposed \in Nat
        <4>1. i - 1 \in 1..(n + 1)
          BY <1>1
        <4> QED BY <1>6, <4>1, Zenon
      <3>4. rec[i - 1].proposed >= lib
        BY <1>1, <3>1, <3>2, <3>3
      <3> QED BY <2>3, <3>2, <3>4, Zenon
    <2>6. witnesses \in SUBSET DOMAIN f
      BY <2>3, Zenon
    <2> HIDE DEF witnesses, above
    <2>7. IsFiniteSet(witnesses)
      BY <1>2, <2>6, FS_Subset, Zenon
    <2>8. Cardinality(above) <= Cardinality(witnesses) /\ Cardinality(witnesses) \in Nat
          /\ Cardinality(above) \in Nat
      BY <2>5, <2>7, FS_Subset, FS_CardinalityType
    <2>9. k \in Nat
      BY <1>2, <2>3, FS_CardinalityType, Zenon
    <2> HIDE DEF k
    <2>10. k - (k - 1) \div 3 \in Int
      BY <2>9
    <2> QED BY <2>4, <2>8, <2>10
  <1>5. IrreversibleHasQuorum' =
          (lib > rec[n + 1].floor => Cardinality(witnesses) >= k - (k - 1) \div 3)
    BY <1>1, Zenon DEF IrreversibleHasQuorum
  <1> QED BY <1>4, <1>5, Zenon

(* Only CommitBlock changes the chain and its history.                      *)
LEMMA NextLInv == LInv /\ [Next]_vars => LInv'
  <1> SUFFICES ASSUME LInv, [Next]_vars PROVE LInv'
    BY Zenon
  <1>1. CInv' /\ DInv'
    BY NextCInv, NextDInv, Zenon DEF LInv
  <1>2. CASE CommitBlock
    <2>1. head'.block_num # 1
      BY <1>2, CommitImplied, SMTT(20)
    <2> QED BY <1>1, <1>2, <2>1, CommitImplied, CommitLib DEF LInv
  <1>3. CASE UNCHANGED <<head, history>>
    <2>1. IrreversibleHasQuorum' = IrreversibleHasQuorum
      BY <1>3, Zenon DEF IrreversibleHasQuorum
    <2>2. Seen(head.last_implied_irb, history, head.block_num, history[head.block_num].floor)'
            = Seen(head.last_implied_irb, history, head.block_num, history[head.block_num].floor)
      BY <1>3, Zenon
    <2> QED BY <1>1, <1>3, <2>1, <2>2 DEF LInv
  <1>4. CommitBlock \/ UNCHANGED <<head, history>>
    BY Zenon DEF Next, vars, StartBlock, AbortBlock, CommitRejected, SetProposedProducers, Restart
  <1> QED BY <1>2, <1>3, <1>4, Zenon

(* The invariant about the implied confirmations holds in every reachable  *)
(* state.                                                                  *)
LEMMA ImpliedInvariance == Spec => []LInv
  BY InitLInv, NextLInv, PTL DEF Spec

(* A block is irreversible only when more than two thirds of the active     *)
(* schedule have signed a block on top of a state that proposed it or a     *)
(* later one, unless the number is the one the schedule started from:       *)
(* producer_to_last_implied_irb is kept across a promotion for those who    *)
(* stay, and calc_dpos_last_irreversible picks the lower third.             *)
THEOREM IrreversibleBacked == Spec => []IrreversibleHasQuorum
  <1>1. LInv => IrreversibleHasQuorum
    BY Zenon DEF LInv
  <1> QED BY <1>1, ImpliedInvariance, PTL

-----------------------------------------------------------------------------
(* When the number computed for a block can fall. *)

(* No more producers than the rank are below the irreversible number.       *)
Ranked(f, lib) ==
  Cardinality({p \in DOMAIN f : f[p] < lib}) <= LibIndex(Cardinality(DOMAIN f))

(* A larger set has no lower rank.                                          *)
LEMMA RankGrows ==
  ASSUME NEW m \in Nat, NEW n \in Nat, m <= n
  PROVE  LibIndex(m) <= LibIndex(n) /\ LibIndex(m) \in Int /\ LibIndex(n) \in Int
  BY DEF LibIndex

(* On top of a ranked header state the number does not fall: the producer   *)
(* of the next block implies the proposed number, which is no lower.        *)
LEMMA RankedKeepsLib ==
  ASSUME NEW hs, Sound(hs), NEW when \in Nat, Ranked(hs.last_implied_irb, hs.dpos_irreversible)
  PROVE  generate_next(hs, when).dpos_irreversible >= hs.dpos_irreversible
  <1> DEFINE old == hs.last_implied_irb
             lib == hs.dpos_irreversible
             p   == get_scheduled_producer(hs, when)
             f   == Put(old, p, hs.dpos_proposed)
             BelowOld == {q \in DOMAIN old : old[q] < lib}
             Below    == {q \in DOMAIN f : f[q] < lib}
  <1>1. /\ DOMAIN f = DOMAIN old \cup {p} /\ IsFiniteSet(DOMAIN f)
        /\ f \in [DOMAIN f -> 0..hs.dpos_proposed]
    BY 0 \in Nat, SettledImplied, Zenon
  <1>2. generate_next(hs, when).dpos_irreversible = calc_dpos_last_irreversible(f)
    BY GenerateNextFields, Zenon DEF Sound
  <1>3. lib \in Nat /\ hs.dpos_proposed \in Nat /\ lib <= hs.dpos_proposed
    BY Zenon DEF Sound, IsHeaderState, BehindProposed
  <1>4. IsFiniteSet(DOMAIN old) /\ Cardinality(BelowOld) <= LibIndex(Cardinality(DOMAIN old))
    BY Zenon DEF Sound, IsHeaderState, IsNumMap, Ranked
  <1>5. f[p] = hs.dpos_proposed /\ \A q \in DOMAIN old : q # p => f[q] = old[q]
    BY Zenon DEF Put
  <1> HIDE DEF f, old, lib, p
  <1>6. Below \in SUBSET BelowOld
    BY <1>1, <1>3, <1>5
  <1>7. IsFiniteSet(BelowOld) /\ DOMAIN old \in SUBSET DOMAIN f
    BY <1>1, <1>4, FS_Subset, Zenon
  <1> HIDE DEF Below, BelowOld
  <1>8. /\ Cardinality(Below) <= Cardinality(BelowOld)
        /\ Cardinality(Below) \in Nat /\ Cardinality(BelowOld) \in Nat
    BY <1>6, <1>7, FS_Subset, FS_CardinalityType, Zenon
  <1>9. /\ Cardinality(DOMAIN old) <= Cardinality(DOMAIN f)
        /\ Cardinality(DOMAIN old) \in Nat /\ Cardinality(DOMAIN f) \in Nat
    BY <1>1, <1>4, <1>7, FS_Subset, FS_CardinalityType, Zenon
  <1>10. /\ LibIndex(Cardinality(DOMAIN old)) <= LibIndex(Cardinality(DOMAIN f))
         /\ LibIndex(Cardinality(DOMAIN old)) \in Int /\ LibIndex(Cardinality(DOMAIN f)) \in Int
    BY <1>9, RankGrows, Zenon
  <1>11. Cardinality(Below) <= LibIndex(Cardinality(DOMAIN f))
    BY <1>4, <1>8, <1>10
  <1>12. DOMAIN f # {}
    BY <1>1, Zenon
  <1>13. calc_dpos_last_irreversible(f) >= lib
    BY <1>1, <1>3, <1>11, <1>12, CalcAtLeast, Zenon DEF Below
  <1> QED BY <1>2, <1>13, Zenon DEF f, lib, p, old

(* A committed block leaves a ranked header state, also when it promotes a  *)
(* schedule, unless the new schedule has a lower rank than the old one.     *)
LEMMA CommitRanked ==
  ASSUME LInv, CommitBlock, RankOf(head') >= RankOf(head)
  PROVE  Ranked(head'.last_implied_irb, head'.dpos_irreversible)
  <1> DEFINE bs  == pending[1].bs
             s   == Settled(head, bs.timestamp, bs.confirmed)
             m   == maybe_promote_pending(s)
             f   == s.last_implied_irb
             lib == s.dpos_irreversible
             prods == ProducersOf(s.pending)
             BelowOld == {q \in DOMAIN f : f[q] < lib}
  <1>1. /\ head' = bs /\ bs.dpos_irreversible = lib /\ lib \in Nat
        /\ bs.active = m.active /\ bs.last_implied_irb = m.last_implied_irb
        /\ head.block_num \in Nat \ {0}
    BY CommitFacts, Zenon
  <1>2. /\ head.block_num > 1 => DOMAIN f = ProducersOf(head.active)
        /\ head.block_num = 1 => lib = 0
        /\ DOMAIN f # {} /\ IsFiniteSet(DOMAIN f) /\ f \in [DOMAIN f -> 0..head.dpos_proposed]
        /\ lib = calc_dpos_last_irreversible(f)
        /\ s.active = head.active /\ s.pending = head.pending /\ Sound(s)
    BY CommitSeen, Zenon
  <1>3. /\ head.dpos_proposed \in Nat /\ head.active \in ScheduleType /\ head.pending \in ScheduleType
        /\ Distinct(head.active) /\ Distinct(head.pending)
    BY Zenon DEF LInv, DInv, DistinctIn, CInv, BInv, IInv, Sound, IsHeaderState
  <1>4. Cardinality(BelowOld) <= LibIndex(Cardinality(DOMAIN f))
    BY <1>2, <1>3, CalcRank, Zenon
  <1> HIDE DEF bs, s, f, lib
  <1>5. CASE ~PendingPromotable(s)
    <2>1. bs.last_implied_irb = f
      BY <1>1, <1>5, Zenon DEF maybe_promote_pending, f
    <2> QED BY <1>1, <1>4, <2>1, Zenon DEF Ranked
  <1>6. CASE PendingPromotable(s)
    <2> DEFINE h == Inherit(f, prods, lib)
               Below == {q \in DOMAIN h : h[q] < lib}
    <2>1. m.active = s.pending /\ m.last_implied_irb = h
      BY <1>2, <1>6, PromoteFields, Zenon DEF Sound, f, lib
    <2>2. DOMAIN h = prods /\ \A q \in prods : h[q] = IF q \in DOMAIN f THEN f[q] ELSE lib
      BY Zenon DEF Inherit
    <2>3. bs.last_implied_irb = h /\ bs.active = head.pending
      BY <1>1, <1>2, <2>1, Zenon
    <2>4. Cardinality(prods) = Len(bs.active.producers) /\ Cardinality(prods) \in Nat
      <3>1. Cardinality(prods) = Len(bs.active.producers)
        BY <1>2, <1>3, <2>3, ScheduleSize, Zenon
      <3>2. bs.active.producers \in Seq(Accounts)
        BY <1>3, <2>3, Zenon DEF ScheduleType
      <3> QED BY <3>1, <3>2
    <2>5. Cardinality(DOMAIN f) \in Nat /\ IsFiniteSet(BelowOld)
      BY <1>2, FS_Subset, FS_CardinalityType, Zenon
    <2> HIDE DEF h
    <2>6. Below \in SUBSET BelowOld
      BY <1>1, <2>2
    <2> HIDE DEF Below, BelowOld
    <2>7. /\ Cardinality(Below) <= Cardinality(BelowOld)
          /\ Cardinality(Below) \in Nat /\ Cardinality(BelowOld) \in Nat
      BY <2>5, <2>6, FS_Subset, FS_CardinalityType, Zenon
    <2>8. Cardinality(Below) <= LibIndex(Cardinality(prods))
      <3>1. CASE head.block_num > 1
        <4>1. Cardinality(DOMAIN f) = Len(head.active.producers)
          BY <1>2, <1>3, <3>1, ScheduleSize, Zenon
        <4>2. LibIndex(Cardinality(prods)) >= LibIndex(Cardinality(DOMAIN f))
          BY <1>1, <2>4, <4>1, Zenon DEF RankOf
        <4>3. LibIndex(Cardinality(prods)) \in Int /\ LibIndex(Cardinality(DOMAIN f)) \in Int
          BY <2>4, <2>5 DEF LibIndex
        <4> QED BY <1>4, <2>7, <4>2, <4>3
      <3>2. CASE head.block_num = 1
        <4>1. \A q \in DOMAIN f : ~(f[q] < lib)
          BY <1>2, <1>3, <3>2
        <4>2. Below = {}
          BY <2>6, <4>1 DEF BelowOld
        <4>3. Cardinality(Below) = 0
          BY <4>2, FS_EmptySet, Zenon
        <4>4. prods # {}
          <5>1. s.pending.producers # <<>> /\ s.pending.producers \in Seq(Accounts)
            BY <1>2, <1>3, <1>6, Zenon DEF PendingPromotable, ScheduleType
          <5>2. 1 \in DOMAIN s.pending.producers
            BY <5>1
          <5> QED BY <5>2, Zenon DEF ProducersOf
        <4>5. Cardinality(prods) # 0
          BY <1>2, <1>3, <4>4, ProducersFinite, FS_EmptySet, Zenon
        <4> HIDE DEF prods
        <4>6. Cardinality(prods) \in Nat \ {0}
          BY <2>4, <4>5, Zenon
        <4>7. LibIndex(Cardinality(prods)) \in Nat
          BY <4>6 DEF LibIndex
        <4> QED BY <4>3, <4>7
      <3> QED BY <1>1, <3>1, <3>2
    <2> QED BY <1>1, <2>2, <2>3, <2>8, Zenon DEF Ranked, Below
  <1> QED BY <1>5, <1>6, Zenon

(* The number computed for the next block falls only when a schedule with a *)
(* lower rank was promoted: at most the rank's number of producers are      *)
(* below the irreversible number, and only maybe_promote_pending changes    *)
(* who is counted.                                                          *)
THEOREM LibFallsOnlyByRank == Spec => LibFallsOnlyOnShrink
  <1> DEFINE Keeps == head' # head /\ RankOf(head') >= RankOf(head) =>
                        \A when \in Round(head') :
                          generate_next(head', when).dpos_irreversible >= head'.dpos_irreversible
  <1>1. LInv /\ [Next]_vars => [Keeps]_vars
    <2> SUFFICES ASSUME LInv, Next, head' # head, RankOf(head') >= RankOf(head),
                        NEW when \in Round(head')
                 PROVE  generate_next(head', when).dpos_irreversible >= head'.dpos_irreversible
      BY Zenon
    <2>1. CommitBlock
      BY Zenon DEF Next, StartBlock, SetProposedProducers, CommitRejected, AbortBlock, Restart
    <2>2. Ranked(head'.last_implied_irb, head'.dpos_irreversible)
      BY <2>1, CommitRanked, Zenon
    <2>3. Sound(head')
      BY <2>1, Zenon DEF CommitBlock, LInv, CInv, BInv, IInv
    <2>4. when \in Nat
      <3>1. head'.timestamp \in Nat
        BY <2>3, SoundFields, Zenon
      <3>2. Len(head'.active.producers) * ProducerRepetitions \in Nat
        BY <2>3, ActiveSchedule, RepetitionsAssumption DEF Sound
      <3> QED BY <3>1, <3>2 DEF Round
    <2> QED BY <2>2, <2>3, <2>4, RankedKeepsLib, Zenon
  <1> QED BY <1>1, ImpliedInvariance, PTL DEF Spec, LibFallsOnlyOnShrink
=============================================================================
