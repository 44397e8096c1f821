------------------------ MODULE ProductionLoopProofs ------------------------
(***************************************************************************)
(* Proofs about the production loop, for any schedules, any sequence of    *)
(* blocks from others and any order of its handlers.                       *)
(***************************************************************************)
EXTENDS ProductionLoop, WellFoundedInduction, TLAPS

-----------------------------------------------------------------------------
(* Slots and turns *)

(* A nonempty set of natural numbers has a smallest one.                    *)
LEMMA LeastNumber ==
  ASSUME NEW F, F \subseteq Nat, F # {}
  PROVE  \E n \in F : \A m \in F : n <= m
  <1>1. \E n \in F : \A m \in F : ~(<<m, n>> \in OpToRel(<, Nat))
    BY NatLessThanWellFounded, WFMin, Zenon
  <1>2. ASSUME NEW n \in F, NEW m \in F, ~(<<m, n>> \in OpToRel(<, Nat))
        PROVE  n <= m
    <2>1. n \in Nat /\ m \in Nat /\ ~(m < n)
      BY <1>2, Zenon DEF OpToRel
    <2> QED BY <2>1
  <1> QED BY <1>1, <1>2, Zenon

(* A number is its quotient and its remainder: the turn of a slot and its   *)
(* place in the turn (get_scheduled_producer).                              *)
LEMMA DivMod ==
  ASSUME NEW a \in Nat, NEW b \in Nat \ {0}
  PROVE  a = b * (a \div b) + (a % b) /\ a % b \in 0 .. (b - 1) /\ a \div b \in Nat
  OBVIOUS

(* There is one way to write a slot as a turn and a place in it.            *)
LEMMA DivUnique ==
  ASSUME NEW b \in Nat \ {0}, NEW q \in Nat, NEW r \in 0 .. (b - 1)
  PROVE  (b * q + r) \div b = q /\ (b * q + r) % b = r
  OBVIOUS

(* Multiplication keeps the order: later slots have later times.            *)
LEMMA ProductOrder ==
  ASSUME NEW a \in Nat, NEW b \in Nat, NEW c \in Nat, a <= b
  PROVE  a * c <= b * c
  OBVIOUS

(* Division keeps the order: later times fall in later slots.               *)
LEMMA QuotientOrder ==
  ASSUME NEW a \in Nat, NEW b \in Nat, NEW c \in Nat \ {0}, a <= b
  PROVE  a \div c <= b \div c
  <1> DEFINE x == a \div c
             y == b \div c
  <1>1. a = c * x + (a % c) /\ a % c \in 0 .. (c - 1) /\ x \in Nat
    BY DivMod, Zenon
  <1>2. b = c * y + (b % c) /\ b % c \in 0 .. (c - 1) /\ y \in Nat
    BY DivMod, Zenon
  <1> HIDE DEF x, y
  <1>3. ASSUME y + 1 <= x PROVE FALSE
    <2>1. (y + 1) * c <= x * c
      BY <1>1, <1>2, <1>3, ProductOrder
    <2>2. (y + 1) * c = c * y + c /\ x * c = c * x
      BY <1>1, <1>2
    <2>3. c * y \in Nat /\ c * x \in Nat
      BY <1>1, <1>2
    <2> QED BY <1>1, <1>2, <2>1, <2>2, <2>3
  <1>4. x <= y
    BY <1>1, <1>2, <1>3
  <1> QED BY <1>4, Zenon DEF x, y

(* Whose turn a slot is, counted in rounds of L producers with R slots      *)
(* each, is the number of turns before it modulo L.                         *)
LEMMA TurnOf ==
  ASSUME NEW L \in Nat \ {0}, NEW R \in Nat \ {0}, NEW m \in Nat
  PROVE  (m % (L * R)) \div R = (m \div R) % L
  <1> DEFINE q == m \div R
             r == m % R
             Q == q \div L
             j == q % L
  <1>1. m = R * q + r /\ r \in 0 .. (R - 1) /\ q \in Nat
    BY DivMod, Zenon
  <1> HIDE DEF q, r
  <1>2. q = L * Q + j /\ j \in 0 .. (L - 1) /\ Q \in Nat
    BY <1>1, DivMod, Zenon
  <1> HIDE DEF Q, j
  <1> DEFINE rest == R * j + r
  <1>3. R * j \in Nat /\ rest \in Nat /\ L * R \in Nat \ {0} /\ L * Q \in Nat
    BY <1>1, <1>2
  <1>4. rest \in 0 .. (L * R - 1)
    <2>1. (j + 1) * R <= L * R
      BY <1>2, ProductOrder
    <2>2. (j + 1) * R = R * j + R
      BY <1>2
    <2> QED BY <1>1, <1>3, <2>1, <2>2
  <1>5. m = (L * R) * Q + rest
    <2>1. R * q = R * (L * Q) + R * j
      BY <1>2, <1>3
    <2>2. R * (L * Q) = (L * R) * Q
      BY <1>2
    <2> DEFINE A == R * (L * Q)
               B == R * j
    <2>3. A \in Nat /\ B \in Nat
      BY <1>2, <1>3
    <2> HIDE DEF A, B
    <2>4. m = (A + B) + r /\ rest = B + r
      BY <1>1, <2>1, Zenon DEF A, B
    <2>5. (A + B) + r = A + (B + r)
      BY <1>1, <2>3
    <2> QED BY <2>2, <2>4, <2>5, Zenon DEF A
  <1> HIDE DEF rest
  <1>6. m % (L * R) = rest
    BY <1>2, <1>3, <1>4, <1>5, DivUnique, Zenon
  <1>7. rest \div R = j
    BY <1>1, <1>2, DivUnique DEF rest
  <1> QED BY <1>6, <1>7, Zenon DEF q, j

(* What calculate_next_block_time computes from the first slot allowed.     *)
FirstSlot(L, R, index, minimum) ==
  LET minIndex == (minimum % (L * R)) \div R
      distance == IF index < minIndex THEN index - minIndex + L ELSE index - minIndex
  IN  IF index = minIndex THEN minimum
      ELSE minimum - (minimum % R) + distance * R

(* It is the first slot from there on in which the producer has its turn.   *)
LEMMA FirstSlotIsFirst ==
  ASSUME NEW L \in Nat \ {0}, NEW R \in Nat \ {0}, NEW index \in 0 .. (L - 1), NEW minimum \in Nat
  PROVE  LET first == FirstSlot(L, R, index, minimum)
         IN  /\ first \in Nat /\ first >= minimum
             /\ (first % (L * R)) \div R = index
             /\ \A slot \in Nat : slot >= minimum /\ (slot % (L * R)) \div R = index => first <= slot
  <1> DEFINE q == minimum \div R
             r == minimum % R
             Q == q \div L
             j == q % L
             d == IF index < j THEN index - j + L ELSE index - j
             first == FirstSlot(L, R, index, minimum)
  <1>1. minimum = R * q + r /\ r \in 0 .. (R - 1) /\ q \in Nat
    BY DivMod, Zenon
  <1>2. first = IF index = j THEN minimum ELSE minimum - r + d * R
    BY TurnOf, Zenon DEF FirstSlot
  <1> HIDE DEF q, r, first
  <1>3. q = L * Q + j /\ j \in 0 .. (L - 1) /\ Q \in Nat
    BY <1>1, DivMod, Zenon
  <1> HIDE DEF Q
  <1>4. CASE index = j
    <2>1. first = minimum
      BY <1>2, <1>4, Zenon
    <2>2. (minimum % (L * R)) \div R = index
      BY <1>4, TurnOf, Zenon DEF q
    <2> QED BY <2>1, <2>2 DEF first
  <1>5. CASE index # j
    <2> HIDE DEF j
    <2>1. d \in 1 .. (L - 1)
      BY <1>3, <1>5
    <2>2. first = R * (q + d) /\ first \in Nat /\ q + d \in Nat
      <3>1. d * R = R * d /\ R * (q + d) = R * q + R * d /\ R * q \in Nat /\ R * d \in Nat
        BY <1>1, <2>1
      <3> HIDE DEF d
      <3> QED BY <1>1, <1>2, <1>5, <2>1, <3>1
    <2>3. first >= minimum
      <3>1. 1 * R <= d * R
        BY <2>1, ProductOrder
      <3>2. d * R \in Nat /\ R * (q + d) = R * q + d * R /\ R * q \in Nat
        BY <1>1, <2>1
      <3> HIDE DEF d
      <3> QED BY <1>1, <2>1, <2>2, <3>1, <3>2
    <2>4. (first % (L * R)) \div R = index
      <3>1. first = R * (q + d) + 0 /\ 0 \in 0 .. (R - 1)
        BY <2>2
      <3>2. first \div R = q + d
        BY <2>2, <3>1, DivUnique, Zenon
      <3>3. (q + d) % L = index
        <4>1. CASE index < j
          <5>1. q + d = L * (Q + 1) + index
            <6>1. L * (Q + 1) = L * Q + L /\ L * Q \in Nat
              BY <1>3
            <6> QED BY <1>3, <4>1, <6>1
          <5> QED BY <1>3, <5>1, DivUnique, SMTT(20)
        <4>2. CASE ~(index < j)
          <5>1. q + d = L * Q + index
            <6>1. L * Q \in Nat
              BY <1>3
            <6> QED BY <1>3, <4>2, <6>1
          <5> QED BY <1>3, <5>1, DivUnique, Zenon
        <4> QED BY <4>1, <4>2, Zenon
      <3> QED BY <2>2, <3>2, <3>3, TurnOf
    <2>5. ASSUME NEW slot \in Nat, slot >= minimum, (slot % (L * R)) \div R = index
          PROVE  first <= slot
      <3> DEFINE q2 == slot \div R
                 Q2 == q2 \div L
      <3>1. slot = R * q2 + (slot % R) /\ slot % R \in 0 .. (R - 1) /\ q2 \in Nat
        BY DivMod, Zenon
      <3>2. q2 % L = index
        BY <2>5, TurnOf, Zenon
      <3>3. q <= q2
        BY <2>5, QuotientOrder, Zenon DEF q
      <3> HIDE DEF q2
      <3>4. q2 = L * Q2 + index /\ Q2 \in Nat
        BY <3>1, <3>2, DivMod, Zenon
      <3> HIDE DEF Q2
      <3>5. L * Q \in Nat /\ L * Q2 \in Nat
        BY <1>3, <3>4
      <3>6. Q <= Q2
        <4> SUFFICES ASSUME Q2 + 1 <= Q PROVE FALSE
          BY <1>3, <3>4
        <4>1. (Q2 + 1) * L <= Q * L
          BY <1>3, <3>4, ProductOrder
        <4>2. (Q2 + 1) * L = L * Q2 + L /\ Q * L = L * Q
          BY <1>3, <3>4
        <4> QED BY <1>3, <3>3, <3>4, <3>5, <4>1, <4>2
      <3>7. q + d <= q2
        <4>1. CASE index < j
          <5>1. Q # Q2
            BY <1>3, <3>3, <3>4, <3>5, <4>1
          <5>2. (Q + 1) * L <= Q2 * L
            BY <1>3, <3>4, <3>6, <5>1, ProductOrder
          <5>3. (Q + 1) * L = L * Q + L /\ Q2 * L = L * Q2
            BY <1>3, <3>4
          <5>4. d = index - j + L
            BY <4>1, Zenon
          <5> HIDE DEF d
          <5> QED BY <1>3, <3>4, <3>5, <5>2, <5>3, <5>4
        <4>2. CASE ~(index < j)
          <5>1. Q * L <= Q2 * L
            BY <1>3, <3>4, <3>6, ProductOrder, Zenon
          <5>2. Q * L = L * Q /\ Q2 * L = L * Q2
            BY <1>3, <3>4
          <5>3. d = index - j
            BY <4>2, Zenon
          <5> HIDE DEF d
          <5> QED BY <1>3, <3>4, <3>5, <5>1, <5>2, <5>3
        <4> QED BY <4>1, <4>2, Zenon
      <3> HIDE DEF d
      <3>8. (q + d) * R <= q2 * R
        BY <2>2, <3>1, <3>7, ProductOrder, Zenon
      <3>9. (q + d) * R = R * (q + d) /\ q2 * R = R * q2 /\ R * q2 \in Nat
        BY <2>2, <3>1
      <3> QED BY <2>2, <3>1, <3>8, <3>9
    <2> QED BY <2>2, <2>3, <2>4, <2>5, Zenon DEF first
  <1> QED BY <1>4, <1>5, Zenon

-----------------------------------------------------------------------------
(* The state of a node *)

Producers == Range(Schedules[1]) \cup Range(Schedules[2])
BlockType == [slot : Nat, producer : Producers, ready : BOOLEAN]
Branches == {b \in Seq(BlockType) : Len(b) > 0 /\ b[1] = Genesis}
PendingType == [slot : Nat, producer : Producers, confirm : Nat, prev : Branches \cup {<<>>}]
TimerType ==
  [kind : {"none", "loop", "retry", "produce"}, at : Int, cid : Nat,
   for : (Nat \X Branches) \cup {<<>>}]
NodeType ==
  [started : BOOLEAN, enabled : BOOLEAN, paused : BOOLEAN, mode : {"producing", "speculating"},
   pending : PendingType, timer : TimerType, queued : SUBSET TimerType, cid : Nat,
   watermark : [Local -> Nat], lastSigned : [slot : Nat, num : Nat],
   head : Branches, known : SUBSET Branches]

(* A schedule is never empty and lists nobody twice.                        *)
LEMMA ActiveFacts ==
  ASSUME NEW b \in Branches
  PROVE  LET active == ActiveSchedule(b)
         IN  /\ active \in Seq(Range(active)) /\ Len(active) \in Nat \ {0}
             /\ \A j, k \in 1 .. Len(active) : active[j] = active[k] => j = k
             /\ Range(active) \subseteq Producers
             /\ Range(active) = {active[i] : i \in 1 .. Len(active)}
  <1> DEFINE active == ActiveSchedule(b)
  <1>1. \E i \in 1 .. 2 : active = Schedules[i]
    BY DEF ActiveSchedule
  <1>2. PICK i \in 1 .. 2 : active = Schedules[i]
    BY <1>1, Zenon
  <1>3. active \in Seq(Range(active)) /\ active # <<>>
        /\ \A j, k \in DOMAIN active : active[j] = active[k] => j = k
    BY <1>2, LoopAssumption, Zenon
  <1>4. Range(active) \subseteq Producers
    <2>1. i = 1 \/ i = 2
      OBVIOUS
    <2> HIDE DEF active
    <2> QED BY <1>2, <2>1, Zenon DEF Producers
  <1> HIDE DEF active
  <1>5. Len(active) \in Nat \ {0} /\ DOMAIN active = 1 .. Len(active)
    BY <1>3
  <1> QED BY <1>3, <1>4, <1>5, Zenon DEF active, Range

(* Every slot is the turn of a producer of the active schedule.             *)
LEMMA TurnFacts ==
  ASSUME NEW b \in Branches, NEW slot \in Nat
  PROVE  LET active == ActiveSchedule(b)
             turn   == (slot % (Len(active) * producer_repetitions)) \div producer_repetitions
         IN  /\ turn \in 0 .. (Len(active) - 1)
             /\ ScheduledProducer(b, slot) = active[turn + 1]
             /\ ScheduledProducer(b, slot) \in Range(active)
             /\ ScheduledProducer(b, slot) \in Producers
  <1> DEFINE active == ActiveSchedule(b)
             R == producer_repetitions
             turn == (slot % (Len(active) * R)) \div R
  <1>1. /\ Len(active) \in Nat \ {0}
        /\ Range(active) \subseteq Producers
        /\ Range(active) = {active[i] : i \in 1 .. Len(active)}
    BY ActiveFacts, Zenon
  <1>2. ScheduledProducer(b, slot) = active[turn + 1]
    BY Zenon DEF ScheduledProducer
  <1> HIDE DEF active
  <1>3. R \in Nat \ {0}
    BY LoopAssumption, Zenon
  <1>4. turn = (slot \div R) % Len(active)
    BY <1>1, <1>3, TurnOf, Zenon
  <1>5. slot \div R \in Nat
    BY <1>3, DivMod, Zenon
  <1> HIDE DEF R
  <1>6. turn \in 0 .. (Len(active) - 1)
    BY <1>1, <1>4, <1>5, DivMod, Zenon
  <1> HIDE DEF turn
  <1>7. active[turn + 1] \in Range(active)
    <2>1. turn + 1 \in 1 .. Len(active)
      BY <1>1, <1>6
    <2> QED BY <1>1, <2>1, Zenon
  <1> QED BY <1>1, <1>2, <1>6, <1>7, Zenon DEF active, turn, R

(* The watermark allows no slot before the next one.                        *)
LEMMA OffsetFacts ==
  ASSUME NEW s \in NodeType, NEW p \in Local
  PROVE  MinimumOffset(s, p) \in Nat \ {0}
  <1>1. s.watermark[p] \in Nat /\ s.head \in Branches
    BY Zenon DEF NodeType
  <1>2. Len(s.head) \in Nat
    BY <1>1 DEF Branches
  <1> DEFINE w   == s.watermark[p]
             one == IF s.pending # NoBlock THEN 1 ELSE 0
             num == Len(s.head) + one
  <1>0. one = 0 \/ one = 1
    BY Zenon
  <1> HIDE DEF one
  <1>3. num \in Nat
    BY <1>0, <1>2
  <1>4. MinimumOffset(s, p) = IF w > num THEN w - num + 1 ELSE 1
    BY Zenon DEF MinimumOffset, BlockNum, one
  <1> HIDE DEF w, num
  <1>5. w \in Nat
    BY <1>1, Zenon DEF w
  <1> QED BY <1>3, <1>4, <1>5

(* The slot calculate_next_block_time returns is the first one, from the    *)
(* one the watermark allows, in which the producer has its turn.            *)
LEMMA NextSlotFacts ==
  ASSUME NEW s \in NodeType, NEW p \in Local, p \in Range(ActiveSchedule(s.head)),
         NEW current \in Nat
  PROVE  LET next == CalculateNextBlockSlot(s, p, current)
         IN  /\ next \in Nat /\ next > current
             /\ ScheduledProducer(s.head, next) = p
             /\ \A slot \in Nat : slot >= current + MinimumOffset(s, p)
                                  /\ ScheduledProducer(s.head, slot) = p => next <= slot
  <1> DEFINE active  == ActiveSchedule(s.head)
             L       == Len(active)
             R       == producer_repetitions
             index   == CHOOSE i \in 0 .. L - 1 : active[i + 1] = p
             minimum == current + MinimumOffset(s, p)
             next    == CalculateNextBlockSlot(s, p, current)
  <1>1. s.head \in Branches
    BY Zenon DEF NodeType
  <1>2. /\ L \in Nat \ {0} /\ \A j, k \in 1 .. L : active[j] = active[k] => j = k
        /\ Range(active) = {active[i] : i \in 1 .. L}
    BY <1>1, ActiveFacts, Zenon
  <1>3. R \in Nat \ {0}
    BY LoopAssumption, Zenon
  <1>4. MinimumOffset(s, p) \in Nat \ {0}
    BY OffsetFacts, Zenon
  <1>5. next = FirstSlot(L, R, index, minimum)
    BY Zenon DEF CalculateNextBlockSlot, FirstSlot
  <1>6. \A slot \in Nat :
          LET turn == (slot % (L * R)) \div R
          IN  turn \in 0 .. (L - 1) /\ ScheduledProducer(s.head, slot) = active[turn + 1]
    BY <1>1, TurnFacts, Zenon
  <1>7. p \in {active[i] : i \in 1 .. L}
    BY <1>2, Zenon
  <1> HIDE DEF active, L, R, next
  <1>8. index \in 0 .. L - 1 /\ active[index + 1] = p
    <2>1. \E i \in 0 .. L - 1 : active[i + 1] = p
      <3>1. PICK i \in 1 .. L : active[i] = p
        BY <1>7, Zenon
      <3>2. i - 1 \in 0 .. L - 1 /\ (i - 1) + 1 = i
        BY <1>2
      <3> QED BY <3>1, <3>2, Zenon
    <2> QED BY <2>1, Zenon
  <1> HIDE DEF index
  <1>9. minimum \in Nat /\ minimum > current
    BY <1>4
  <1> HIDE DEF minimum
  <1>10. /\ next \in Nat /\ next >= minimum
         /\ (next % (L * R)) \div R = index
         /\ \A slot \in Nat : slot >= minimum /\ (slot % (L * R)) \div R = index => next <= slot
    BY <1>2, <1>3, <1>5, <1>8, <1>9, FirstSlotIsFirst
  <1>11. next > current
    BY <1>9, <1>10
  <1>12. ScheduledProducer(s.head, next) = p
    BY <1>6, <1>8, <1>10, Zenon
  <1>13. ASSUME NEW slot \in Nat, slot >= minimum, ScheduledProducer(s.head, slot) = p
         PROVE  next <= slot
    <2> DEFINE turn == (slot % (L * R)) \div R
    <2>1. turn \in 0 .. (L - 1) /\ active[turn + 1] = p
      BY <1>6, <1>13, Zenon
    <2> HIDE DEF turn
    <2>2. turn + 1 \in 1 .. L /\ index + 1 \in 1 .. L
      BY <1>2, <1>8, <2>1
    <2>3. turn + 1 = index + 1
      BY <1>2, <1>8, <2>1, <2>2, Zenon
    <2>4. turn = index
      BY <1>8, <2>1, <2>3
    <2> QED BY <1>10, <1>13, <2>4, Zenon DEF turn
  <1> QED BY <1>10, <1>11, <1>12, <1>13, Zenon DEF next, minimum

-----------------------------------------------------------------------------
(* Timers *)

(* What scheduling the loop leaves alone.                                   *)
Keeps(r, s) ==
  /\ r.started = s.started /\ r.enabled = s.enabled /\ r.paused = s.paused
  /\ r.queued = s.queued /\ r.watermark = s.watermark /\ r.lastSigned = s.lastSigned
  /\ r.head = s.head /\ r.known = s.known

(* Setting the timer takes a new correlation id, gives it to the handler    *)
(* and touches nothing else (schedule_production_loop).                     *)
LEMMA SetTimerFacts ==
  ASSUME NEW s \in NodeType, NEW kind \in {"none", "loop", "retry", "produce"},
         NEW at \in Int, NEW slot \in Nat
  PROVE  LET r == SetTimer(s, kind, at, slot)
         IN  /\ r \in NodeType /\ Keeps(r, s) /\ r.mode = s.mode /\ r.pending = s.pending
             /\ r.cid = s.cid + 1 /\ r.timer.cid = r.cid
             /\ r.timer.kind = kind /\ r.timer.at = at /\ r.timer.for = <<slot, s.head>>
  <1> DEFINE t == [kind |-> kind, at |-> at, cid |-> s.cid + 1, for |-> <<slot, s.head>>]
             r == [s EXCEPT !.cid = s.cid + 1, !.timer = t]
  <1>1. s.cid \in Nat /\ s.head \in Branches
    BY Zenon DEF NodeType
  <1>2. s.cid + 1 \in Nat
    BY <1>1
  <1>3. t \in TimerType
    BY <1>1, <1>2, Zenon DEF TimerType
  <1>4. t.cid = s.cid + 1 /\ t.kind = kind /\ t.at = at /\ t.for = <<slot, s.head>>
    BY Zenon
  <1> HIDE DEF t
  <1>5. r \in NodeType /\ Keeps(r, s) /\ r.mode = s.mode /\ r.pending = s.pending
        /\ r.cid = s.cid + 1 /\ r.timer = t
    BY <1>2, <1>3, Zenon DEF NodeType, Keeps
  <1>6. SetTimer(s, kind, at, slot) = r
    BY Zenon DEF SetTimer, t
  <1> HIDE DEF r
  <1> QED BY <1>4, <1>5, <1>6, Zenon

(* The timer of a delayed loop wakes the node for the first own slot.       *)
Wakes(s) ==
  s.timer.kind = "loop" =>
    LET current == s.timer.for[1]
        wake    == s.timer.at \div block_interval
        own     == {slot \in current + 1 .. wake :
                       LET p == ScheduledProducer(s.head, slot)
                       IN  p \in Local /\ slot >= current + MinimumOffset(s, p)}
    IN  own = {} /\ ScheduledProducer(s.head, wake + 1) \in Local

(* The earliest of the own slots is none too early and none too late.       *)
LEMMA EarliestSlot ==
  ASSUME NEW s \in NodeType, NEW current \in Nat,
         Local \cap Range(ActiveSchedule(s.head)) # {}
  PROVE  LET listed == Local \cap Range(ActiveSchedule(s.head))
             wake   == {SlotTime(CalculateNextBlockSlot(s, p, current) - 1) : p \in listed}
         IN  \E w \in Nat :
               /\ Min(wake) = w * block_interval /\ w >= current
               /\ ScheduledProducer(s.head, w + 1) \in Local
               /\ \A slot \in current + 1 .. w :
                    LET p == ScheduledProducer(s.head, slot)
                    IN  ~(p \in Local /\ slot >= current + MinimumOffset(s, p))
  <1> DEFINE listed == Local \cap Range(ActiveSchedule(s.head))
             next(p) == CalculateNextBlockSlot(s, p, current)
             wake   == {SlotTime(next(p) - 1) : p \in listed}
             slots  == {next(p) - 1 : p \in listed}
             I      == block_interval
  <1>0. s.head \in Branches /\ I \in Nat \ {0}
    BY LoopAssumption, Zenon DEF NodeType
  <1>1. \A p \in listed :
          /\ next(p) \in Nat /\ next(p) > current
          /\ ScheduledProducer(s.head, next(p)) = p
          /\ \A slot \in Nat : slot >= current + MinimumOffset(s, p)
                               /\ ScheduledProducer(s.head, slot) = p => next(p) <= slot
    BY NextSlotFacts, Zenon
  <1>2. \A slot \in Nat : ScheduledProducer(s.head, slot) \in Range(ActiveSchedule(s.head))
    BY <1>0, TurnFacts, Zenon
  <1>9. wake = {SlotTime(x) : x \in slots}
    BY Zenon
  <1> HIDE DEF next
  <1>3. slots \subseteq Nat /\ slots # {}
    <2>1. \A p \in listed : next(p) - 1 \in Nat
      BY <1>1
    <2> QED BY <2>1, Zenon
  <1> HIDE DEF slots, wake
  <1>4. PICK w \in slots : \A x \in slots : w <= x
    BY <1>3, LeastNumber, Zenon
  <1>5. PICK p \in listed : w = next(p) - 1
    BY <1>4, Zenon DEF slots
  <1>6. w \in Nat /\ w >= current /\ w + 1 = next(p)
    BY <1>1, <1>3, <1>5
  <1>7. ScheduledProducer(s.head, w + 1) \in Local
    BY <1>1, <1>6, Zenon
  <1>8. Min(wake) = w * I
    <2>1. w * I \in wake
      BY <1>9, Zenon DEF SlotTime
    <2>2. \A y \in wake : y \in Nat /\ w * I <= y
      <3> SUFFICES ASSUME NEW x \in slots PROVE x * I \in Nat /\ w * I <= x * I
        BY <1>9, Zenon DEF SlotTime
      <3>1. x \in Nat /\ w <= x
        BY <1>3, <1>4, Zenon
      <3> QED BY <1>0, <1>6, <3>1, ProductOrder
    <2> DEFINE m == Min(wake)
    <2>3. m \in wake /\ \A y \in wake : m =< y
      BY <2>1, <2>2, Zenon DEF Min
    <2> HIDE DEF m
    <2>4. m <= w * I /\ w * I <= m /\ m \in Nat /\ w * I \in Nat
      BY <2>1, <2>2, <2>3, Zenon
    <2> DEFINE wI == w * I
    <2> HIDE DEF wI
    <2>5. m <= wI /\ wI <= m /\ m \in Nat /\ wI \in Nat
      BY <2>4, Zenon DEF wI
    <2>6. m = wI
      BY <2>5
    <2> QED BY <2>6, Zenon DEF m, wI
  <1>10. ASSUME NEW slot \in current + 1 .. w, NEW q, q = ScheduledProducer(s.head, slot),
                q \in Local, slot >= current + MinimumOffset(s, q)
         PROVE  FALSE
    <2>1. slot \in Nat /\ slot <= w
      BY <1>6
    <2>2. q \in listed
      BY <1>2, <1>10, <2>1, Zenon
    <2>3. next(q) <= slot
      BY <1>1, <1>10, <2>1, <2>2, Zenon
    <2>4. next(q) - 1 \in slots
      BY <2>2, Zenon DEF slots
    <2>5. w <= next(q) - 1 /\ next(q) \in Nat
      BY <1>1, <1>4, <2>2, <2>4, Zenon
    <2> QED BY <1>6, <2>1, <2>3, <2>5
  <1> QED BY <1>6, <1>7, <1>8, <1>10, Zenon DEF wake, next

(* schedule_delayed_production_loop sets the timer unless nobody of the     *)
(* node is scheduled.                                                       *)
LEMMA DelayedFacts ==
  ASSUME NEW s \in NodeType, NEW current \in Nat, s.timer = NoTimer
  PROVE  LET r == ScheduleDelayedProductionLoop(s, current)
         IN  /\ r \in NodeType /\ Keeps(r, s) /\ r.mode = s.mode /\ r.pending = s.pending
             /\ Wakes(r)
             /\ \/ Local \cap Range(ActiveSchedule(s.head)) = {} /\ r.cid = s.cid /\ r.timer = NoTimer
                \/ r.cid = s.cid + 1 /\ r.timer.cid = r.cid /\ r.timer.kind = "loop"
  <1> DEFINE listed == Local \cap Range(ActiveSchedule(s.head))
             wake   == {SlotTime(CalculateNextBlockSlot(s, p, current) - 1) : p \in listed}
             I      == block_interval
             r      == ScheduleDelayedProductionLoop(s, current)
  <1>1. CASE listed = {}
    <2>1. r = s
      BY <1>1, Zenon DEF ScheduleDelayedProductionLoop
    <2>2. s.timer.kind = "none"
      BY DEF NoTimer
    <2> HIDE DEF r
    <2> QED BY <1>1, <2>1, <2>2, Zenon DEF Wakes, Keeps, r
  <1>2. CASE listed # {}
    <2>1. r = SetTimer(s, "loop", Min(wake), current)
      BY <1>2, Zenon DEF ScheduleDelayedProductionLoop
    <2>2. PICK w \in Nat :
               /\ Min(wake) = w * I /\ w >= current
               /\ ScheduledProducer(s.head, w + 1) \in Local
               /\ \A slot \in current + 1 .. w :
                    LET p == ScheduledProducer(s.head, slot)
                    IN  ~(p \in Local /\ slot >= current + MinimumOffset(s, p))
      BY <1>2, EarliestSlot, Zenon
    <2> HIDE DEF wake
    <2>3. I \in Nat \ {0}
      BY LoopAssumption, Zenon
    <2>4. Min(wake) \in Int
      <3>1. w * I \in Nat
        BY <2>3
      <3> QED BY <2>2, <3>1
    <2>5. /\ r \in NodeType /\ Keeps(r, s) /\ r.mode = s.mode /\ r.pending = s.pending
          /\ r.cid = s.cid + 1 /\ r.timer.cid = r.cid
          /\ r.timer.kind = "loop" /\ r.timer.at = Min(wake) /\ r.timer.for = <<current, s.head>>
      BY <2>1, <2>4, SetTimerFacts
    <2> HIDE DEF r
    <2>6. r.timer.at \div I = w
      <3>1. w * I = I * w + 0 /\ 0 \in 0 .. (I - 1)
        BY <2>3
      <3>2. (I * w + 0) \div I = w
        BY <2>3, <3>1, DivUnique, Zenon
      <3> QED BY <2>2, <2>5, <3>1, <3>2, Zenon
    <2>7. r.timer.for[1] = current
      BY <2>5
    <2>8. \A p : MinimumOffset(r, p) = MinimumOffset(s, p)
      BY <2>5, Zenon DEF MinimumOffset, Keeps
    <2>9. r.head = s.head
      BY <2>5, Zenon DEF Keeps
    <2>10. Wakes(r)
      BY <2>2, <2>6, <2>7, <2>8, <2>9, Zenon DEF Wakes
    <2> QED BY <2>5, <2>10, Zenon DEF r
  <1> QED BY <1>1, <1>2, Zenon

-----------------------------------------------------------------------------
(* start_block and schedule_production_loop *)

(* The slot of a new block is later than that of the head.                  *)
LEMMA PendingSlot ==
  ASSUME NEW s \in NodeType, NEW t \in Nat
  PROVE  LET slot == CalculatePendingBlockTime(s, t) \div block_interval
         IN  slot \in Nat \ {0} /\ slot > Tip(s.head).slot
  <1> DEFINE I    == block_interval
             last == Tip(s.head).slot
             base == IF last * I > t THEN last * I ELSE t
             q    == base \div I
             next == (q + 1) * I
             time == CalculatePendingBlockTime(s, t)
  <1>1. I \in Nat \ {0} /\ MinSleep \in Nat
    BY LoopAssumption, Zenon
  <1>2. last \in Nat
    <2>1. s.head \in Seq(BlockType) /\ Len(s.head) > 0
      BY Zenon DEF NodeType, Branches
    <2>2. s.head[Len(s.head)] \in BlockType
      BY <2>1
    <2> QED BY <2>2, Zenon DEF BlockType, Tip
  <1>3. time = next \/ time = next + I
    BY Zenon DEF CalculatePendingBlockTime, HeadTime, SlotTime
  <1> HIDE DEF last, time
  <1>4. base \in Nat /\ last * I \in Nat /\ last * I <= base
    BY <1>1, <1>2
  <1> HIDE DEF base
  <1>5. q \in Nat
    BY <1>1, <1>4, DivMod, Zenon
  <1>6. last <= q
    <2>1. last * I = I * last + 0 /\ 0 \in 0 .. (I - 1)
      BY <1>1, <1>2
    <2>2. (I * last + 0) \div I = last
      BY <1>1, <1>2, <2>1, DivUnique, Zenon
    <2>3. (last * I) \div I <= base \div I
      BY <1>1, <1>4, QuotientOrder, Zenon
    <2> QED BY <2>1, <2>2, <2>3, Zenon
  <1> HIDE DEF q
  <1>7. \A k \in Nat : (k * I) \div I = k
    <2> TAKE k \in Nat
    <2>1. k * I = I * k + 0 /\ 0 \in 0 .. (I - 1)
      BY <1>1
    <2>2. (I * k + 0) \div I = k
      BY <1>1, <2>1, DivUnique, Zenon
    <2> QED BY <2>1, <2>2, Zenon
  <1>8. next + I = (q + 2) * I
    BY <1>1, <1>5
  <1>9. time \div I = q + 1 \/ time \div I = q + 2
    <2>1. q + 1 \in Nat /\ q + 2 \in Nat
      BY <1>5
    <2> QED BY <1>3, <1>7, <1>8, <2>1, Zenon
  <1>10. time \div I \in Nat \ {0} /\ time \div I > last
    <2> DEFINE x == time \div I
    <2>1. x = q + 1 \/ x = q + 2
      BY <1>9, Zenon
    <2> HIDE DEF x
    <2>2. x \in Nat \ {0} /\ x > last
      BY <1>2, <1>5, <1>6, <2>1
    <2> QED BY <2>2, Zenon DEF x
  <1> QED BY <1>10, Zenon DEF time, last

(* blocks_to_confirm stops above the watermark.                             *)
LEMMA ConfirmFacts ==
  ASSUME NEW s \in NodeType, NEW p \in Local, MayProduce(s, p)
  PROVE  LET n == Len(s.head)
             c == BlocksToConfirm(s, p)
         IN  c \in Nat /\ s.watermark[p] <= n /\ s.watermark[p] < n + 1 - c
  <1> DEFINE n == Len(s.head)
             w == s.watermark[p]
             c == BlocksToConfirm(s, p)
  <1>1. n \in Nat /\ w \in Nat
    BY DEF NodeType, Branches
  <1>2. ~(w >= n + 1)
    BY Zenon DEF MayProduce, BlockNum
  <1>3. c = IF w # 0 /\ w < n THEN (n - w) % 65536 ELSE 0
    BY DEF BlocksToConfirm, BlockNum
  <1> HIDE DEF n, w, c
  <1>4. CASE w # 0 /\ w < n
    <2>1. n - w \in Nat
      BY <1>1, <1>4
    <2>2. (n - w) % 65536 <= n - w /\ (n - w) % 65536 \in Nat
      BY <2>1
    <2> QED BY <1>1, <1>2, <1>3, <1>4, <2>1, <2>2, SMTT(20) DEF n, w, c
  <1>5. CASE ~(w # 0 /\ w < n)
    BY <1>1, <1>2, <1>3, <1>5 DEF n, w, c
  <1> QED BY <1>4, <1>5, Zenon

PendingExtends(s) ==
  s.pending # NoBlock => s.pending.prev = s.head /\ s.pending.slot > Tip(s.head).slot

(* A block the node is producing is for a producer of its own, and confirms *)
(* nothing at or below the producer's watermark.                            *)
Entitled(s) ==
  s.mode = "producing" /\ s.pending # NoBlock =>
    LET p == s.pending.producer
    IN  /\ p \in Local /\ s.watermark[p] <= Len(s.head)
        /\ s.watermark[p] < Len(s.head) + 1 - s.pending.confirm

(* Handlers have ids that were handed out.                                  *)
Issued(s) == \A h \in s.queued : h.cid <= s.cid

(* No pending block is a value of the field.                                *)
LEMMA NoBlockType == NoBlock \in PendingType
  <1>1. Genesis.producer \in Producers
    <2>1. Schedules[1] # <<>> /\ Schedules[1] \in Seq(Range(Schedules[1]))
      BY LoopAssumption
    <2>2. Schedules[1][1] \in Range(Schedules[1])
      BY <2>1
    <2> QED BY <2>2, Zenon DEF Genesis, Producers
  <1> QED BY <1>1, Zenon DEF NoBlock, PendingType

(* The parts of schedule_production_loop: the slot and producer of the      *)
(* block, whether the node produces it, the node in that mode, the block    *)
(* and the node with it.                                                    *)
StartSlot(s, t) == CalculatePendingBlockTime(s, t) \div block_interval
StartProducer(s, t) == ScheduledProducer(s.head, StartSlot(s, t))
StartProducing(s, t) == MayProduce(s, StartProducer(s, t))
StartMode(s, t) ==
  [CancelTimer(s) EXCEPT !.mode = IF StartProducing(s, t) THEN "producing" ELSE "speculating"]
StartBlock(s, t) ==
  [slot |-> StartSlot(s, t), producer |-> StartProducer(s, t), prev |-> s.head,
   confirm |-> IF StartProducing(s, t) THEN BlocksToConfirm(s, StartProducer(s, t)) ELSE 0]
Started(s, t, fails) ==
  IF fails THEN AbortBlock(StartMode(s, t)) ELSE [StartMode(s, t) EXCEPT !.pending = StartBlock(s, t)]

(* What start_block makes of the pending block, and what it returns.        *)
LEMMA StartFacts ==
  ASSUME NEW s \in NodeType, NEW t \in Nat, NEW fails \in BOOLEAN
  PROVE  /\ StartSlot(s, t) \in Nat \ {0} /\ StartSlot(s, t) > Tip(s.head).slot
         /\ StartMode(s, t) \in NodeType /\ Keeps(StartMode(s, t), s) /\ StartMode(s, t).pending = s.pending
         /\ StartMode(s, t).timer = NoTimer /\ StartMode(s, t).cid = s.cid
         /\ StartMode(s, t).mode = IF StartProducing(s, t) THEN "producing" ELSE "speculating"
         /\ Started(s, t, fails) \in NodeType /\ Keeps(Started(s, t, fails), s)
         /\ Started(s, t, fails).mode = StartMode(s, t).mode
         /\ Started(s, t, fails).timer = NoTimer /\ Started(s, t, fails).cid = s.cid
         /\ Started(s, t, fails).pending = IF fails THEN NoBlock ELSE StartBlock(s, t)
         /\ StartBlock(s, t) # NoBlock
         /\ StartProducing(s, t) =>
              /\ StartProducer(s, t) \in Local /\ s.watermark[StartProducer(s, t)] <= Len(s.head)
              /\ s.watermark[StartProducer(s, t)] < Len(s.head) + 1 - StartBlock(s, t).confirm
  <1> DEFINE slot      == CalculatePendingBlockTime(s, t) \div block_interval
             producer  == ScheduledProducer(s.head, slot)
             producing == MayProduce(s, producer)
             confirm   == IF producing THEN BlocksToConfirm(s, producer) ELSE 0
             mode      == IF producing THEN "producing" ELSE "speculating"
             m         == [CancelTimer(s) EXCEPT !.mode = mode]
             block     == [slot |-> slot, producer |-> producer, prev |-> s.head, confirm |-> confirm]
             started   == IF fails THEN AbortBlock(m) ELSE [m EXCEPT !.pending = block]
  <1>1. slot \in Nat \ {0} /\ slot > Tip(s.head).slot
    BY PendingSlot, Zenon
  <1>2. s.head \in Branches
    BY Zenon DEF NodeType
  <1> HIDE DEF slot
  <1>3. producer \in Producers
    BY <1>1, <1>2, TurnFacts, Zenon
  <1> HIDE DEF producer
  <1>4. ASSUME producing
        PROVE  /\ producer \in Local /\ s.watermark[producer] <= Len(s.head)
               /\ s.watermark[producer] < Len(s.head) + 1 - confirm /\ confirm \in Nat
    <2>1. producer \in Local
      BY <1>4, Zenon DEF MayProduce
    <2>2. confirm = BlocksToConfirm(s, producer)
      BY <1>4, Zenon
    <2> HIDE DEF confirm
    <2> QED BY <1>4, <2>1, <2>2, ConfirmFacts, Zenon
  <1>5. confirm \in Nat
    <2>1. CASE producing
      BY <1>4, <2>1, Zenon
    <2>2. CASE ~producing
      BY <2>2, Zenon
    <2> QED BY <2>1, <2>2, Zenon
  <1>6. mode \in {"producing", "speculating"}
    BY Zenon
  <1> HIDE DEF confirm, mode, producing
  <1>7. NoTimer \in TimerType
    BY DEF NoTimer, TimerType
  <1>8. NoBlock \in PendingType
    BY NoBlockType, Zenon
  <1>9. block \in PendingType /\ block.confirm = confirm
    BY <1>1, <1>2, <1>3, <1>5, Zenon DEF PendingType
  <1>10. block # NoBlock
    <2>1. block.prev # <<>>
      BY <1>2 DEF Branches
    <2>2. NoBlock.prev = <<>>
      BY Zenon DEF NoBlock
    <2> HIDE DEF block
    <2> QED BY <2>1, <2>2, Zenon
  <1> HIDE DEF block
  <1>11. /\ m \in NodeType /\ Keeps(m, s) /\ m.pending = s.pending
         /\ m.timer = NoTimer /\ m.cid = s.cid /\ m.mode = mode
    BY <1>6, <1>7, Zenon DEF NodeType, Keeps, CancelTimer
  <1> HIDE DEF m
  <1>12. /\ started \in NodeType /\ Keeps(started, s) /\ started.mode = m.mode
         /\ started.timer = NoTimer /\ started.cid = s.cid
         /\ started.pending = IF fails THEN NoBlock ELSE block
    <2>1. CASE fails
      <3>1. started = [m EXCEPT !.pending = NoBlock]
        BY <2>1, Zenon DEF AbortBlock
      <3> HIDE DEF started
      <3> QED BY <1>8, <1>11, <2>1, <3>1, Zenon DEF NodeType, Keeps
    <2>2. CASE ~fails
      <3>1. started = [m EXCEPT !.pending = block]
        BY <2>2, Zenon
      <3> HIDE DEF started
      <3> QED BY <1>9, <1>11, <2>2, <3>1, Zenon DEF NodeType, Keeps
    <2> QED BY <2>1, <2>2, Zenon
  <1>13. /\ StartSlot(s, t) = slot /\ StartProducer(s, t) = producer /\ StartProducing(s, t) = producing
         /\ StartMode(s, t) = m /\ StartBlock(s, t) = block /\ Started(s, t, fails) = started
    BY Zenon DEF StartSlot, StartProducer, StartProducing, StartMode, StartBlock, Started,
                 slot, producer, producing, confirm, mode, m, block
  <1>14. mode = (IF producing THEN "producing" ELSE "speculating")
    BY Zenon DEF mode
  <1> HIDE DEF started
  <1> QED BY <1>1, <1>4, <1>9, <1>10, <1>11, <1>12, <1>13, <1>14, Zenon

-----------------------------------------------------------------------------
(* Some handler that will be obeyed is waiting.                             *)
Live(s) == \E h \in s.queued \cup {s.timer} : h # NoTimer /\ h.cid = s.cid

(* Ids are unique enough: a handler with the current id was set last.  A    *)
(* node that is producing has such a handler even when it is paused, which  *)
(* is why resume need not schedule the loop again.                          *)
Obeyed(s) ==
  /\ \A h \in s.queued \cup {s.timer} :
       /\ h.cid <= s.cid
       /\ h.kind = "produce" /\ h.cid = s.cid /\ s.mode = "producing"
            => h.for = <<s.pending.slot, s.pending.prev>>
  /\ s.mode = "producing" => Live(s)
  /\ s.started /\ ~ProductionDisabledByPolicy(s) /\ Local \cap Range(ActiveSchedule(s.head)) # {}
       => Live(s)

(* Between two handlers.                                                    *)
Settled(s) ==
  /\ s \in NodeType /\ s.head \in s.known
  /\ PendingExtends(s) /\ Entitled(s) /\ Wakes(s) /\ Obeyed(s)

(* A timer with a new id that is the only one obeyed.                       *)
LEMMA NewTimer ==
  ASSUME NEW s \in NodeType, Issued(s), NEW r \in NodeType, r.queued = s.queued,
         r.cid = s.cid + 1, r.timer.cid = r.cid, r.timer.kind # "none",
         r.timer.kind = "produce" => r.timer.for = <<r.pending.slot, r.pending.prev>>
  PROVE  Obeyed(r)
  <1>1. s.cid \in Nat /\ r.cid \in Nat
    BY Zenon DEF NodeType
  <1>2. \A h \in s.queued : h.cid \in Nat
    BY Zenon DEF NodeType, TimerType
  <1>3. \A h \in r.queued : h.cid <= r.cid /\ h.cid # r.cid
    BY <1>1, <1>2 DEF Issued
  <1>4. r.timer # NoTimer
    BY DEF NoTimer
  <1>5. Live(r)
    BY <1>4, Zenon DEF Live
  <1> QED BY <1>1, <1>3, <1>5 DEF Obeyed

(* No timer is set only where the node speculates and may not produce, or   *)
(* has nobody in the schedule.                                              *)
LEMMA NoTimerNeeded ==
  ASSUME NEW s \in NodeType, Issued(s), NEW r \in NodeType, r.queued = s.queued,
         r.cid = s.cid, r.timer = NoTimer, r.mode = "speculating",
         ProductionDisabledByPolicy(r) \/ Local \cap Range(ActiveSchedule(r.head)) = {}
  PROVE  Obeyed(r)
  <1>1. s.cid \in Nat
    BY Zenon DEF NodeType
  <1>2. NoTimer.cid = 0 /\ NoTimer.kind = "none"
    BY Zenon DEF NoTimer
  <1>3. \A h \in r.queued \cup {r.timer} : h.cid <= r.cid
    BY <1>1, <1>2 DEF Issued
  <1> QED BY <1>3, Zenon DEF Obeyed

(* schedule_production_loop leaves the node in good order, whatever its     *)
(* handler had done before.                                                 *)
LEMMA ScheduleFacts ==
  ASSUME NEW s \in NodeType, NEW t \in Nat, NEW u \in Nat, NEW fails \in BOOLEAN,
         s.head \in s.known, PendingExtends(s), Issued(s)
  PROVE  LET r == ScheduleProductionLoop(s, t, u, fails)
         IN  Settled(r) /\ Keeps(r, s)
  <1> DEFINE slot      == StartSlot(s, t)
             producer  == StartProducer(s, t)
             producing == StartProducing(s, t)
             m         == StartMode(s, t)
             block     == StartBlock(s, t)
             started   == Started(s, t, fails)
             deadline  == CalculateBlockDeadline(slot)
             expect    == SlotTime(slot - 1)
             at        == IF deadline > u THEN deadline ELSE IF u >= expect THEN u ELSE expect
             r         == ScheduleProductionLoop(s, t, u, fails)
  <1>1. /\ slot \in Nat \ {0} /\ slot > Tip(s.head).slot
        /\ m \in NodeType /\ Keeps(m, s) /\ m.pending = s.pending
        /\ m.timer = NoTimer /\ m.cid = s.cid
        /\ m.mode = IF producing THEN "producing" ELSE "speculating"
        /\ started \in NodeType /\ Keeps(started, s) /\ started.mode = m.mode
        /\ started.timer = NoTimer /\ started.cid = s.cid
        /\ started.pending = IF fails THEN NoBlock ELSE block
        /\ block # NoBlock
        /\ producing => /\ producer \in Local /\ s.watermark[producer] <= Len(s.head)
                        /\ s.watermark[producer] < Len(s.head) + 1 - block.confirm
    BY StartFacts
  <1>2. block.slot = slot /\ block.prev = s.head /\ block.producer = producer
    BY Zenon DEF StartBlock
  <1>3. r = IF ~producing /\ t - HeadTime(s.head) > MaxHeadAge
            THEN IF ProductionDisabledByPolicy(m) THEN m
                 ELSE ScheduleDelayedProductionLoop(m, slot)
            ELSE IF fails THEN SetTimer(started, "retry", t + MinSleep, slot)
            ELSE IF producing THEN SetTimer(started, "produce", at, slot)
            ELSE IF ProductionDisabledByPolicy(m) THEN started
            ELSE ScheduleDelayedProductionLoop(started, slot)
    BY Zenon DEF ScheduleProductionLoop, StartSlot, StartProducer, StartProducing, StartMode, StartBlock, Started
  <1>4. at \in Int
    <2>1. block_interval \in Nat \ {0} /\ produce_time_offset \in Int /\ last_block_time_offset \in Int
      BY LoopAssumption, Zenon
    <2>2. slot * block_interval \in Nat /\ (slot - 1) * block_interval \in Int
      BY <1>1, <2>1
    <2> DEFINE off == IF slot % producer_repetitions = producer_repetitions - 1
                      THEN last_block_time_offset ELSE produce_time_offset
    <2>3. off \in Int
      BY <2>1, Zenon
    <2> HIDE DEF off, slot
    <2>4. deadline = slot * block_interval + off /\ expect = (slot - 1) * block_interval
      BY Zenon DEF CalculateBlockDeadline, SlotTime, off
    <2> HIDE DEF deadline, expect
    <2>5. deadline \in Int /\ expect \in Int
      BY <2>2, <2>3, <2>4
    <2> QED BY <2>5
  <1>5. t + MinSleep \in Int
    <2>1. MinSleep \in Nat
      BY LoopAssumption, Zenon
    <2> QED BY <2>1
  <1> HIDE DEF slot, producer, producing, m, block, started, at, r
  <1>6. CASE ~producing /\ t - HeadTime(s.head) > MaxHeadAge
    <2>1. m.mode = "speculating"
      BY <1>1, <1>6, Zenon
    <2>2. PendingExtends(m)
      BY <1>1, Zenon DEF PendingExtends, Keeps
    <2>3. CASE ProductionDisabledByPolicy(m)
      <3>1. r = m
        BY <1>3, <1>6, <2>3, Zenon
      <3>2. Wakes(m)
        BY <1>1 DEF Wakes, NoTimer
      <3>3. Obeyed(m)
        BY <1>1, <2>1, <2>3, NoTimerNeeded, Zenon DEF Keeps
      <3> QED BY <1>1, <2>1, <2>2, <3>1, <3>2, <3>3, Zenon DEF Settled, Entitled, Keeps, r
    <2>4. CASE ~ProductionDisabledByPolicy(m)
      <3>1. r = ScheduleDelayedProductionLoop(m, slot)
        BY <1>3, <1>6, <2>4, Zenon
      <3>2. /\ r \in NodeType /\ Keeps(r, m) /\ r.mode = m.mode /\ r.pending = m.pending
            /\ Wakes(r)
            /\ \/ Local \cap Range(ActiveSchedule(m.head)) = {} /\ r.cid = m.cid /\ r.timer = NoTimer
               \/ r.cid = m.cid + 1 /\ r.timer.cid = r.cid /\ r.timer.kind = "loop"
        BY <1>1, <3>1, DelayedFacts
      <3>3. Obeyed(r)
        <4>1. r.queued = s.queued /\ r.head = m.head
          BY <1>1, <3>2, Zenon DEF Keeps
        <4>2. CASE Local \cap Range(ActiveSchedule(m.head)) = {} /\ r.cid = m.cid /\ r.timer = NoTimer
          BY <1>1, <2>1, <3>2, <4>1, <4>2, NoTimerNeeded, Zenon
        <4>3. CASE r.cid = m.cid + 1 /\ r.timer.cid = r.cid /\ r.timer.kind = "loop"
          BY <1>1, <3>2, <4>1, <4>3, NewTimer, Zenon
        <4> QED BY <3>2, <4>2, <4>3, Zenon
      <3>4. PendingExtends(r) /\ Entitled(r) /\ Keeps(r, s)
        BY <1>1, <2>1, <2>2, <3>2, Zenon DEF PendingExtends, Entitled, Keeps
      <3> QED BY <3>2, <3>3, <3>4, Zenon DEF Settled, Keeps, r
    <2> QED BY <2>3, <2>4, Zenon
  <1>7. CASE ~(~producing /\ t - HeadTime(s.head) > MaxHeadAge) /\ fails
    <2>1. r = SetTimer(started, "retry", t + MinSleep, slot)
      BY <1>3, <1>7, Zenon
    <2>2. /\ r \in NodeType /\ Keeps(r, started) /\ r.mode = started.mode /\ r.pending = started.pending
          /\ r.cid = started.cid + 1 /\ r.timer.cid = r.cid /\ r.timer.kind = "retry"
      BY <1>1, <1>5, <2>1, SetTimerFacts
    <2>3. r.queued = s.queued
      BY <1>1, <2>2, Zenon DEF Keeps
    <2>4. Obeyed(r)
      BY <1>1, <2>2, <2>3, NewTimer, Zenon
    <2>5. r.pending = NoBlock
      BY <1>1, <1>7, <2>2, Zenon
    <2>6. PendingExtends(r) /\ Entitled(r) /\ Wakes(r)
      BY <2>2, <2>5, Zenon DEF PendingExtends, Entitled, Wakes
    <2>7. Keeps(r, s)
      BY <1>1, <2>2, Zenon DEF Keeps
    <2> QED BY <2>2, <2>4, <2>6, <2>7, Zenon DEF Settled, Keeps, r
  <1>8. ASSUME ~fails
        PROVE  PendingExtends(started) /\ Entitled(started)
    <2>1. started.pending = block /\ started.head = s.head /\ started.watermark = s.watermark
      BY <1>1, <1>8, Zenon DEF Keeps
    <2>2. PendingExtends(started)
      BY <1>1, <1>2, <2>1, Zenon DEF PendingExtends
    <2>3. started.mode = "producing" => producing
      BY <1>1, Zenon
    <2>4. Entitled(started)
      BY <1>1, <1>2, <2>1, <2>3, Zenon DEF Entitled
    <2> QED BY <2>2, <2>4, Zenon
  <1>9. CASE ~fails /\ producing
    <2>1. r = SetTimer(started, "produce", at, slot)
      BY <1>3, <1>9, Zenon
    <2>2. /\ r \in NodeType /\ Keeps(r, started) /\ r.mode = started.mode /\ r.pending = started.pending
          /\ r.cid = started.cid + 1 /\ r.timer.cid = r.cid /\ r.timer.kind = "produce"
          /\ r.timer.for = <<slot, started.head>>
      BY <1>1, <1>4, <2>1, SetTimerFacts
    <2>3. r.queued = s.queued /\ started.head = s.head
      BY <1>1, <2>2, Zenon DEF Keeps
    <2>4. r.timer.for = <<r.pending.slot, r.pending.prev>>
      BY <1>1, <1>2, <1>9, <2>2, <2>3, Zenon
    <2>5. Obeyed(r)
      BY <1>1, <2>2, <2>3, <2>4, NewTimer, Zenon
    <2>6. PendingExtends(r) /\ Entitled(r) /\ Wakes(r)
      BY <1>8, <1>9, <2>2, Zenon DEF PendingExtends, Entitled, Wakes, Keeps
    <2>7. Keeps(r, s)
      BY <1>1, <2>2, Zenon DEF Keeps
    <2> QED BY <2>2, <2>5, <2>6, <2>7, Zenon DEF Settled, Keeps, r
  <1>10. CASE ~(~producing /\ t - HeadTime(s.head) > MaxHeadAge) /\ ~fails /\ ~producing
    <2>1. started.mode = "speculating"
      BY <1>1, <1>10, Zenon
    <2>2. ProductionDisabledByPolicy(m) = ProductionDisabledByPolicy(started)
      BY <1>1, Zenon DEF Keeps, ProductionDisabledByPolicy
    <2>3. CASE ProductionDisabledByPolicy(m)
      <3>1. r = started
        BY <1>3, <1>10, <2>3, Zenon
      <3>2. Wakes(started)
        BY <1>1 DEF Wakes, NoTimer
      <3>3. Obeyed(started)
        BY <1>1, <2>1, <2>2, <2>3, NoTimerNeeded, Zenon DEF Keeps
      <3> QED BY <1>1, <1>8, <1>10, <3>1, <3>2, <3>3, Zenon DEF Settled, Keeps, r
    <2>4. CASE ~ProductionDisabledByPolicy(m)
      <3>1. r = ScheduleDelayedProductionLoop(started, slot)
        BY <1>3, <1>10, <2>4, Zenon
      <3>2. /\ r \in NodeType /\ Keeps(r, started) /\ r.mode = started.mode /\ r.pending = started.pending
            /\ Wakes(r)
            /\ \/ Local \cap Range(ActiveSchedule(started.head)) = {} /\ r.cid = started.cid /\ r.timer = NoTimer
               \/ r.cid = started.cid + 1 /\ r.timer.cid = r.cid /\ r.timer.kind = "loop"
        BY <1>1, <3>1, DelayedFacts
      <3>3. Obeyed(r)
        <4>1. r.queued = s.queued /\ r.head = started.head
          BY <1>1, <3>2, Zenon DEF Keeps
        <4>2. CASE Local \cap Range(ActiveSchedule(started.head)) = {} /\ r.cid = started.cid /\ r.timer = NoTimer
          BY <1>1, <2>1, <3>2, <4>1, <4>2, NoTimerNeeded, Zenon
        <4>3. CASE r.cid = started.cid + 1 /\ r.timer.cid = r.cid /\ r.timer.kind = "loop"
          BY <1>1, <3>2, <4>1, <4>3, NewTimer, Zenon
        <4> QED BY <3>2, <4>2, <4>3, Zenon
      <3>4. PendingExtends(r) /\ Entitled(r) /\ Keeps(r, s)
        BY <1>1, <1>8, <1>10, <2>1, <3>2, Zenon DEF PendingExtends, Entitled, Keeps
      <3> QED BY <3>2, <3>3, <3>4, Zenon DEF Settled, Keeps, r
    <2> QED BY <2>3, <2>4, Zenon
  <1> QED BY <1>6, <1>7, <1>9, <1>10, Zenon

-----------------------------------------------------------------------------
(* on_block *)

(* Everything but the watermarks and the last signed block stays.           *)
Observed(r, s) ==
  /\ r \in NodeType
  /\ r.started = s.started /\ r.enabled = s.enabled /\ r.paused = s.paused /\ r.mode = s.mode
  /\ r.pending = s.pending /\ r.timer = s.timer /\ r.queued = s.queued /\ r.cid = s.cid
  /\ r.head = s.head /\ r.known = s.known

(* The second schedule brings this node no producer that it has not yet.    *)
NoNewcomer == Local \cap Range(Schedules[2]) \subseteq Range(Schedules[1])

(* on_block changes nothing but the last signed block and the watermarks,   *)
(* and the watermarks only for a producer the promoted schedule brings in.  *)
LEMMA OnBlockFacts ==
  ASSUME NEW s \in NodeType, NEW branch \in Branches
  PROVE  LET r == OnBlock(s, branch)
         IN  Observed(r, s) /\ (NoNewcomer => r.watermark = s.watermark)
  <1> DEFINE block     == Tip(branch)
             active    == Range(ActiveSchedule(branch))
             promotes  == block.ready /\ ActiveSchedule(branch) = Schedules[1]
             installed == Local \cap (Range(Schedules[2]) \ active)
             confirms  == (Local \cap active) \ {block.producer} # {}
             last == IF confirms THEN [slot |-> block.slot, num |-> Len(branch)] ELSE s.lastSigned
             marks == [p \in Local |-> IF promotes /\ p \in installed THEN Len(branch) ELSE s.watermark[p]]
             r == OnBlock(s, branch)
  <1>1. r = s \/ r = [s EXCEPT !.lastSigned = last, !.watermark = marks]
    BY Zenon DEF OnBlock, BlockNum
  <1>2. Len(branch) \in Nat /\ block \in BlockType
    <2>1. branch \in Seq(BlockType) /\ Len(branch) > 0
      BY Zenon DEF Branches
    <2> QED BY <2>1 DEF Tip
  <1>3. s.watermark \in [Local -> Nat] /\ s.lastSigned \in [slot : Nat, num : Nat]
    BY Zenon DEF NodeType
  <1>4. last \in [slot : Nat, num : Nat]
    <2>1. block.slot \in Nat
      BY <1>2, Zenon DEF BlockType
    <2> HIDE DEF block, confirms
    <2> QED BY <1>2, <1>3, <2>1, Zenon
  <1>5. marks \in [Local -> Nat]
    <2> HIDE DEF promotes, installed
    <2> QED BY <1>2, <1>3, Zenon
  <1>6. NoNewcomer => marks = s.watermark
    <2> SUFFICES ASSUME NoNewcomer, NEW p \in Local PROVE ~(promotes /\ p \in installed)
      <3> HIDE DEF promotes, installed
      <3> QED BY <1>3, Zenon
    <2> QED BY Zenon DEF NoNewcomer
  <1> HIDE DEF last, marks, r
  <1>7. CASE r = s
    BY <1>7, Zenon DEF Observed, r
  <1>8. CASE r = [s EXCEPT !.lastSigned = last, !.watermark = marks]
    BY <1>4, <1>5, <1>6, <1>8, Zenon DEF Observed, NodeType, r
  <1> QED BY <1>1, <1>7, <1>8, Zenon

(* What one on_block leaves alone, several leave alone.                     *)
LEMMA ObservedTrans ==
  ASSUME NEW a, NEW b, NEW c, Observed(a, b), Observed(b, c)
  PROVE  Observed(a, c)
  BY Zenon DEF Observed

(* The states between the common block and the new head, one for each       *)
(* block that is applied.                                                   *)
After(g, s, to, k, m) ==
  g = [n \in k .. m |-> IF n = k THEN s ELSE OnBlock(g[n - 1], SubSeq(to, 1, n))]

(* The states of a fork switch exist, however many blocks it applies.       *)
LEMMA AfterExists ==
  ASSUME NEW s, NEW to, NEW k \in Nat, NEW m \in Nat, k <= m
  PROVE  \E g : After(g, s, to, k, m)
  <1> DEFINE bad == {i \in k .. m : ~\E g : After(g, s, to, k, i)}
  <1> SUFFICES ASSUME bad # {} PROVE FALSE
    OBVIOUS
  <1>1. bad \subseteq Nat
    OBVIOUS
  <1>2. PICK i \in bad : \A x \in bad : i <= x
    BY <1>1, LeastNumber, Zenon
  <1>3. i \in k .. m /\ ~\E g : After(g, s, to, k, i)
    BY <1>2, Zenon
  <1>4. CASE i = k
    <2> DEFINE g == [n \in k .. i |-> s]
    <2>1. After(g, s, to, k, i)
      BY <1>4 DEF After
    <2> QED BY <1>3, <2>1, Zenon
  <1>5. CASE i # k
    <2>1. i - 1 \in k .. m /\ i - 1 \notin bad
      <3>1. i - 1 \in k .. m /\ ~(i <= i - 1)
        BY <1>3, <1>5
      <3> QED BY <1>2, <3>1, Zenon
    <2>2. PICK h : After(h, s, to, k, i - 1)
      BY <2>1, Zenon
    <2> DEFINE g == [n \in k .. i |-> IF n = i THEN OnBlock(h[i - 1], SubSeq(to, 1, i)) ELSE h[n]]
    <2>3. \A n \in k .. i : g[n] = IF n = k THEN s ELSE OnBlock(g[n - 1], SubSeq(to, 1, n))
      <3> TAKE n \in k .. i
      <3>1. CASE n = i
        <4>1. n - 1 \in k .. i /\ n - 1 # i /\ n # k
          BY <1>3, <1>5, <3>1
        <4>2. g[n - 1] = h[i - 1]
          BY <3>1, <4>1, Zenon
        <4>3. g[n] = OnBlock(h[i - 1], SubSeq(to, 1, i))
          BY <3>1, Zenon
        <4> HIDE DEF g
        <4> QED BY <3>1, <4>1, <4>2, <4>3, Zenon
      <3>2. CASE n # i /\ n = k
        <4>1. h[n] = s
          BY <1>3, <1>5, <2>2, <3>2 DEF After
        <4> QED BY <3>2, <4>1, Zenon
      <3>3. CASE n # i /\ n # k
        <4>1. n \in k .. (i - 1) /\ n - 1 \in k .. i /\ n - 1 # i
          BY <1>3, <3>3
        <4>2. h[n] = OnBlock(h[n - 1], SubSeq(to, 1, n))
          BY <2>2, <3>3, <4>1, Zenon DEF After
        <4>3. g[n] = h[n] /\ g[n - 1] = h[n - 1]
          BY <3>3, <4>1, Zenon
        <4> HIDE DEF g
        <4> QED BY <3>3, <4>2, <4>3, Zenon
      <3> QED BY <3>1, <3>2, <3>3, Zenon
    <2>4. g = [n \in k .. i |-> g[n]]
      BY Zenon
    <2> HIDE DEF g
    <2>5. After(g, s, to, k, i)
      BY <2>3, <2>4, Zenon DEF After
    <2> QED BY <1>3, <2>5, Zenon
  <1> QED BY <1>4, <1>5, Zenon

(* A prefix of a branch is a branch.                                        *)
LEMMA PrefixFacts ==
  ASSUME NEW b \in Branches, NEW n \in 1 .. Len(b)
  PROVE  LET p == SubSeq(b, 1, n) IN p \in Branches /\ Len(p) = n /\ p[1] = Genesis
  <1> DEFINE p == SubSeq(b, 1, n)
  <1>1. b \in Seq(BlockType) /\ Len(b) \in Nat /\ b[1] = Genesis
    BY DEF Branches
  <1>2. n \in Int /\ 1 <= n /\ \A i \in 1 .. n : b[i] \in BlockType
    BY <1>1
  <1>3. Len(p) = n
    BY <1>1, <1>2
  <1>4. \A i \in 1 .. n : p[i] = b[i]
    BY <1>1, <1>2
  <1>6. p \in Seq(BlockType) /\ p[1] = b[1]
    BY <1>1, <1>2, <1>4
  <1> HIDE DEF p
  <1>5. p \in Branches
    BY <1>1, <1>2, <1>3, <1>6 DEF Branches
  <1> QED BY <1>1, <1>3, <1>5, <1>6, Zenon DEF p

(* A fork switch changes what one on_block may change, however many blocks  *)
(* it applies.                                                              *)
LEMMA AfterFacts ==
  ASSUME NEW s \in NodeType, NEW to \in Branches, NEW k \in 1 .. Len(to),
         NEW g, After(g, s, to, k, Len(to))
  PROVE  /\ Observed(g[Len(to)], s)
         /\ NoNewcomer => g[Len(to)].watermark = s.watermark
  <1> DEFINE m == Len(to)
             Fine(n) == Observed(g[n], s) /\ (NoNewcomer => g[n].watermark = s.watermark)
             bad == {n \in k .. m : ~Fine(n)}
  <1>1. m \in Nat /\ k \in Nat /\ k <= m /\ to \in Seq(BlockType) /\ to[1] = Genesis
    BY DEF Branches
  <1>2. bad \subseteq Nat
    BY <1>1
  <1>3. \A n \in k .. m : g[n] = IF n = k THEN s ELSE OnBlock(g[n - 1], SubSeq(to, 1, n))
    BY Zenon DEF After
  <1> SUFFICES ASSUME bad # {} PROVE FALSE
    BY <1>1
  <1>4. PICK i \in bad : \A x \in bad : i <= x
    BY <1>2, LeastNumber, Zenon
  <1> HIDE DEF m, Fine
  <1>5. i \in k .. m /\ ~Fine(i)
    BY <1>4, Zenon
  <1>6. i # k
    <2>1. Observed(s, s)
      BY Zenon DEF Observed
    <2>2. Fine(k)
      BY <1>1, <1>3, <2>1 DEF Fine
    <2> QED BY <1>5, <2>2, Zenon
  <1>7. i - 1 \in k .. m /\ ~(i <= i - 1) /\ i \in 1 .. m
    BY <1>1, <1>5, <1>6
  <1>8. Fine(i - 1)
    BY <1>4, <1>7, Zenon
  <1>9. g[i] = OnBlock(g[i - 1], SubSeq(to, 1, i))
    BY <1>3, <1>5, <1>6, Zenon
  <1>10. g[i - 1] \in NodeType
    BY <1>8, Zenon DEF Fine, Observed
  <1>11. SubSeq(to, 1, i) \in Branches
    BY <1>7, PrefixFacts, Zenon DEF m
  <1>12. /\ Observed(g[i], g[i - 1])
         /\ NoNewcomer => g[i].watermark = g[i - 1].watermark
    BY <1>9, <1>10, <1>11, OnBlockFacts, Zenon
  <1>13. Fine(i)
    BY <1>8, <1>12, ObservedTrans, Zenon DEF Fine
  <1> QED BY <1>5, <1>13, Zenon

(* Two branches share at least the genesis block.                           *)
LEMMA CommonPrefixFacts ==
  ASSUME NEW b \in Branches, NEW c \in Branches
  PROVE  CommonPrefix(b, c) \in 1 .. Len(c)
  <1> DEFINE F == {n \in 1 .. Len(c) : n <= Len(b) /\ SubSeq(b, 1, n) = SubSeq(c, 1, n)}
             N == Len(c)
             G == {N - n : n \in F}
  <1>1. /\ b \in Seq(BlockType) /\ Len(b) > 0 /\ b[1] = Genesis
        /\ c \in Seq(BlockType) /\ N \in Nat /\ N > 0 /\ c[1] = Genesis
    BY DEF Branches
  <1>2. 1 \in F
    <2> DEFINE x == SubSeq(b, 1, 1)
               y == SubSeq(c, 1, 1)
    <2>1. 1 \in 1 .. Len(b) /\ 1 \in 1 .. Len(c)
      BY <1>1
    <2>2. x \in Branches /\ y \in Branches /\ Len(x) = 1 /\ Len(y) = 1
          /\ x[1] = Genesis /\ y[1] = Genesis
      BY <2>1, PrefixFacts, Zenon
    <2> HIDE DEF x, y
    <2>3. x \in Seq(BlockType) /\ y \in Seq(BlockType) /\ \A i \in 1 .. Len(x) : x[i] = y[i]
      BY <2>2 DEF Branches
    <2>4. x = y
      BY <2>2, <2>3
    <2> QED BY <1>1, <2>1, <2>4 DEF x, y
  <1>3. F \subseteq 1 .. N
    BY Zenon
  <1>6. CommonPrefix(b, c) = Max(F)
    BY Zenon DEF CommonPrefix
  <1> HIDE DEF F, N
  <1>4. G \subseteq Nat /\ G # {}
    BY <1>1, <1>2, <1>3
  <1>5. PICK g \in G : \A x \in G : g <= x
    <2> HIDE DEF G
    <2> QED BY <1>4, LeastNumber, Zenon
  <1>7. PICK n \in F : g = N - n
    BY <1>5, Zenon
  <1>8. \A y \in F : n >= y
    <2> TAKE y \in F
    <2>1. N - n <= N - y
      BY <1>5, <1>7, Zenon
    <2> QED BY <1>1, <1>3, <2>1
  <1>9. Max(F) \in F
    BY <1>8, Zenon DEF Max
  <1> QED BY <1>3, <1>6, <1>9, Zenon DEF N

(* A fork switch calls on_block for every block of the new branch.          *)
LEMMA OnBlocksFacts ==
  ASSUME NEW s \in NodeType, NEW from \in Branches, NEW to \in Branches
  PROVE  LET r == OnBlocks(s, from, to)
         IN  Observed(r, s) /\ (NoNewcomer => r.watermark = s.watermark)
  <1> DEFINE k == CommonPrefix(from, to)
             m == Len(to)
             after == CHOOSE g : After(g, s, to, k, m)
  <1>1. k \in 1 .. m /\ m \in Nat
    BY CommonPrefixFacts DEF Branches
  <1>2. OnBlocks(s, from, to) = after[m]
    BY Zenon DEF OnBlocks, After
  <1> HIDE DEF k
  <1>3. After(after, s, to, k, m)
    <2>1. k \in Nat /\ k <= m
      BY <1>1
    <2>2. \E g : After(g, s, to, k, m)
      BY <1>1, <2>1, AfterExists, Zenon
    <2> QED BY <2>2, Zenon
  <1> HIDE DEF after
  <1> QED BY <1>1, <1>2, <1>3, AfterFacts

-----------------------------------------------------------------------------
(* The handlers *)

(* A handler may end with schedule_production_loop.                         *)
Ready(s) == s \in NodeType /\ s.head \in s.known /\ PendingExtends(s) /\ Issued(s)

NInv ==
  /\ Settled(node)
  /\ now \in 0 .. MaxTime /\ faults \in 0 .. MaxFaults /\ pauses \in 0 .. MaxPauses

(* The step signs nothing, and moves no watermark unless a new schedule     *)
(* brings newcomers.                                                        *)
SignsNothing == UNCHANGED signed /\ (NoNewcomer => node'.watermark = node.watermark)

(* The bounds are numbers.                                                  *)
LEMMA BoundsAreNat == MaxTime \in Nat /\ MaxFaults \in Nat /\ MaxPauses \in Nat
  BY LoopAssumption, Zenon

(* Every handler that ends in schedule_production_loop leaves a settled     *)
(* node.                                                                    *)
LEMMA ThenScheduleFacts ==
  ASSUME now \in 0 .. MaxTime, faults \in 0 .. MaxFaults, NEW s, Ready(s),
         NEW failed \in 0 .. 1, ThenSchedule(s, failed)
  PROVE  /\ Settled(node') /\ Keeps(node', s)
         /\ now' \in 0 .. MaxTime /\ faults' \in 0 .. MaxFaults
  <1>1. PICK u \in Spending, fails \in 0 .. 1 :
          /\ now + u <= MaxTime /\ now' = now + u
          /\ faults' = faults + failed + fails /\ faults' <= MaxFaults
          /\ node' = ScheduleProductionLoop(s, now, now + u, fails = 1)
    BY Zenon DEF ThenSchedule
  <1>2. u \in Nat /\ now \in Nat /\ now + u \in Nat
    BY BoundsAreNat DEF Spending
  <1>3. (fails = 1) \in BOOLEAN
    BY Zenon
  <1>4. Settled(node') /\ Keeps(node', s)
    BY <1>1, <1>2, <1>3, ScheduleFacts, Zenon DEF Ready
  <1>5. now' \in 0 .. MaxTime
    BY <1>1, <1>2, BoundsAreNat
  <1>6. faults' \in 0 .. MaxFaults
    BY <1>1, BoundsAreNat
  <1> QED BY <1>4, <1>5, <1>6, Zenon

(* A node between two handlers may schedule the loop, also once the pending *)
(* block is aborted.                                                        *)
LEMMA SettledReady ==
  ASSUME NEW s, Settled(s)
  PROVE  Ready(s)
  BY Zenon DEF Settled, Ready, Obeyed, Issued

(* abort_block drops the pending block and nothing else.                    *)
LEMMA AbortReady ==
  ASSUME NEW s, Ready(s)
  PROVE  /\ Ready(AbortBlock(s)) /\ Keeps(AbortBlock(s), s) /\ AbortBlock(s).pending = NoBlock
         /\ AbortBlock(s).mode = s.mode /\ AbortBlock(s).timer = s.timer /\ AbortBlock(s).cid = s.cid
  <1> DEFINE r == [s EXCEPT !.pending = NoBlock]
  <1>1. r \in NodeType /\ Keeps(r, s) /\ r.pending = NoBlock
        /\ r.mode = s.mode /\ r.timer = s.timer /\ r.cid = s.cid
    BY NoBlockType, Zenon DEF Ready, NodeType, Keeps
  <1>2. AbortBlock(s) = r
    BY Zenon DEF AbortBlock
  <1> HIDE DEF r
  <1>3. Ready(r)
    BY <1>1, Zenon DEF Ready, PendingExtends, Issued, Keeps
  <1> QED BY <1>1, <1>2, <1>3, Zenon

(* plugin_startup keeps the invariant.                                      *)
LEMMA StartupFacts ==
  ASSUME NInv, Startup
  PROVE  NInv' /\ SignsNothing
  <1> DEFINE s == [node EXCEPT !.started = TRUE]
  <1>1. ThenSchedule(s, 0) /\ UNCHANGED <<signed, pauses>>
    BY Zenon DEF Startup
  <1>2. Ready(node)
    BY SettledReady, Zenon DEF NInv
  <1>3. Ready(s)
    <2>1. s \in NodeType /\ s.head = node.head /\ s.known = node.known /\ s.pending = node.pending
          /\ s.queued = node.queued /\ s.cid = node.cid
      BY <1>2, Zenon DEF Ready, NodeType
    <2> HIDE DEF s
    <2> QED BY <1>2, <2>1, Zenon DEF Ready, PendingExtends, Issued
  <1>5. s.watermark = node.watermark
    BY <1>2, Zenon DEF Ready, NodeType
  <1> HIDE DEF s
  <1>4. /\ Settled(node') /\ now' \in 0 .. MaxTime /\ faults' \in 0 .. MaxFaults /\ Keeps(node', s)
    BY <1>1, <1>3, ThenScheduleFacts DEF NInv
  <1> QED BY <1>1, <1>4, <1>5, Zenon DEF NInv, SignsNothing, Keeps

(* An expiring timer only queues its handler, with the id that handler      *)
(* captured.                                                                *)
LEMMA TimerExpiresFacts ==
  ASSUME NInv, TimerExpires
  PROVE  NInv' /\ SignsNothing
  <1>1. /\ node' = [node EXCEPT !.timer = NoTimer, !.queued = @ \cup {node.timer}]
        /\ UNCHANGED <<now, signed, faults, pauses>> /\ node.timer # NoTimer
    BY Zenon DEF TimerExpires
  <1>2. node \in NodeType /\ node.head \in node.known /\ PendingExtends(node) /\ Entitled(node)
        /\ Wakes(node) /\ Obeyed(node)
    BY Zenon DEF NInv, Settled
  <1>3. NoTimer \in TimerType /\ NoTimer.kind = "none" /\ NoTimer.cid = 0
    BY DEF NoTimer, TimerType
  <1>4. node.timer \in TimerType
    BY <1>2, Zenon DEF NodeType
  <1> DEFINE r == node'
  <1>5. /\ r \in NodeType /\ r.timer = NoTimer /\ r.queued = node.queued \cup {node.timer}
        /\ r.cid = node.cid /\ r.mode = node.mode /\ r.pending = node.pending
        /\ r.started = node.started /\ r.enabled = node.enabled /\ r.paused = node.paused
        /\ r.head = node.head /\ r.known = node.known /\ r.watermark = node.watermark
    BY <1>1, <1>2, <1>3, <1>4, Zenon DEF NodeType
  <1> HIDE DEF r
  <1>6. Wakes(r)
    BY <1>3, <1>5, Zenon DEF Wakes
  <1>7. PendingExtends(r) /\ Entitled(r)
    BY <1>2, <1>5, Zenon DEF PendingExtends, Entitled
  <1>8. Live(node) => Live(r)
    BY <1>5, Zenon DEF Live
  <1>9. node.cid \in Nat
    BY <1>2, Zenon DEF NodeType
  <1>10. Obeyed(r)
    <2>1. ASSUME NEW h \in r.queued \cup {r.timer}
          PROVE  /\ h.cid <= r.cid
                 /\ h.kind = "produce" /\ h.cid = r.cid /\ r.mode = "producing"
                      => h.for = <<r.pending.slot, r.pending.prev>>
      <3>1. CASE h = NoTimer
        BY <1>3, <1>5, <1>9, <3>1
      <3>2. CASE h \in node.queued \cup {node.timer}
        BY <1>2, <1>5, <3>2, Zenon DEF Obeyed
      <3> QED BY <1>5, <2>1, <3>1, <3>2, Zenon
    <2>2. r.mode = "producing" => Live(r)
      BY <1>2, <1>5, <1>8, Zenon DEF Obeyed
    <2>3. r.started /\ ~ProductionDisabledByPolicy(r) /\ Local \cap Range(ActiveSchedule(r.head)) # {}
            => Live(r)
      BY <1>2, <1>5, <1>8, Zenon DEF Obeyed, ProductionDisabledByPolicy
    <2> QED BY <2>1, <2>2, <2>3, Zenon DEF Obeyed
  <1>11. Settled(node')
    BY <1>2, <1>5, <1>6, <1>7, <1>10, Zenon DEF Settled, r
  <1>12. node'.watermark = node.watermark
    BY <1>5, Zenon DEF r
  <1> QED BY <1>1, <1>11, <1>12, Zenon DEF NInv, SignsNothing

(* pause and resume change one flag.  Only a node that is producing, and    *)
(* therefore has a timer, resumes without scheduling the loop.              *)
LEMMA PausedFacts ==
  ASSUME NEW s, Settled(s), NEW b \in BOOLEAN
  PROVE  LET r == [s EXCEPT !.paused = b]
         IN  /\ Ready(r) /\ r.watermark = s.watermark /\ r.mode = s.mode
             /\ b \/ s.mode = "producing" => Settled(r)
  <1> DEFINE r == [s EXCEPT !.paused = b]
  <1>1. s \in NodeType /\ s.head \in s.known /\ PendingExtends(s) /\ Entitled(s) /\ Wakes(s) /\ Obeyed(s)
    BY Zenon DEF Settled
  <1>2. /\ r \in NodeType /\ r.timer = s.timer /\ r.queued = s.queued /\ r.paused = b
        /\ r.cid = s.cid /\ r.mode = s.mode /\ r.pending = s.pending
        /\ r.head = s.head /\ r.known = s.known /\ r.watermark = s.watermark
    BY <1>1, Zenon DEF NodeType
  <1> HIDE DEF r
  <1>3. PendingExtends(r) /\ Entitled(r) /\ Issued(r)
    BY <1>1, <1>2, Zenon DEF PendingExtends, Entitled, Obeyed, Issued
  <1>4. Wakes(r)
    <2>1. \A p : MinimumOffset(r, p) = MinimumOffset(s, p)
      BY <1>2, Zenon DEF MinimumOffset
    <2> QED BY <1>1, <1>2, <2>1, Zenon DEF Wakes
  <1>5. Live(r) = Live(s)
    BY <1>2, Zenon DEF Live
  <1>6. ASSUME b \/ s.mode = "producing" PROVE Obeyed(r)
    <2>1. b => ProductionDisabledByPolicy(r)
      BY <1>2, Zenon DEF ProductionDisabledByPolicy
    <2>2. r.mode = "producing" => Live(r)
      BY <1>1, <1>2, <1>5, Zenon DEF Obeyed
    <2>3. \A h \in r.queued \cup {r.timer} :
            /\ h.cid <= r.cid
            /\ h.kind = "produce" /\ h.cid = r.cid /\ r.mode = "producing"
                 => h.for = <<r.pending.slot, r.pending.prev>>
      BY <1>1, <1>2, Zenon DEF Obeyed
    <2>4. ~ProductionDisabledByPolicy(r) => Live(r)
      BY <1>2, <1>6, <2>1, <2>2, Zenon
    <2> QED BY <2>2, <2>3, <2>4, Zenon DEF Obeyed
  <1>7. Ready(r)
    BY <1>1, <1>2, <1>3, Zenon DEF Ready
  <1>8. b \/ s.mode = "producing" => Settled(r)
    BY <1>1, <1>2, <1>3, <1>4, <1>6, Zenon DEF Settled
  <1> QED BY <1>2, <1>7, <1>8, Zenon DEF r

(* pause keeps the invariant: the timer and the pending block stay.         *)
LEMMA PauseFacts ==
  ASSUME NInv, Pause
  PROVE  NInv' /\ SignsNothing
  <1>1. /\ node' = [node EXCEPT !.paused = TRUE] /\ pauses < MaxPauses /\ pauses' = pauses + 1
        /\ UNCHANGED <<now, signed, faults>>
    BY Zenon DEF Pause
  <1>2. Settled(node)
    BY Zenon DEF NInv
  <1>3. Settled(node') /\ node'.watermark = node.watermark
    <2> DEFINE r == [node EXCEPT !.paused = TRUE]
    <2>1. Settled(r) /\ r.watermark = node.watermark
      BY <1>2, PausedFacts, Zenon
    <2> HIDE DEF r
    <2> QED BY <1>1, <2>1, Zenon DEF r
  <1>4. pauses' \in 0 .. MaxPauses
    BY <1>1, BoundsAreNat DEF NInv
  <1> QED BY <1>1, <1>3, <1>4, Zenon DEF NInv, SignsNothing

(* resume keeps the invariant, whether or not it restarts the loop.         *)
LEMMA ResumeFacts ==
  ASSUME NInv, Resume
  PROVE  NInv' /\ SignsNothing
  <1> DEFINE s == [node EXCEPT !.paused = FALSE]
  <1>1. /\ IF s.mode = "speculating" THEN ThenSchedule(AbortBlock(s), 0)
           ELSE node' = s /\ UNCHANGED <<now, faults>>
        /\ UNCHANGED <<signed, pauses>>
    BY Zenon DEF Resume
  <1>2. Settled(node) /\ node.mode \in {"producing", "speculating"}
    BY Zenon DEF NInv, Settled, NodeType
  <1>3. Ready(s) /\ s.watermark = node.watermark /\ s.mode = node.mode
        /\ (node.mode = "producing" => Settled(s))
    BY <1>2, PausedFacts, Zenon
  <1> HIDE DEF s
  <1>4. CASE s.mode = "speculating"
    <2>1. Ready(AbortBlock(s)) /\ Keeps(AbortBlock(s), s)
      BY <1>3, AbortReady, Zenon
    <2>2. ThenSchedule(AbortBlock(s), 0)
      BY <1>1, <1>4, Zenon
    <2> DEFINE r == AbortBlock(s)
    <2> HIDE DEF r
    <2>3. /\ Settled(node') /\ now' \in 0 .. MaxTime /\ faults' \in 0 .. MaxFaults /\ Keeps(node', r)
      BY <2>1, <2>2, ThenScheduleFacts DEF NInv, r
    <2>4. node'.watermark = node.watermark
      BY <1>3, <2>1, <2>3, Zenon DEF Keeps, r
    <2> QED BY <1>1, <2>3, <2>4, Zenon DEF NInv, SignsNothing
  <1>5. CASE s.mode # "speculating"
    <2>1. node' = s /\ UNCHANGED <<now, faults>> /\ Settled(s)
      BY <1>1, <1>2, <1>3, <1>5, Zenon
    <2> QED BY <1>1, <1>3, <2>1, Zenon DEF NInv, SignsNothing
  <1> QED BY <1>4, <1>5, Zenon

(* A handler leaves the queue; one with an old id does nothing else.        *)
LEMMA DequeueFacts ==
  ASSUME NEW s, Settled(s), NEW h \in s.queued
  PROVE  LET r == [s EXCEPT !.queued = @ \ {h}]
         IN  /\ Ready(r) /\ r.watermark = s.watermark /\ r.mode = s.mode /\ r.pending = s.pending
             /\ r.head = s.head /\ Entitled(r)
             /\ h.cid # s.cid => Settled(r)
  <1> DEFINE r == [s EXCEPT !.queued = s.queued \ {h}]
  <1>1. s \in NodeType /\ s.head \in s.known /\ PendingExtends(s) /\ Entitled(s) /\ Wakes(s) /\ Obeyed(s)
    BY Zenon DEF Settled
  <1>2. /\ r \in NodeType /\ r.timer = s.timer /\ r.queued = s.queued \ {h}
        /\ r.started = s.started /\ r.enabled = s.enabled /\ r.paused = s.paused
        /\ r.cid = s.cid /\ r.mode = s.mode /\ r.pending = s.pending
        /\ r.head = s.head /\ r.known = s.known /\ r.watermark = s.watermark
    BY <1>1, Zenon DEF NodeType
  <1>0. [s EXCEPT !.queued = @ \ {h}] = r
    BY Zenon
  <1> HIDE DEF r
  <1>3. PendingExtends(r) /\ Entitled(r) /\ Issued(r)
    BY <1>1, <1>2, Zenon DEF PendingExtends, Entitled, Obeyed, Issued
  <1>4. Wakes(r)
    <2>1. \A p : MinimumOffset(r, p) = MinimumOffset(s, p)
      BY <1>2, Zenon DEF MinimumOffset
    <2> QED BY <1>1, <1>2, <2>1, Zenon DEF Wakes
  <1>5. ASSUME h.cid # s.cid PROVE Obeyed(r)
    <2>1. Live(s) => Live(r)
      BY <1>2, <1>5, Zenon DEF Live
    <2>2. \A g \in r.queued \cup {r.timer} :
            /\ g.cid <= r.cid
            /\ g.kind = "produce" /\ g.cid = r.cid /\ r.mode = "producing"
                 => g.for = <<r.pending.slot, r.pending.prev>>
      BY <1>1, <1>2, Zenon DEF Obeyed
    <2> QED BY <1>1, <1>2, <2>1, <2>2, Zenon DEF Obeyed, ProductionDisabledByPolicy
  <1>7. Ready(r)
    BY <1>1, <1>2, <1>3, Zenon DEF Ready
  <1>8. h.cid # s.cid => Settled(r)
    BY <1>1, <1>2, <1>3, <1>4, <1>5, Zenon DEF Settled
  <1> QED BY <1>0, <1>2, <1>3, <1>7, <1>8, Zenon

(* A block on top of a branch.                                              *)
LEMMA GrownBranch ==
  ASSUME NEW b \in Branches, NEW x \in BlockType
  PROVE  /\ Append(b, x) \in Branches /\ Len(Append(b, x)) = Len(b) + 1
         /\ Tip(Append(b, x)) = x
  <1> DEFINE a == Append(b, x)
  <1>1. b \in Seq(BlockType) /\ Len(b) \in Nat /\ Len(b) > 0 /\ b[1] = Genesis
    BY DEF Branches
  <1>2. a \in Seq(BlockType) /\ Len(a) = Len(b) + 1 /\ a[Len(b) + 1] = x
    BY <1>1
  <1>3. a[1] = b[1]
    <2>1. 1 \in 1 .. Len(b)
      BY <1>1
    <2> QED BY <1>1, <2>1
  <1> HIDE DEF a
  <1>4. a \in Branches
    BY <1>1, <1>2, <1>3 DEF Branches
  <1> QED BY <1>2, <1>4, Zenon DEF Tip, a

(* produce_block raises the watermark of the producer to the new head.      *)
LEMMA ProduceFacts ==
  ASSUME NEW s, Ready(s), Entitled(s), s.mode = "producing", s.pending # NoBlock, NEW ready \in BOOLEAN
  PROVE  LET p == s.pending.producer
             r == ProduceBlock(s, ready)
         IN  /\ Ready(r) /\ p \in Local
             /\ r.head \in Branches /\ Len(r.head) = Len(s.head) + 1 /\ Tip(r.head).producer = p
             /\ NoNewcomer => r.watermark = [s.watermark EXCEPT ![p] = Len(r.head)]
  <1> DEFINE b == s.pending
             p == b.producer
             x == [slot |-> b.slot, producer |-> p, ready |-> ready]
             branch == Append(s.head, x)
             o == OnBlock(s, branch)
             marks == [o.watermark EXCEPT ![p] = Len(branch)]
             r == [o EXCEPT !.head = branch, !.known = o.known \cup {branch}, !.pending = NoBlock,
                            !.watermark = marks]
  <1>1. s \in NodeType /\ s.head \in Branches /\ s.known \subseteq Branches
        /\ b \in PendingType /\ Issued(s) /\ s.head \in s.known
    BY Zenon DEF Ready, NodeType
  <1>2. p \in Local /\ x \in BlockType /\ x.producer = p
    BY <1>1, Zenon DEF Entitled, PendingType, BlockType
  <1>3. branch \in Branches /\ Len(branch) = Len(s.head) + 1 /\ Tip(branch) = x
    BY <1>1, <1>2, GrownBranch, Zenon
  <1> HIDE DEF x, branch
  <1>4. Observed(o, s) /\ (NoNewcomer => o.watermark = s.watermark)
    BY <1>1, <1>3, OnBlockFacts, Zenon
  <1>5. ProduceBlock(s, ready) = r
    <2>1. o \in NodeType
      BY <1>4, Zenon DEF Observed
    <2>2. DOMAIN o = {"started", "enabled", "paused", "mode", "pending", "timer", "queued", "cid",
                      "watermark", "lastSigned", "head", "known"}
      BY <2>1, Zenon DEF NodeType
    <2> QED BY <2>2, Zenon DEF ProduceBlock, BlockNum, branch, x
  <1> HIDE DEF o
  <1>6. Len(branch) \in Nat /\ o.watermark \in [Local -> Nat] /\ o \in NodeType
    BY <1>3, <1>4 DEF Observed, NodeType, Branches
  <1>7. marks \in [Local -> Nat]
    BY <1>6, Zenon
  <1> HIDE DEF marks
  <1>8. /\ r \in NodeType /\ r.head = branch /\ r.known = o.known \cup {branch} /\ r.pending = NoBlock
        /\ r.watermark = marks /\ r.queued = o.queued /\ r.cid = o.cid
    <2>1. o.known \cup {branch} \in SUBSET Branches
      BY <1>1, <1>3, <1>4, Zenon DEF Observed
    <2> QED BY <1>3, <1>6, <1>7, <2>1, NoBlockType, Zenon DEF NodeType
  <1> HIDE DEF r
  <1>9. Ready(r)
    BY <1>1, <1>4, <1>8, Zenon DEF Ready, PendingExtends, Issued, Observed
  <1>10. NoNewcomer => r.watermark = [s.watermark EXCEPT ![p] = Len(r.head)]
    BY <1>4, <1>8, Zenon DEF marks
  <1> QED BY <1>2, <1>3, <1>5, <1>8, <1>9, <1>10, Zenon

(* The step signs the pending block, which the node was entitled to.        *)
SignsPending ==
  LET b == node.pending
      p == b.producer
  IN  /\ node.mode = "producing" /\ b # NoBlock
      /\ node'.head \in Branches /\ Len(node'.head) = Len(node.head) + 1
      /\ Tip(node'.head).producer = p
      /\ signed' = signed \cup {[branch |-> node'.head, confirm |-> b.confirm]}
      /\ NoNewcomer => node'.watermark = [node.watermark EXCEPT ![p] = Len(node'.head)]

(* A queued handler does nothing when its id is old; otherwise it keeps the *)
(* invariant and signs the pending block or nothing.                        *)
LEMMA RunHandlerFacts ==
  ASSUME NInv, NEW h \in node.queued, RunHandler(h)
  PROVE  NInv' /\ (SignsNothing \/ SignsPending)
  <1> DEFINE s == [node EXCEPT !.queued = @ \ {h}]
  <1>1. /\ IF h.cid # node.cid THEN node' = s /\ UNCHANGED <<now, signed, faults>>
           ELSE IF h.kind = "produce" THEN MaybeProduceBlock(s)
           ELSE ThenSchedule(s, 0) /\ UNCHANGED signed
        /\ UNCHANGED pauses
    BY Zenon DEF RunHandler
  <1>2. Settled(node)
    BY Zenon DEF NInv
  <1>3. /\ Ready(s) /\ s.watermark = node.watermark /\ s.mode = node.mode /\ s.pending = node.pending
        /\ s.head = node.head /\ Entitled(s)
        /\ h.cid # node.cid => Settled(s)
    BY <1>2, DequeueFacts, Zenon
  <1> HIDE DEF s
  <1>4. CASE h.cid # node.cid
    BY <1>1, <1>3, <1>4, Zenon DEF NInv, SignsNothing
  <1>5. CASE h.cid = node.cid /\ h.kind # "produce"
    <2>1. ThenSchedule(s, 0) /\ UNCHANGED signed
      BY <1>1, <1>5, Zenon
    <2>2. /\ Settled(node') /\ now' \in 0 .. MaxTime /\ faults' \in 0 .. MaxFaults /\ Keeps(node', s)
      BY <1>3, <2>1, ThenScheduleFacts DEF NInv
    <2> QED BY <1>1, <1>3, <2>1, <2>2, Zenon DEF NInv, SignsNothing, Keeps
  <1>6. CASE h.cid = node.cid /\ h.kind = "produce"
    <2> DEFINE able == s.mode = "producing" /\ s.pending # NoBlock
    <2>1. \/ \E ready \in ReadyChoices(s.head) :
               /\ able
               /\ ThenSchedule(ProduceBlock(s, ready), 0)
               /\ signed' = signed \cup {[branch |-> ProduceBlock(s, ready).head,
                                          confirm |-> s.pending.confirm]}
          \/ /\ ThenSchedule(AbortBlock(s), IF able THEN 1 ELSE 0)
             /\ UNCHANGED signed
      BY <1>1, <1>6, Zenon DEF MaybeProduceBlock
    <2>2. ASSUME NEW ready \in ReadyChoices(s.head), able,
                 ThenSchedule(ProduceBlock(s, ready), 0),
                 signed' = signed \cup {[branch |-> ProduceBlock(s, ready).head,
                                         confirm |-> s.pending.confirm]}
          PROVE  NInv' /\ SignsPending
      <3> DEFINE r == ProduceBlock(s, ready)
                 p == s.pending.producer
      <3>1. ready \in BOOLEAN
        <4>1. \A o \in Offers : o.ready \in BOOLEAN
          BY LoopAssumption, Zenon
        <4> QED BY <2>2, <4>1, Zenon DEF ReadyChoices
      <3>2. /\ Ready(r) /\ p \in Local
            /\ r.head \in Branches /\ Len(r.head) = Len(s.head) + 1 /\ Tip(r.head).producer = p
            /\ NoNewcomer => r.watermark = [s.watermark EXCEPT ![p] = Len(r.head)]
        BY <1>3, <2>2, <3>1, ProduceFacts, Zenon
      <3> HIDE DEF r
      <3>3. /\ Settled(node') /\ now' \in 0 .. MaxTime /\ faults' \in 0 .. MaxFaults /\ Keeps(node', r)
        <4>1. now \in 0 .. MaxTime /\ faults \in 0 .. MaxFaults
          BY Zenon DEF NInv
        <4>2. ThenSchedule(r, 0)
          BY <2>2, Zenon DEF r
        <4>3. 0 \in 0 .. 1
          OBVIOUS
        <4> QED BY <3>2, <4>1, <4>2, <4>3, ThenScheduleFacts, Zenon
      <3>4. node'.head = r.head /\ node'.watermark = r.watermark
        BY <3>3, Zenon DEF Keeps
      <3>5. SignsPending
        BY <1>3, <2>2, <3>2, <3>4, Zenon DEF SignsPending, r
      <3> QED BY <1>1, <3>3, <3>5, Zenon DEF NInv
    <2>3. ASSUME ThenSchedule(AbortBlock(s), IF able THEN 1 ELSE 0), UNCHANGED signed
          PROVE  NInv' /\ SignsNothing
      <3> DEFINE r == AbortBlock(s)
                 failed == IF able THEN 1 ELSE 0
      <3>1. Ready(r) /\ Keeps(r, s)
        BY <1>3, AbortReady, Zenon
      <3>2. failed \in 0 .. 1
        OBVIOUS
      <3>4. ThenSchedule(r, failed)
        BY <2>3, Zenon
      <3> HIDE DEF r, failed
      <3>3. /\ Settled(node') /\ now' \in 0 .. MaxTime /\ faults' \in 0 .. MaxFaults /\ Keeps(node', r)
        BY <3>1, <3>2, <3>4, ThenScheduleFacts, Zenon DEF NInv
      <3> QED BY <1>1, <1>3, <2>3, <3>1, <3>3, Zenon DEF NInv, SignsNothing, Keeps
    <2> QED BY <2>1, <2>2, <2>3, Zenon
  <1> QED BY <1>4, <1>5, <1>6, Zenon

(* A block of another producer, applied, kept or rejected, finds the        *)
(* pending block aborted.                                                   *)
LEMMA OnIncomingBlockFacts ==
  ASSUME NInv, OnIncomingBlock
  PROVE  NInv' /\ SignsNothing
  <1>1. PICK parent \in node.known, o \in Offers, valid \in BOOLEAN :
        LET block    == [slot |-> o.slot, ready |-> o.ready,
                         producer |-> ScheduledProducer(parent, o.slot)]
            branch   == Append(parent, block)
            aborted  == AbortBlock(node)
            applied  == IF Better(branch, node.head)
                        THEN [OnBlocks(aborted, node.head, branch) EXCEPT
                                 !.head = branch, !.known = @ \cup {branch}]
                        ELSE [aborted EXCEPT !.known = @ \cup {branch}]
            accepted == [applied EXCEPT !.enabled =
                            @ \/ HeadTime(applied.head) + block_interval >= now]
        IN  /\ node.started
            /\ o.num = BlockNum(branch) /\ o.ready \in ReadyChoices(parent)
            /\ o.slot > Tip(parent).slot /\ SlotTime(o.slot) < now + FutureLimit
            /\ block.producer \notin Local /\ branch \notin node.known
            /\ IF valid THEN ThenSchedule(accepted, 0) ELSE ThenSchedule(aborted, 1)
            /\ UNCHANGED <<signed, pauses>>
    BY Zenon DEF OnIncomingBlock
  <1> DEFINE block    == [slot |-> o.slot, ready |-> o.ready,
                          producer |-> ScheduledProducer(parent, o.slot)]
             branch   == Append(parent, block)
             aborted  == AbortBlock(node)
             seen     == OnBlocks(aborted, node.head, branch)
             applied  == IF Better(branch, node.head)
                         THEN [seen EXCEPT !.head = branch, !.known = @ \cup {branch}]
                         ELSE [aborted EXCEPT !.known = @ \cup {branch}]
             ahead    == HeadTime(applied.head) + block_interval >= now
             accepted == [applied EXCEPT !.enabled = @ \/ ahead]
  <1>2. /\ IF valid THEN ThenSchedule(accepted, 0) ELSE ThenSchedule(aborted, 1)
        /\ UNCHANGED <<signed, pauses>>
    BY <1>1, Zenon
  <1>3. Settled(node) /\ Ready(node) /\ parent \in Branches /\ node.head \in Branches
    BY SettledReady DEF NInv, Ready, NodeType
  <1>4. Ready(aborted) /\ Keeps(aborted, node) /\ aborted.pending = NoBlock
    BY <1>3, AbortReady, Zenon
  <1>5. branch \in Branches
    <2>1. o.slot \in Nat /\ o.ready \in BOOLEAN
      BY LoopAssumption, Zenon
    <2>2. ScheduledProducer(parent, o.slot) \in Producers
      BY <1>3, <2>1, TurnFacts, Zenon
    <2>3. block \in BlockType
      BY <2>1, <2>2, Zenon DEF BlockType
    <2> HIDE DEF block
    <2> QED BY <1>3, <2>3, GrownBranch, Zenon
  <1> HIDE DEF block, branch, aborted
  <1>6. aborted \in NodeType
    BY <1>4, Zenon DEF Ready
  <1>7. Observed(seen, aborted) /\ (NoNewcomer => seen.watermark = aborted.watermark)
    BY <1>3, <1>5, <1>6, OnBlocksFacts, Zenon
  <1> HIDE DEF seen
  <1>8. /\ applied \in NodeType /\ applied.head \in applied.known /\ applied.pending = NoBlock
        /\ applied.queued = aborted.queued /\ applied.cid = aborted.cid
        /\ NoNewcomer => applied.watermark = aborted.watermark
    <2>1. CASE Better(branch, node.head)
      <3>1. applied = [seen EXCEPT !.head = branch, !.known = @ \cup {branch}]
        BY <2>1, Zenon
      <3>2. seen \in NodeType
        BY <1>7, Zenon DEF Observed
      <3> HIDE DEF applied
      <3>3. /\ applied \in NodeType /\ applied.head = branch /\ applied.known = seen.known \cup {branch}
            /\ applied.pending = seen.pending /\ applied.queued = seen.queued /\ applied.cid = seen.cid
            /\ applied.watermark = seen.watermark
        BY <1>5, <3>1, <3>2, Zenon DEF NodeType
      <3> QED BY <1>4, <1>7, <3>3, Zenon DEF Observed
    <2>2. CASE ~Better(branch, node.head)
      <3>1. applied = [aborted EXCEPT !.known = @ \cup {branch}]
        BY <2>2, Zenon
      <3> HIDE DEF applied
      <3>2. /\ applied \in NodeType /\ applied.head = aborted.head
            /\ applied.known = aborted.known \cup {branch}
            /\ applied.pending = aborted.pending /\ applied.queued = aborted.queued
            /\ applied.cid = aborted.cid /\ applied.watermark = aborted.watermark
        BY <1>5, <1>6, <3>1, Zenon DEF NodeType
      <3> QED BY <1>4, <3>2, Zenon DEF Ready
    <2> QED BY <2>1, <2>2, Zenon
  <1> HIDE DEF applied, ahead
  <1>9. Ready(accepted) /\ accepted.watermark = applied.watermark
    <2>1. (applied.enabled \/ ahead) \in BOOLEAN
      BY Zenon
    <2>2. /\ accepted \in NodeType /\ accepted.head = applied.head /\ accepted.known = applied.known
          /\ accepted.pending = applied.pending /\ accepted.queued = applied.queued
          /\ accepted.cid = applied.cid /\ accepted.watermark = applied.watermark
      BY <1>8, <2>1, Zenon DEF NodeType
    <2> HIDE DEF accepted
    <2> QED BY <1>4, <1>8, <2>2, Zenon DEF Ready, PendingExtends, Issued
  <1> HIDE DEF accepted
  <1>10. NoNewcomer => accepted.watermark = node.watermark /\ aborted.watermark = node.watermark
    BY <1>4, <1>8, <1>9, Zenon DEF Keeps
  <1>11. CASE valid
    <2>1. ThenSchedule(accepted, 0)
      BY <1>2, <1>11, Zenon
    <2>2. /\ Settled(node') /\ now' \in 0 .. MaxTime /\ faults' \in 0 .. MaxFaults /\ Keeps(node', accepted)
      <3>1. now \in 0 .. MaxTime /\ faults \in 0 .. MaxFaults
        BY Zenon DEF NInv
      <3>2. 0 \in 0 .. 1
        OBVIOUS
      <3> QED BY <1>9, <2>1, <3>1, <3>2, ThenScheduleFacts, Zenon
    <2> QED BY <1>2, <1>10, <2>2, Zenon DEF NInv, SignsNothing, Keeps
  <1>12. CASE ~valid
    <2>1. ThenSchedule(aborted, 1)
      BY <1>2, <1>12, Zenon
    <2>2. /\ Settled(node') /\ now' \in 0 .. MaxTime /\ faults' \in 0 .. MaxFaults /\ Keeps(node', aborted)
      <3>1. now \in 0 .. MaxTime /\ faults \in 0 .. MaxFaults
        BY Zenon DEF NInv
      <3>2. 1 \in 0 .. 1
        OBVIOUS
      <3> QED BY <1>4, <2>1, <3>1, <3>2, ThenScheduleFacts, Zenon
    <2> QED BY <1>2, <1>10, <2>2, Zenon DEF NInv, SignsNothing, Keeps
  <1> QED BY <1>11, <1>12, Zenon

-----------------------------------------------------------------------------
(* The invariants *)

(* The invariant holds before plugin_startup.                               *)
LEMMA InitNInv == Init => NInv
  <1> SUFFICES ASSUME Init PROVE NInv
    BY Zenon
  <1>1. PICK stale \in BOOLEAN :
         node = [started |-> FALSE, enabled |-> stale, paused |-> FALSE,
                 mode |-> "speculating", pending |-> NoBlock, timer |-> NoTimer, queued |-> {},
                 cid |-> 0, watermark |-> [p \in Local |-> 0], lastSigned |-> [slot |-> 0, num |-> 0],
                 head |-> <<Genesis>>, known |-> {<<Genesis>>}]
    BY Zenon DEF Init
  <1>2. <<Genesis>> \in Branches
    <2>1. Schedules[1] # <<>> /\ Schedules[1] \in Seq(Range(Schedules[1]))
      BY LoopAssumption
    <2>2. Schedules[1][1] \in Range(Schedules[1])
      BY <2>1
    <2>3. Genesis \in BlockType
      BY <2>2, Zenon DEF Genesis, BlockType, Producers
    <2> QED BY <2>3 DEF Branches
  <1>3. NoTimer \in TimerType /\ NoTimer.cid = 0 /\ NoTimer.kind = "none"
    BY DEF NoTimer, TimerType
  <1>4. node \in NodeType
    BY <1>1, <1>2, <1>3, NoBlockType, Zenon DEF NodeType
  <1>5. /\ node.started = FALSE /\ node.mode = "speculating" /\ node.pending = NoBlock
        /\ node.timer = NoTimer /\ node.queued = {} /\ node.cid = 0
        /\ node.head = <<Genesis>> /\ node.known = {<<Genesis>>}
    BY <1>1, Zenon
  <1>6. PendingExtends(node) /\ Entitled(node) /\ Wakes(node) /\ Obeyed(node)
    <2>1. PendingExtends(node)
      BY <1>5, Zenon DEF PendingExtends
    <2>2. Entitled(node)
      BY <1>5, Zenon DEF Entitled
    <2>3. Wakes(node)
      BY <1>3, <1>5, Zenon DEF Wakes
    <2>4. Obeyed(node)
      BY <1>3, <1>5 DEF Obeyed
    <2> QED BY <2>1, <2>2, <2>3, <2>4, Zenon
  <1>7. now = 0 /\ faults = 0 /\ pauses = 0
    BY Zenon DEF Init
  <1>8. Settled(node)
    BY <1>4, <1>5, <1>6, Zenon DEF Settled
  <1> QED BY <1>7, <1>8, BoundsAreNat DEF NInv

(* Every step, and what it signs.                                           *)
LEMMA StepFacts ==
  ASSUME NInv, [Next]_vars
  PROVE  NInv' /\ (SignsNothing \/ SignsPending)
  <1>1. CASE Startup
    BY <1>1, StartupFacts, Zenon
  <1>2. CASE OnIncomingBlock
    BY <1>2, OnIncomingBlockFacts, Zenon
  <1>3. CASE TimerExpires
    BY <1>3, TimerExpiresFacts, Zenon
  <1>4. ASSUME NEW h \in node.queued, RunHandler(h) PROVE NInv' /\ (SignsNothing \/ SignsPending)
    BY <1>4, RunHandlerFacts, Zenon
  <1>5. CASE Pause
    BY <1>5, PauseFacts, Zenon
  <1>6. CASE Resume
    BY <1>6, ResumeFacts, Zenon
  <1>7. CASE Tick
    <2>1. now < MaxTime /\ now' = now + 1 /\ UNCHANGED <<node, signed, faults, pauses>>
      BY <1>7, Zenon DEF Tick
    <2>2. now' \in 0 .. MaxTime
      BY <2>1, BoundsAreNat DEF NInv
    <2> QED BY <2>1, <2>2, Zenon DEF NInv, SignsNothing
  <1>8. CASE UNCHANGED vars
    BY <1>8, Zenon DEF NInv, SignsNothing, vars
  <1> QED BY <1>1, <1>2, <1>3, <1>4, <1>5, <1>6, <1>7, <1>8, Zenon DEF Next

(* The invariant of the loop holds in every reachable state.                *)
LEMMA LoopInvariance == Spec => []NInv
  <1>1. NInv /\ [Next]_vars => NInv'
    BY StepFacts, Zenon
  <1> QED BY <1>1, InitNInv, PTL DEF Spec

(* The fields of the plugin keep their types in every behaviour.            *)
THEOREM LoopTypes == Spec => []TypeOK
  <1>1. NInv => TypeOK
    <2> SUFFICES ASSUME NInv PROVE TypeOK
      BY Zenon
    <2>1. node \in NodeType /\ node.head \in node.known /\ Obeyed(node)
      BY Zenon DEF NInv, Settled
    <2>2. \A h \in node.queued \cup {node.timer} : h \in TimerType
      BY <2>1, Zenon DEF NodeType
    <2>3. \A h \in node.queued \cup {node.timer} : h.cid \in Nat /\ h.cid <= node.cid
      BY <2>1, <2>2, Zenon DEF Obeyed, TimerType
    <2>4. node.cid \in Nat
      BY <2>1, Zenon DEF NodeType
    <2>5. \A h \in node.queued \cup {node.timer} : h.cid \in 0 .. node.cid
      BY <2>3, <2>4
    <2>6. {node.started, node.enabled, node.paused} \subseteq BOOLEAN
          /\ node.mode \in {"producing", "speculating"} /\ node.watermark \in [Local -> Nat]
      BY <2>1, Zenon DEF NodeType
    <2> QED BY <2>1, <2>5, <2>6, Zenon DEF TypeOK, NInv
  <1> QED BY <1>1, LoopInvariance, PTL

(* A production handler that passes the check of its correlation id finds   *)
(* the block it was scheduled for, however timers, expired handlers and the *)
(* blocks of others interleave: maybe_produce_block never signs another     *)
(* block than the one schedule_production_loop started.                     *)
THEOREM ScheduledBlocksOnly == Spec => []ProducesWhatItScheduled
  <1>1. NInv => ProducesWhatItScheduled
    BY Zenon DEF NInv, Settled, PendingExtends, Obeyed, ProducesWhatItScheduled
  <1> QED BY <1>1, LoopInvariance, PTL

(* The loop never dies, through failures of start_block and produce_block,  *)
(* pause and resume and any number of handlers with an old id.              *)
THEOREM LoopNeverDies == Spec => []LoopAlive
  <1>1. NInv => LoopAlive
    BY Zenon DEF NInv, Settled, Obeyed, Live, LoopAlive
  <1> QED BY <1>1, LoopInvariance, PTL

(* A delayed loop wakes for the first slot that a producer of the node may  *)
(* use, for schedules of any length, any number of repetitions and any      *)
(* watermark: the distances of calculate_next_block_time are right.         *)
THEOREM DelayedLoopWakes == Spec => []WakesInTime
  <1>1. NInv => WakesInTime
    BY Zenon DEF NInv, Settled, Wakes, WakesInTime
  <1> QED BY <1>1, LoopInvariance, PTL

-----------------------------------------------------------------------------
(* What the node has signed *)

(* No watermark is below a block its producer has signed.                   *)
MarksHold ==
  \A x \in signed :
    LET p == Tip(x.branch).producer
    IN  /\ x.branch \in Branches /\ x.confirm \in Nat /\ p \in Local
        /\ Len(x.branch) <= node.watermark[p]

SInv == NInv /\ (NoNewcomer => MarksHold /\ ConfirmsOnce)

(* Nothing is signed at the start.                                          *)
LEMMA InitSInv == Init => SInv
  <1> SUFFICES ASSUME Init PROVE SInv
    BY Zenon
  <1>1. signed = {}
    BY Zenon DEF Init
  <1> QED BY <1>1, InitNInv, Zenon DEF SInv, MarksHold, ConfirmsOnce

(* No handler makes a producer confirm a height twice: it signs above its   *)
(* watermark and raises the watermark to what it signed (produce_block).    *)
LEMMA NextSInv == SInv /\ [Next]_vars => SInv'
  <1> SUFFICES ASSUME SInv, [Next]_vars PROVE SInv'
    BY Zenon
  <1>1. NInv /\ NInv' /\ (SignsNothing \/ SignsPending)
    BY StepFacts, Zenon DEF SInv
  <1> SUFFICES ASSUME NoNewcomer PROVE MarksHold' /\ ConfirmsOnce'
    BY <1>1, Zenon DEF SInv, NoNewcomer
  <1>2. MarksHold /\ ConfirmsOnce
    BY Zenon DEF SInv
  <1>3. CASE SignsNothing
    <2>1. signed' = signed /\ node'.watermark = node.watermark
      BY <1>3, Zenon DEF SignsNothing
    <2> QED BY <1>2, <2>1, Zenon DEF MarksHold, ConfirmsOnce
  <1>4. CASE SignsPending
    <2> DEFINE b == node.pending
               p == b.producer
               n == Len(node.head)
               w == node.watermark
               new == [branch |-> node'.head, confirm |-> b.confirm]
    <2>1. /\ node'.head \in Branches /\ Len(node'.head) = n + 1 /\ Tip(node'.head).producer = p
          /\ signed' = signed \cup {new}
          /\ node'.watermark = [w EXCEPT ![p] = n + 1]
      BY <1>4, Zenon DEF SignsPending
    <2>2. /\ p \in Local /\ w[p] <= n /\ w[p] < n + 1 - b.confirm
      BY <1>1, <1>4, Zenon DEF SignsPending, NInv, Settled, Entitled
    <2>3. b.confirm \in Nat /\ w \in [Local -> Nat] /\ n \in Nat
      <3>1. node \in NodeType
        BY <1>1, Zenon DEF NInv, Settled
      <3>2. b \in PendingType /\ w \in [Local -> Nat] /\ node.head \in Branches
        BY <3>1, Zenon DEF NodeType
      <3>3. node.head \in Seq(BlockType)
        BY <3>2, Zenon DEF Branches
      <3>4. n \in Nat
        BY <3>3
      <3>5. b.confirm \in Nat
        BY <3>2, Zenon DEF PendingType
      <3> QED BY <3>2, <3>4, <3>5, Zenon
    <2>4. new.branch = node'.head /\ new.confirm = b.confirm
      BY Zenon
    <2> HIDE DEF b, p, n, w, new
    <2>5. \A x \in signed :
            LET q == Tip(x.branch).producer
            IN  /\ x.branch \in Branches /\ x.confirm \in Nat /\ q \in Local
                /\ Len(x.branch) <= w[q] /\ Len(x.branch) \in Nat
      BY <1>2 DEF MarksHold, w, Branches
    <2>6. MarksHold'
      <3>1. ASSUME NEW x \in signed'
            PROVE  LET q == Tip(x.branch).producer
                   IN  /\ x.branch \in Branches /\ x.confirm \in Nat /\ q \in Local
                       /\ Len(x.branch) <= node'.watermark[q]
        <4>1. CASE x = new
          BY <2>1, <2>2, <2>3, <2>4, <4>1
        <4>2. CASE x \in signed
          <5> DEFINE q == Tip(x.branch).producer
          <5>1. /\ x.branch \in Branches /\ x.confirm \in Nat /\ q \in Local
                /\ Len(x.branch) <= w[q] /\ Len(x.branch) \in Nat
            BY <2>5, <4>2, Zenon
          <5> HIDE DEF q
          <5>2. w[q] <= node'.watermark[q] /\ w[q] \in Nat /\ node'.watermark[q] \in Nat
            <6>1. CASE q = p
              BY <2>1, <2>2, <2>3, <6>1
            <6>2. CASE q # p
              BY <2>1, <2>3, <5>1, <6>2
            <6> QED BY <6>1, <6>2, Zenon
          <5>3. Len(x.branch) <= node'.watermark[q]
            BY <5>1, <5>2
          <5> QED BY <5>1, <5>3, Zenon DEF q
        <4> QED BY <2>1, <4>1, <4>2, Zenon
      <3> QED BY <3>1, Zenon DEF MarksHold
    <2>7. ASSUME NEW x \in signed, Tip(x.branch).producer = p
          PROVE  Confirms(x) \cap Confirms(new) = {}
      <3>1. Len(x.branch) <= w[p] /\ Len(x.branch) \in Nat /\ w[p] \in Nat /\ x.confirm \in Nat
        BY <2>2, <2>3, <2>5, <2>7, Zenon
      <3>2. Confirms(x) = Len(x.branch) - x.confirm .. Len(x.branch)
        BY Zenon DEF Confirms
      <3>3. Confirms(new) = Len(new.branch) - new.confirm .. Len(new.branch)
        BY Zenon DEF Confirms
      <3>4. Len(new.branch) = n + 1 /\ new.confirm = b.confirm
        BY <2>1, <2>4, Zenon
      <3>5. ASSUME NEW i \in Confirms(x), NEW j \in Confirms(new) PROVE i # j
        <4>1. i \in Int /\ i <= Len(x.branch)
          BY <3>1, <3>2, <3>5
        <4>2. j \in Len(new.branch) - new.confirm .. Len(new.branch)
          BY <3>3, <3>5, Zenon
        <4>3. j \in Int /\ n + 1 - b.confirm <= j
          BY <2>3, <3>4, <4>2
        <4> QED BY <2>2, <2>3, <3>1, <4>1, <4>3
      <3> QED BY <3>5, Zenon
    <2>8. ConfirmsOnce'
      <3>1. ASSUME NEW x \in signed', NEW y \in signed', x # y,
                   Tip(x.branch).producer = Tip(y.branch).producer
            PROVE  Confirms(x) \cap Confirms(y) = {}
        <4>1. CASE x \in signed /\ y \in signed
          BY <1>2, <3>1, <4>1, Zenon DEF ConfirmsOnce
        <4>2. CASE x \in signed /\ y = new
          BY <2>1, <2>4, <2>7, <3>1, <4>2, Zenon
        <4>3. CASE x = new /\ y \in signed
          <5>1. Confirms(y) \cap Confirms(new) = {}
            BY <2>1, <2>4, <2>7, <3>1, <4>3, Zenon
          <5> QED BY <4>3, <5>1, Zenon
        <4> QED BY <2>1, <3>1, <4>1, <4>2, <4>3, Zenon
      <3>2. \A x : Confirms(x)' = Confirms(x)
        BY Zenon DEF Confirms
      <3> QED BY <3>1, Zenon DEF ConfirmsOnce, Confirms
    <2> QED BY <2>6, <2>8, Zenon
  <1> QED BY <1>1, <1>3, <1>4, Zenon

(* As long as a new schedule brings this node no producer it did not have,  *)
(* no producer of the node ever confirms a height twice, on whichever forks *)
(* it signs: the watermark check of start_block and the range of            *)
(* blocks_to_confirm suffice.  The watermark on_block gives to a newcomer   *)
(* is the one thing that can break it.                                      *)
THEOREM HeightsConfirmedOnce == Spec => [](NoNewcomer => ConfirmsOnce)
  <1>1. SInv => (NoNewcomer => ConfirmsOnce)
    BY Zenon DEF SInv
  <1> QED BY <1>1, InitSInv, NextSInv, PTL DEF Spec
=============================================================================
