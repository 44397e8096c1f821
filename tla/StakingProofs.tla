---------------------------- MODULE StakingProofs ----------------------------
(***************************************************************************)
(* Proofs about Staking for any accounts, amounts, delays and bounds: the  *)
(* invariants of the refunds and of the queue, that Staking implements     *)
(* StakeLedger, and, for any number of records, the escrow loop of         *)
(* undelegatebw: it keeps every record and lets an account with one escrow *)
(* take no more than what has vested.                                      *)
(***************************************************************************)
EXTENDS Staking, WellFoundedInduction, TLAPS

(* A request, or none.                                                     *)
IsRequest(r) == r \in RefundRequest \cup {NoRefund}

(* The request r of a and the queue agree: it is not empty, was made by    *)
(* now, and its deferred refund comes after its delay or has left the      *)
(* table in a way the chain shows (changebw).                              *)
RequestSound(r, q, a, now) ==
    /\ IsRequest(r)
    /\ r # NoRefund =>
        /\ Amount(r) > 0 /\ r.request_time <= now
        /\ q.generated[a] # NoTrx =>
              /\ r.request_time + refund_delay <= q.generated[a].delay_until
              /\ q.last[a] = "none"
        /\ q.generated[a] = NoTrx => q.last[a] \in {"cancelled", "failed"}

(* The queue has its type and bills every payer what it holds.             *)
QueueSound(q) == q \in QueueType /\ \A i \in Ids : q.ram[i] = Billed(q, i)

(* The inductive invariant.                                                *)
IInv ==
    /\ TypeOK
    /\ QueueSound(queue)
    /\ \A a \in Accounts : RequestSound(refunds[a], queue, a, time)

(* Both deltas of a change of bandwidth have the same sign.                *)
SameSign(net, cpu) ==
    /\ net \in Int /\ cpu \in Int
    /\ (net >= 0 /\ cpu >= 0) \/ (net <= 0 /\ cpu <= 0)

-----------------------------------------------------------------------------
(* Requests *)

(* What r.amount -= delta leaves and what it leaves of delta (changebw).   *)
LEMMA RemainingOwed ==
    ASSUME NEW amount \in Nat, NEW delta \in Int
    PROVE  /\ Remaining(amount, delta) \in Nat
           /\ Owed(amount, delta) \in Nat
           /\ Remaining(amount, delta) - Owed(amount, delta) = amount - delta
           /\ delta <= 0 => Owed(amount, delta) = 0
           /\ delta >= 0 => Remaining(amount, delta) <= amount
BY DEF Remaining, Owed

(* The amounts of a request, none counting as an empty one                 *)
(* (refund_request).                                                       *)
LEMMA RefundWeightsType ==
    ASSUME NEW r, IsRequest(r)
    PROVE  /\ RefundWeights(r).net \in Nat /\ RefundWeights(r).cpu \in Nat
           /\ Amount(RefundWeights(r)) = RefundWeights(r).net + RefundWeights(r).cpu
           /\ r # NoRefund => RefundWeights(r).net = r.net /\ RefundWeights(r).cpu = r.cpu
           /\ r = NoRefund => RefundWeights(r).net = 0 /\ RefundWeights(r).cpu = 0
BY Zenon DEF IsRequest, RefundWeights, RefundRequest, Zero, Amount

(* A change that settles a request moves its amount by exactly what is not *)
(* transferred (changebw).                                                 *)
LEMMA RefundAfterFacts ==
    ASSUME NEW r, IsRequest(r), NEW net, NEW cpu, SameSign(net, cpu), time \in Nat,
           r # NoRefund => r.request_time <= time,
           NEW r2, r2 = RefundAfter(r, net, cpu),
           NEW pay, pay = SettledPayment(r, net, cpu)
    PROVE  /\ IsRequest(r2)
           /\ r2 # NoRefund => Amount(r2) > 0 /\ r2.request_time <= time
                               /\ r2.request_time = RequestTime(r, net, cpu)
           /\ pay \in Nat
           /\ Amount(RefundWeights(r2)) - pay = Amount(RefundWeights(r)) - net - cpu
<1> DEFINE w == RefundWeights(r)
           ln == Remaining(w.net, net)
           lc == Remaining(w.cpu, cpu)
           on == Owed(w.net, net)
           oc == Owed(w.cpu, cpu)
           left == [net |-> ln, cpu |-> lc]
<1>1. w.net \in Nat /\ w.cpu \in Nat /\ Amount(w) = w.net + w.cpu
      /\ (r = NoRefund => w.net = 0 /\ w.cpu = 0)
  BY RefundWeightsType, Zenon
<1>2. /\ ln \in Nat /\ lc \in Nat
      /\ on \in Nat /\ oc \in Nat
      /\ ln - on = w.net - net
      /\ lc - oc = w.cpu - cpu
      /\ net >= 0 => ln <= w.net
      /\ cpu >= 0 => lc <= w.cpu
  BY <1>1, RemainingOwed, Zenon DEF SameSign
<1>3. pay = on + oc
  BY Zenon DEF SettledPayment
<1>4. r2 = IF left = Zero THEN NoRefund
           ELSE [request_time |-> RequestTime(r, net, cpu), net |-> ln, cpu |-> lc]
  BY Zenon DEF RefundAfter
<1>5. left # Zero => r # NoRefund \/ net < 0 \/ cpu < 0
  BY <1>1, <1>2 DEF Zero, SameSign
<1>6. left # Zero => RequestTime(r, net, cpu) \in Nat /\ RequestTime(r, net, cpu) <= time
  BY <1>5 DEF RequestTime, IsRequest, RefundRequest
<1>9. pay \in Nat /\ ln + lc - pay = Amount(w) - net - cpu
  <2> DEFINE wn == w.net
             wc == w.cpu
             am == Amount(w)
  <2>1. /\ net \in Int /\ cpu \in Int /\ wn \in Nat /\ wc \in Nat /\ am = wn + wc
        /\ ln - on = wn - net /\ lc - oc = wc - cpu
    BY <1>1, <1>2, Zenon DEF SameSign
  <2> HIDE DEF ln, lc, on, oc, wn, wc, am
  <2>2. on + oc \in Nat /\ ln + lc - (on + oc) = am - net - cpu
    BY <2>1, <1>2
  <2>3. pay \in Nat /\ ln + lc - pay = am - net - cpu
    BY <2>2, <1>3, Zenon
  <2> QED BY <2>3, Zenon DEF am
<1>0. net \in Int /\ cpu \in Int /\ Amount(w) \in Nat
  BY <1>1 DEF SameSign
<1> HIDE DEF ln, lc, on, oc, w
<1>7. CASE left = Zero
  <2>1. r2 = NoRefund /\ ln = 0 /\ lc = 0
    BY <1>4, <1>7, Zenon DEF Zero
  <2>2. Amount(RefundWeights(r2)) = 0
    BY <2>1 DEF RefundWeights, Amount, Zero
  <2>3. ln + lc = 0
    BY <2>1
  <2>4. Amount(RefundWeights(r2)) - pay = Amount(w) - net - cpu
    BY <2>2, <2>3, <1>9, <1>2, <1>0
  <2> QED BY <2>1, <2>4, <1>9, Zenon DEF IsRequest, w
<1>8. CASE left # Zero
  <2>1. r2 = [request_time |-> RequestTime(r, net, cpu), net |-> ln, cpu |-> lc]
    BY <1>4, <1>8, Zenon
  <2>2. r2 \in RefundRequest
    BY <2>1, <1>2, <1>6, <1>8 DEF RefundRequest
  <2>3. r2 # NoRefund
    BY <2>2, StakingAssumption, Zenon DEF RefundRequest
  <2>4. Amount(RefundWeights(r2)) = ln + lc /\ Amount(r2) = ln + lc
    BY <2>1, <2>3 DEF RefundWeights, Amount
  <2>5. ln + lc > 0
    BY <1>8, <1>2 DEF Zero
  <2>7. r2.request_time = RequestTime(r, net, cpu)
    BY <2>1
  <2>8. Amount(RefundWeights(r2)) - pay = Amount(w) - net - cpu
    BY <2>4, <1>9, <1>2, <1>0
  <2>9. Amount(r2) > 0
    BY <2>4, <2>5, Zenon
  <2>10. r2.request_time <= time
    BY <2>7, <1>6, <1>8, Zenon
  <2> QED BY <2>2, <2>3, <2>7, <2>8, <2>9, <2>10, <1>9, Zenon DEF IsRequest, w
<1> QED BY <1>7, <1>8, Zenon

-----------------------------------------------------------------------------
(* The queue *)

(* Nothing but the transaction of a differs.                               *)
SameElsewhere(q, q2, a) ==
    \A i \in Ids \ {a} : q2.generated[i] = q.generated[i] /\ q2.last[i] = q.last[i]

(* Taking a transaction out gives its RAM back and touches no other        *)
(* (remove_scheduled_transaction).                                         *)
LEMMA RemoveKeepsQueue ==
    ASSUME NEW q, QueueSound(q), NEW a \in Ids, q.generated[a] # NoTrx,
           NEW status \in Receipts, NEW q2, q2 = RemoveScheduled(q, a, status)
    PROVE  /\ QueueSound(q2)
           /\ SameElsewhere(q, q2, a)
           /\ q2.generated[a] = NoTrx /\ q2.last[a] = status
<1>1. /\ q2.generated = [q.generated EXCEPT ![a] = NoTrx]
      /\ q2.last = [q.last EXCEPT ![a] = status]
      /\ q2.ram = [q.ram EXCEPT ![a] = @ - 1]
      /\ q2 = [generated |-> q2.generated, ram |-> q2.ram, last |-> q2.last]
  BY Zenon DEF RemoveScheduled
<1>2. /\ q.generated \in [Ids -> GeneratedTransaction \cup {NoTrx}]
      /\ q.ram \in [Ids -> Nat] /\ q.last \in [Ids -> Receipts]
      /\ \A i \in Ids : q.ram[i] = Billed(q, i)
  BY Zenon DEF QueueSound, QueueType
<1>3. q2.generated \in [Ids -> GeneratedTransaction \cup {NoTrx}]
  BY <1>1, <1>2, Zenon
<1>4. q2.last \in [Ids -> Receipts]
  BY <1>1, <1>2
<1>5. q2.ram \in [Ids -> Nat] /\ \A i \in Ids : q2.ram[i] = Billed(q2, i)
  BY <1>1, <1>2 DEF Billed
<1>6. q2 \in QueueType
  BY <1>1, <1>3, <1>4, <1>5, Zenon DEF QueueType
<1>7. SameElsewhere(q, q2, a) /\ q2.generated[a] = NoTrx /\ q2.last[a] = status
  BY <1>1, <1>2, Zenon DEF SameElsewhere
<1> QED BY <1>5, <1>6, <1>7, Zenon DEF QueueSound

(* A cancellation empties the place of a (cancel_deferred_transaction).    *)
LEMMA CancelKeepsQueue ==
    ASSUME NEW q, QueueSound(q), NEW a \in Ids, NEW q2, q2 = CancelDeferred(q, a)
    PROVE  /\ QueueSound(q2)
           /\ SameElsewhere(q, q2, a)
           /\ q2.generated[a] = NoTrx
           /\ q2.last[a] = IF q.generated[a] = NoTrx THEN q.last[a] ELSE "cancelled"
<1>1. CASE q.generated[a] = NoTrx
  BY <1>1, Zenon DEF CancelDeferred, SameElsewhere
<1>2. CASE q.generated[a] # NoTrx
  <2>1. q2 = RemoveScheduled(q, a, "cancelled") /\ "cancelled" \in Receipts
    BY <1>2, Zenon DEF CancelDeferred, Receipts
  <2> QED BY <2>1, <1>2, RemoveKeepsQueue
<1> QED BY <1>1, <1>2, Zenon

(* A new transaction takes the place of a, due after its delay             *)
(* (schedule_deferred_transaction).                                        *)
LEMMA ScheduleKeepsQueue ==
    ASSUME NEW q, QueueSound(q), NEW a \in Ids, NEW delay \in Nat, time \in Nat,
           NEW q2, q2 = ScheduleDeferred(q, a, delay)
    PROVE  /\ QueueSound(q2)
           /\ SameElsewhere(q, q2, a)
           /\ q2.generated[a] # NoTrx /\ q2.generated[a].delay_until = time + delay
           /\ q2.last[a] = "none"
<1> DEFINE t == [published   |-> time,
                 delay_until |-> time + delay,
                 expiration  |-> time + delay + deferred_trx_expiration_window]
<1>1. /\ q2.generated = [q.generated EXCEPT ![a] = t]
      /\ q2.last = [q.last EXCEPT ![a] = "none"]
      /\ q2.ram = [q.ram EXCEPT ![a] = @ + 1 - Billed(q, a)]
      /\ q2 = [generated |-> q2.generated, ram |-> q2.ram, last |-> q2.last]
  BY Zenon DEF ScheduleDeferred
<1>2. /\ q.generated \in [Ids -> GeneratedTransaction \cup {NoTrx}]
      /\ q.ram \in [Ids -> Nat] /\ q.last \in [Ids -> Receipts]
      /\ \A i \in Ids : q.ram[i] = Billed(q, i)
  BY Zenon DEF QueueSound, QueueType
<1>3. t \in GeneratedTransaction /\ t.delay_until = time + delay
  BY StakingAssumption DEF GeneratedTransaction
<1>4. t # NoTrx
  BY <1>3, StakingAssumption, Zenon
<1> HIDE DEF t
<1>5. q2.generated \in [Ids -> GeneratedTransaction \cup {NoTrx}] /\ q2.generated[a] = t
  BY <1>1, <1>2, <1>3
<1>6. q2.last \in [Ids -> Receipts] /\ q2.last[a] = "none"
  BY <1>1, <1>2 DEF Receipts
<1>7. q2.ram \in [Ids -> Nat] /\ \A i \in Ids : q2.ram[i] = Billed(q2, i)
  BY <1>1, <1>2, <1>4 DEF Billed
<1>8. q2 \in QueueType
  BY <1>1, <1>5, <1>6, <1>7, Zenon DEF QueueType
<1>9. SameElsewhere(q, q2, a)
  BY <1>1, <1>2, Zenon DEF SameElsewhere
<1> QED BY <1>3, <1>4, <1>5, <1>6, <1>7, <1>8, <1>9, Zenon DEF QueueSound

-----------------------------------------------------------------------------
(* The two ways through changebw *)

(* What every change books, given the owner of the stake, the request it   *)
(* leaves and the payment it takes.                                        *)
Booked(source, from, receiver, net, cpu, request, payment) ==
    /\ Covers(delband[from][receiver], net, cpu)
    /\ Covers(userres[receiver], net, cpu)
    /\ staked[from] + net + cpu >= 0
    /\ payment > 0 => CanTransfer(balance, source, stake, payment)
    /\ delband' = [delband EXCEPT ![from][receiver] = Plus(@, net, cpu)]
    /\ userres' = [userres EXCEPT ![receiver] = Plus(@, net, cpu)]
    /\ staked' = [staked EXCEPT ![from] = @ + net + cpu]
    /\ refunds' = [refunds EXCEPT ![from] = request]
    /\ balance' = Moved(balance, source, stake, payment)
    /\ time' = time /\ supply' = supply

(* The queue when a request remains, and when none does.                   *)
SettledQueue(q, a, request) ==
    IF request # NoRefund THEN ScheduleDeferred(CancelDeferred(q, a), a, refund_delay)
    ELSE CancelDeferred(q, a)

(* A change that settles the refund of source.                             *)
SettledChange(source, receiver, net, cpu, request) ==
    /\ request = RefundAfter(refunds[source], net, cpu)
    /\ Booked(source, source, receiver, net, cpu, request,
              SettledPayment(refunds[source], net, cpu))
    /\ queue' = SettledQueue(queue, source, request)

(* A delegation that leaves the request of the owner as it is.             *)
PlainChange(source, from, receiver, net, cpu) ==
    /\ Booked(source, from, receiver, net, cpu, refunds[from], net + cpu)
    /\ queue' = CancelDeferred(queue, from)

(* changebw is one or the other, by SettlesRefund.                         *)
LEMMA ChangeCases ==
    ASSUME NEW source, NEW receiver, NEW net, NEW cpu, NEW transfer_ \in BOOLEAN,
           net + cpu < 0 => ~transfer_,
           changebw(source, receiver, net, cpu, transfer_)
    PROVE  \/ /\ net + cpu < 0 \/ source = receiver
              /\ \E request : SettledChange(source, receiver, net, cpu, request)
           \/ /\ ~(net + cpu < 0)
              /\ \E from \in {source, receiver} : PlainChange(source, from, receiver, net, cpu)
<1>1. CASE net + cpu < 0 \/ (source = receiver /\ ~transfer_)
  <2>1. SettlesRefund(source, receiver, net, cpu, transfer_) /\ ~transfer_
    BY <1>1, Zenon DEF SettlesRefund
  <2>2. SettledChange(source, receiver, net, cpu, RefundAfter(refunds[source], net, cpu))
    BY <2>1, Zenon DEF changebw, StakeOwner, SettledChange, Booked, SettledQueue
  <2> QED BY <1>1, <2>2, Zenon
<1>2. CASE ~(net + cpu < 0) /\ ~(source = receiver /\ ~transfer_)
  <2>1. ~SettlesRefund(source, receiver, net, cpu, transfer_)
    BY <1>2, Zenon DEF SettlesRefund
  <2>2. PlainChange(source, StakeOwner(source, receiver, transfer_), receiver, net, cpu)
    BY <2>1, Zenon DEF changebw, PlainChange, Booked
  <2>3. StakeOwner(source, receiver, transfer_) \in {source, receiver}
    BY Zenon DEF StakeOwner
  <2> QED BY <1>2, <2>2, <2>3, Zenon
<1> QED BY <1>1, <1>2, Zenon

-----------------------------------------------------------------------------
(* The invariant *)

(* The change of one request and one transaction keeps all the others      *)
(* sound.                                                                  *)
LEMMA OneChanges ==
    ASSUME IInv, NEW a \in Accounts, NEW r, time' = time,
           QueueSound(queue)', SameElsewhere(queue, queue', a),
           refunds' = [refunds EXCEPT ![a] = r], RequestSound(r, queue', a, time)
    PROVE  /\ refunds' \in [Accounts -> RefundRequest \cup {NoRefund}]
           /\ \A b \in Accounts : RequestSound(refunds[b], queue, b, time)'
<1>1. refunds \in [Accounts -> RefundRequest \cup {NoRefund}] /\ Ids = Accounts
  BY StakingAssumption, Zenon DEF IInv, TypeOK
<1>2. r \in RefundRequest \cup {NoRefund}
  BY Zenon DEF RequestSound, IsRequest
<1>3. refunds' \in [Accounts -> RefundRequest \cup {NoRefund}] /\ refunds'[a] = r
      /\ \A b \in Accounts \ {a} : refunds'[b] = refunds[b]
  BY <1>1, <1>2, Zenon
<1>4. ASSUME NEW b \in Accounts
      PROVE  RequestSound(refunds'[b], queue', b, time)
  <2>1. CASE b = a
    BY <2>1, <1>3, Zenon
  <2>2. CASE b # a
    <3>1. RequestSound(refunds[b], queue, b, time)
      BY Zenon DEF IInv
    <3>2. refunds'[b] = refunds[b] /\ queue'.generated[b] = queue.generated[b]
          /\ queue'.last[b] = queue.last[b]
      BY <2>2, <1>1, <1>3, Zenon DEF SameElsewhere
    <3> QED BY <3>1, <3>2, Zenon DEF RequestSound
  <2> QED BY <2>1, <2>2, Zenon
<1> QED BY <1>3, <1>4, Zenon

(* The balances stay balances when a payment that is covered moves.        *)
LEMMA MovedType ==
    ASSUME NEW b \in [Holders -> Nat], NEW x \in Holders, NEW y \in Holders, x # y,
           NEW n \in Nat, n > 0 => CanTransfer(b, x, y, n)
    PROVE  /\ Moved(b, x, y, n) \in [Holders -> Nat]
           /\ Moved(b, x, y, n)[x] = b[x] - n
           /\ Moved(b, x, y, n)[y] = b[y] + n
           /\ \A h \in Holders \ {x, y} : Moved(b, x, y, n)[h] = b[h]
BY DEF Moved, CanTransfer

(* What a change books has its type: no weight, vote or balance becomes    *)
(* negative (the asserts of changebw and sub_balance).                     *)
LEMMA BookedTypes ==
    ASSUME TypeOK, NEW source \in Accounts, NEW from \in Accounts, NEW receiver \in Accounts,
           NEW net \in Int, NEW cpu \in Int, NEW request, NEW payment \in Nat,
           Booked(source, from, receiver, net, cpu, request, payment)
    PROVE  /\ (time \in Nat)' /\ (supply \in 0 .. max_supply)'
           /\ (balance \in [Holders -> Nat])'
           /\ (delband \in [Accounts -> [Accounts -> Weights]])'
           /\ (userres \in [Accounts -> Weights])'
           /\ (staked \in [Accounts -> Nat])'
<1>1. (time \in Nat)' /\ (supply \in 0 .. max_supply)'
  BY Zenon DEF TypeOK, Booked
<1>2. (balance \in [Holders -> Nat])'
  <2>1. source \in Holders /\ stake \in Holders /\ source # stake
    BY StakingAssumption, Zenon
  <2> QED BY <2>1, MovedType, Zenon DEF TypeOK, Booked
<1>3. ASSUME NEW w \in Weights, Covers(w, net, cpu)
      PROVE  Plus(w, net, cpu) \in Weights
  BY <1>3 DEF Weights, Covers, Plus
<1>4. (userres \in [Accounts -> Weights])'
  BY <1>3, Zenon DEF TypeOK, Booked
<1>5. (delband \in [Accounts -> [Accounts -> Weights]])'
  <2>1. delband[from][receiver] \in Weights
    BY Zenon DEF TypeOK
  <2>2. Plus(delband[from][receiver], net, cpu) \in Weights
    BY <1>3, <2>1, Zenon DEF Booked
  <2> QED BY <2>2, Zenon DEF TypeOK, Booked
<1>6. (staked \in [Accounts -> Nat])'
  BY DEF TypeOK, Booked
<1> QED BY <1>1, <1>2, <1>4, <1>5, <1>6, Zenon

(* SameElsewhere is transitive.                                            *)
LEMMA SameElsewhereTrans ==
    ASSUME NEW q1, NEW q2, NEW q3, NEW a, SameElsewhere(q1, q2, a), SameElsewhere(q2, q3, a)
    PROVE  SameElsewhere(q1, q3, a)
BY Zenon DEF SameElsewhere

(* A settled request has a transaction that is due after the delay.        *)
LEMMA SettledQueueSound ==
    ASSUME NEW q, QueueSound(q), NEW a \in Accounts, time \in Nat, NEW r, IsRequest(r),
           r # NoRefund => Amount(r) > 0 /\ r.request_time <= time,
           NEW q2, q2 = SettledQueue(q, a, r)
    PROVE  QueueSound(q2) /\ SameElsewhere(q, q2, a) /\ RequestSound(r, q2, a, time)
<1> DEFINE q1 == CancelDeferred(q, a)
<1>0. a \in Ids /\ refund_delay \in Nat
  BY StakingAssumption, Zenon
<1>1. QueueSound(q1) /\ SameElsewhere(q, q1, a)
  BY <1>0, CancelKeepsQueue, Zenon
<1>2. CASE r = NoRefund
  BY <1>1, <1>2, Zenon DEF SettledQueue, RequestSound
<1>3. CASE r # NoRefund
  <2>1. q2 = ScheduleDeferred(q1, a, refund_delay)
    BY <1>3, Zenon DEF SettledQueue
  <2> HIDE DEF q1
  <2>2. /\ QueueSound(q2) /\ SameElsewhere(q1, q2, a)
        /\ q2.generated[a] # NoTrx /\ q2.generated[a].delay_until = time + refund_delay
        /\ q2.last[a] = "none"
    BY <1>0, <1>1, <2>1, ScheduleKeepsQueue
  <2>3. r.request_time \in Nat
    BY <1>3, Zenon DEF IsRequest, RefundRequest
  <2>4. r.request_time + refund_delay <= time + refund_delay
    BY <2>3, <1>0, <1>3
  <2>5. RequestSound(r, q2, a, time)
    BY <2>2, <2>4, <1>3, Zenon DEF RequestSound
  <2> QED BY <1>1, <2>2, <2>5, SameElsewhereTrans, Zenon
<1> QED BY <1>2, <1>3, Zenon

(* The conjuncts of the invariant from what the lemmas give.               *)
LEMMA ChangeKeepsInvariant ==
    ASSUME IInv, NEW source \in Accounts, NEW from \in Accounts, NEW receiver \in Accounts,
           NEW net \in Int, NEW cpu \in Int, NEW request, NEW payment \in Nat,
           Booked(source, from, receiver, net, cpu, request, payment),
           QueueSound(queue)', SameElsewhere(queue, queue', from),
           RequestSound(request, queue', from, time)
    PROVE  IInv'
<1>1. /\ (time \in Nat)' /\ (supply \in 0 .. max_supply)'
      /\ (balance \in [Holders -> Nat])'
      /\ (delband \in [Accounts -> [Accounts -> Weights]])'
      /\ (userres \in [Accounts -> Weights])'
      /\ (staked \in [Accounts -> Nat])'
  BY BookedTypes, Zenon DEF IInv
<1>2. time' = time /\ refunds' = [refunds EXCEPT ![from] = request]
  BY Zenon DEF Booked
<1>3. /\ refunds' \in [Accounts -> RefundRequest \cup {NoRefund}]
      /\ \A b \in Accounts : RequestSound(refunds[b], queue, b, time)'
  BY <1>2, OneChanges, Zenon
<1>4. queue' \in QueueType
  BY Zenon DEF QueueSound
<1> QED BY <1>1, <1>3, <1>4, Zenon DEF IInv, TypeOK

(* What a settled change does to the request and the payment (changebw).   *)
LEMMA SettledFacts ==
    ASSUME IInv, NEW source \in Accounts, NEW receiver, NEW net, NEW cpu,
           SameSign(net, cpu), NEW request, SettledChange(source, receiver, net, cpu, request),
           NEW r, r = refunds[source], NEW pay, pay = SettledPayment(r, net, cpu)
    PROVE  /\ IsRequest(r) /\ (r # NoRefund => Amount(r) > 0 /\ r.request_time <= time)
           /\ IsRequest(request)
           /\ request # NoRefund => /\ Amount(request) > 0 /\ request.request_time <= time
                                    /\ request.request_time = RequestTime(r, net, cpu)
           /\ pay \in Nat
           /\ Amount(RefundWeights(request)) - pay = Amount(RefundWeights(r)) - net - cpu
<1>1. RequestSound(r, queue, source, time) /\ time \in Nat
  BY Zenon DEF IInv, TypeOK
<1>2. IsRequest(r) /\ (r # NoRefund => Amount(r) > 0 /\ r.request_time <= time)
  BY <1>1, Zenon DEF RequestSound
<1>3. request = RefundAfter(r, net, cpu)
  BY Zenon DEF SettledChange
<1> QED BY <1>1, <1>2, <1>3, RefundAfterFacts

(* An undelegation or a delegation to oneself keeps the invariant          *)
(* (changebw).                                                             *)
LEMMA SettledKeepsInvariant ==
    ASSUME IInv, NEW source \in Accounts, NEW receiver \in Accounts, NEW net, NEW cpu,
           SameSign(net, cpu), NEW request, SettledChange(source, receiver, net, cpu, request)
    PROVE  IInv'
<1> DEFINE r == refunds[source]
           pay == SettledPayment(r, net, cpu)
<1>1. /\ IsRequest(request) /\ pay \in Nat
      /\ request # NoRefund => Amount(request) > 0 /\ request.request_time <= time
  BY SettledFacts
<1>2. QueueSound(queue) /\ time \in Nat /\ net \in Int /\ cpu \in Int
  BY Zenon DEF IInv, TypeOK, SameSign
<1>3. /\ queue' = SettledQueue(queue, source, request)
      /\ Booked(source, source, receiver, net, cpu, request, pay)
  BY Zenon DEF SettledChange
<1>4. /\ QueueSound(queue)' /\ SameElsewhere(queue, queue', source)
      /\ RequestSound(request, queue', source, time)
  BY <1>1, <1>2, <1>3, SettledQueueSound, Zenon
<1> HIDE DEF pay
<1> QED BY <1>1, <1>2, <1>3, <1>4, ChangeKeepsInvariant, Zenon

(* So does a delegation to another account, which cancels the deferred     *)
(* refund and keeps the request (changebw).                                *)
LEMMA PlainKeepsInvariant ==
    ASSUME IInv, NEW source \in Accounts, NEW from \in Accounts, NEW receiver \in Accounts,
           NEW net \in Nat, NEW cpu \in Nat, PlainChange(source, from, receiver, net, cpu)
    PROVE  IInv'
<1> DEFINE r == refunds[from]
<1>1. QueueSound(queue) /\ from \in Ids /\ net + cpu \in Nat /\ net \in Int /\ cpu \in Int
  BY StakingAssumption DEF IInv
<1>2. /\ queue' = CancelDeferred(queue, from)
      /\ Booked(source, from, receiver, net, cpu, r, net + cpu)
  BY Zenon DEF PlainChange
<1>3. /\ QueueSound(queue)' /\ SameElsewhere(queue, queue', from)
      /\ queue'.generated[from] = NoTrx
      /\ queue'.last[from] = IF queue.generated[from] = NoTrx THEN queue.last[from] ELSE "cancelled"
  BY <1>1, <1>2, CancelKeepsQueue, Zenon
<1>4. RequestSound(r, queue, from, time)
  BY Zenon DEF IInv
<1>5. RequestSound(r, queue', from, time)
  BY <1>3, <1>4, Zenon DEF RequestSound
<1> HIDE DEF r
<1> QED BY <1>1, <1>2, <1>3, <1>5, ChangeKeepsInvariant, Zenon

(* A change of bandwidth keeps the invariant (changebw).                   *)
LEMMA ChangebwKeepsInvariant ==
    ASSUME IInv, NEW source \in Accounts, NEW receiver \in Accounts, NEW net, NEW cpu,
           SameSign(net, cpu), NEW transfer_ \in BOOLEAN, net + cpu < 0 => ~transfer_,
           changebw(source, receiver, net, cpu, transfer_)
    PROVE  IInv'
<1>1. CASE \E request : SettledChange(source, receiver, net, cpu, request)
  BY <1>1, SettledKeepsInvariant, Zenon
<1>2. CASE ~(net + cpu < 0)
           /\ \E from \in {source, receiver} : PlainChange(source, from, receiver, net, cpu)
  <2>1. net \in Nat /\ cpu \in Nat
    BY <1>2 DEF SameSign
  <2> QED BY <1>2, <2>1, PlainKeepsInvariant, Zenon
<1> QED BY <1>1, <1>2, ChangeCases

(* A refund that is paid (refund).                                         *)
LEMMA PaidRefund ==
    ASSUME IInv, NEW owner \in Accounts, PayRefund(owner),
           NEW n, n = Amount(refunds[owner])
    PROVE  /\ n \in Nat /\ n > 0 /\ n = RefundAmount(owner)
           /\ (balance \in [Holders -> Nat])'
           /\ balance'[owner] = balance[owner] + n /\ balance'[stake] = balance[stake] - n
           /\ \A b \in Accounts \ {owner} : balance'[b] = balance[b]
<1> DEFINE r == refunds[owner]
<1>1. IsRequest(r) /\ r # NoRefund /\ n > 0
  BY Zenon DEF IInv, RequestSound, PayRefund, CanRefund
<1>2. n \in Nat
  BY <1>1 DEF IsRequest, RefundRequest, Amount
<1>3. n = RefundAmount(owner)
  BY <1>1, RefundWeightsType, Zenon DEF RefundAmount, Amount
<1>4. /\ owner \in Holders /\ stake \in Holders /\ owner # stake
      /\ \A b \in Accounts \ {owner} : b \in Holders \ {stake, owner}
  BY StakingAssumption, Zenon
<1>5. balance \in [Holders -> Nat] /\ balance' = Moved(balance, stake, owner, n)
      /\ CanTransfer(balance, stake, owner, n)
  BY Zenon DEF IInv, TypeOK, PayRefund, CanRefund
<1> HIDE DEF r
<1>6. /\ balance' \in [Holders -> Nat]
      /\ balance'[stake] = balance[stake] - n /\ balance'[owner] = balance[owner] + n
      /\ \A h \in Holders \ {stake, owner} : balance'[h] = balance[h]
  BY <1>2, <1>4, <1>5, MovedType
<1> QED BY <1>1, <1>2, <1>3, <1>4, <1>6, Zenon

(* A refund keeps the invariant, whether its deferred transaction leaves   *)
(* the table or stays (refund, push_scheduled_transaction).                *)
LEMMA PayRefundKeepsInvariant ==
    ASSUME IInv, NEW owner \in Accounts, PayRefund(owner),
           QueueSound(queue)', SameElsewhere(queue, queue', owner)
    PROVE  IInv'
<1>1. /\ time' = time /\ supply' = supply /\ delband' = delband
      /\ userres' = userres /\ staked' = staked
      /\ refunds' = [refunds EXCEPT ![owner] = NoRefund]
  BY Zenon DEF PayRefund
<1>2. (balance \in [Holders -> Nat])'
  BY PaidRefund, Zenon
<1>3. RequestSound(NoRefund, queue', owner, time)
  BY Zenon DEF RequestSound, IsRequest
<1>4. /\ refunds' \in [Accounts -> RefundRequest \cup {NoRefund}]
      /\ \A b \in Accounts : RequestSound(refunds[b], queue, b, time)'
  BY <1>1, <1>3, OneChanges, Zenon
<1>5. queue' \in QueueType
  BY Zenon DEF QueueSound
<1> QED BY <1>1, <1>2, <1>4, <1>5, Zenon DEF IInv, TypeOK

(* A deferred refund that leaves the table with the receipt of a failure   *)
(* keeps the invariant, and so does one that stays                         *)
(* (push_scheduled_transaction).                                           *)
LEMMA RetireKeepsInvariant ==
    ASSUME IInv, NEW owner \in Accounts, queue.generated[owner] # NoTrx,
           queue' \in {queue, RemoveScheduled(queue, owner, "failed")},
           UNCHANGED <<time, balance, supply, delband, userres, refunds, staked>>
    PROVE  IInv'
<1>1. QueueSound(queue) /\ RequestSound(refunds[owner], queue, owner, time)
      /\ owner \in Ids /\ "failed" \in Receipts
  BY StakingAssumption, Zenon DEF IInv, Receipts
<1>2. CASE queue' = queue
  BY <1>2, Zenon DEF IInv, TypeOK, QueueSound, QueueType, Billed, RequestSound
<1>3. CASE queue' = RemoveScheduled(queue, owner, "failed")
  <2>1. /\ QueueSound(queue') /\ SameElsewhere(queue, queue', owner)
        /\ queue'.generated[owner] = NoTrx /\ queue'.last[owner] = "failed"
    BY <1>1, <1>3, RemoveKeepsQueue
  <2>2. RequestSound(refunds[owner], queue', owner, time)
    BY <1>1, <2>1, Zenon DEF RequestSound
  <2>3. refunds' = [refunds EXCEPT ![owner] = refunds[owner]]
    BY Zenon DEF IInv, TypeOK
  <2>4. /\ refunds' \in [Accounts -> RefundRequest \cup {NoRefund}]
        /\ \A b \in Accounts : RequestSound(refunds[b], queue, b, time)'
    BY <2>1, <2>2, <2>3, OneChanges, Zenon
  <2>5. queue' \in QueueType
    BY <2>1, Zenon DEF QueueSound
  <2> QED BY <2>1, <2>4, <2>5, Zenon DEF IInv, TypeOK
<1> QED BY <1>2, <1>3, Zenon

(* A token transfer or issue keeps the invariant (token::transfer and      *)
(* token::issue).                                                          *)
LEMMA TokenKeepsInvariant ==
    ASSUME IInv, tokenAction
    PROVE  IInv'
<1>1. /\ time' = time /\ queue' = queue /\ delband' = delband
      /\ userres' = userres /\ refunds' = refunds /\ staked' = staked
  BY Zenon DEF tokenAction
<1>2. PICK to \in Holders, n \in Amounts :
         issue(to, n) \/ \E a \in Accounts : transfer(a, to, n)
  BY Zenon DEF tokenAction
<1>3. balance \in [Holders -> Nat] /\ supply \in 0 .. max_supply
  BY Zenon DEF IInv, TypeOK
<1>4. n \in Nat /\ max_supply \in Nat /\ \A x \in Accounts : x \in Holders
  BY StakingAssumption, Zenon
<1>5. balance' \in [Holders -> Nat] /\ supply' \in 0 .. max_supply
  <2>1. CASE issue(to, n)
    BY <2>1, <1>3, <1>4 DEF issue
  <2>2. ASSUME NEW a \in Accounts, transfer(a, to, n)
        PROVE  balance' \in [Holders -> Nat] /\ supply' \in 0 .. max_supply
    BY <2>2, <1>3, <1>4, MovedType, Zenon DEF transfer, CanTransfer
  <2> QED BY <1>2, <2>1, <2>2, Zenon
<1>6. QueueSound(queue)' /\ \A x \in Accounts : RequestSound(refunds[x], queue, x, time)'
  BY <1>1, Zenon DEF IInv, QueueSound, QueueType, Billed, RequestSound
<1> QED BY <1>1, <1>5, <1>6, Zenon DEF IInv, TypeOK

(* Time only makes a request older (start_block).                          *)
LEMMA NextBlockKeepsInvariant ==
    ASSUME IInv, NextBlock
    PROVE  IInv'
<1>1. /\ time' = time + 1 /\ time \in Nat /\ queue' = queue /\ refunds' = refunds
      /\ balance' = balance /\ supply' = supply /\ delband' = delband
      /\ userres' = userres /\ staked' = staked
  BY Zenon DEF NextBlock, IInv, TypeOK
<1>2. QueueSound(queue)'
  BY <1>1, Zenon DEF IInv, QueueSound, QueueType, Billed
<1>3. ASSUME NEW a \in Accounts
      PROVE  RequestSound(refunds[a], queue, a, time + 1)
  <2>1. RequestSound(refunds[a], queue, a, time)
    BY Zenon DEF IInv
  <2>2. refunds[a] # NoRefund => refunds[a].request_time \in Nat /\ refunds[a].request_time <= time
    BY <2>1, Zenon DEF RequestSound, IsRequest, RefundRequest
  <2>3. refunds[a] # NoRefund => refunds[a].request_time <= time + 1
    BY <2>2, <1>1
  <2> QED BY <2>1, <2>3, Zenon DEF RequestSound
<1> QED BY <1>1, <1>2, <1>3 DEF IInv, TypeOK

(* The first state satisfies the invariant.                                *)
LEMMA InitInvariant == Init => IInv
<1> SUFFICES ASSUME Init PROVE IInv
  BY Zenon
<1>1. balance \in [Holders -> Nat]
  <2>1. PICK e \in Endowments : balance = [h \in Holders |-> IF h = stake THEN 0 ELSE e[h]]
    BY Zenon DEF Init
  <2>2. e \in [Accounts -> Nat] /\ \A h \in Holders : h # stake => h \in Accounts
    BY StakingAssumption, Zenon
  <2> QED BY <2>1, <2>2, Zenon
<1>2. queue \in QueueType
  BY Zenon DEF Init, EmptyQueue, QueueType, Receipts
<1>3. \A i \in Ids : queue.ram[i] = Billed(queue, i)
  BY Zenon DEF Init, EmptyQueue, Billed
<1>4. Zero \in Weights
  BY Zenon DEF Zero, Weights
<1>5. /\ time \in Nat /\ supply \in 0 .. max_supply
      /\ delband \in [Accounts -> [Accounts -> Weights]]
      /\ userres \in [Accounts -> Weights]
      /\ refunds \in [Accounts -> RefundRequest \cup {NoRefund}]
      /\ staked \in [Accounts -> Nat]
  BY <1>4, Zenon DEF Init
<1>6. \A a \in Accounts : RequestSound(refunds[a], queue, a, time)
  BY Zenon DEF Init, RequestSound, IsRequest
<1> QED BY <1>1, <1>2, <1>3, <1>5, <1>6, Zenon DEF IInv, TypeOK, QueueSound

(* What the guards of the two delegations say of the amounts.              *)
LEMMA DelegationSigns ==
    ASSUME NEW net \in Amounts, NEW cpu \in Amounts, NEW from, NEW receiver,
           NEW transfer_ \in BOOLEAN, CanDelegate(from, receiver, net, cpu, transfer_)
    PROVE  SameSign(net, cpu) /\ net + cpu > 0 /\ ~(net + cpu < 0)
BY StakingAssumption DEF SameSign, CanDelegate

(* An undelegation passes both amounts on with the opposite sign.          *)
LEMMA UndelegationSigns ==
    ASSUME NEW net \in Amounts, NEW cpu \in Amounts, net + cpu > 0
    PROVE  SameSign(-net, -cpu) /\ (-net) + (-cpu) < 0
BY StakingAssumption DEF SameSign

(* A deferred refund that the producer takes is paid and retired, or       *)
(* leaves all but the queue as it is (push_scheduled_transaction).         *)
LEMMA PushCases ==
    ASSUME NEW owner, push_scheduled_transaction(owner)
    PROVE  /\ queue.generated[owner] # NoTrx
           /\ \/ /\ PayRefund(owner)
                 /\ queue' = RemoveScheduled(queue, owner, "executed")
              \/ /\ queue' \in {queue, RemoveScheduled(queue, owner, "failed")}
                 /\ UNCHANGED <<time, balance, supply, delband, userres, refunds, staked>>
BY Zenon DEF push_scheduled_transaction, IsReady, RetireExpired, RetireFailed, tokenVars

(* Every step keeps the invariant.                                         *)
LEMMA NextInvariant == IInv /\ [Next]_vars => IInv'
<1> SUFFICES ASSUME IInv, [Next]_vars PROVE IInv'
  BY Zenon
<1>1. ASSUME NEW from \in Accounts, NEW receiver \in Accounts, NEW net \in Amounts,
             NEW cpu \in Amounts, NEW transfer_ \in BOOLEAN,
             \/ delegatebw(from, receiver, net, cpu, transfer_)
             \/ \E count \in PeriodCounts : escrowbw(from, receiver, net, cpu, transfer_, count)
      PROVE  IInv'
  <2>1. /\ CanDelegate(from, receiver, net, cpu, transfer_)
        /\ changebw(from, receiver, net, cpu, transfer_)
    BY <1>1, Zenon DEF delegatebw, escrowbw
  <2>2. SameSign(net, cpu) /\ ~(net + cpu < 0)
    BY <2>1, DelegationSigns, Zenon
  <2> QED BY <2>1, <2>2, ChangebwKeepsInvariant, Zenon
<1>2. ASSUME NEW from \in Accounts, NEW receiver \in Accounts, NEW net \in Amounts,
             NEW cpu \in Amounts, undelegatebw(from, receiver, net, cpu)
      PROVE  IInv'
  <2>1. net + cpu > 0 /\ changebw(from, receiver, -net, -cpu, FALSE)
    BY <1>2, Zenon DEF undelegatebw
  <2>2. SameSign(-net, -cpu)
    BY <2>1, UndelegationSigns, Zenon
  <2> QED BY <2>1, <2>2, ChangebwKeepsInvariant, Zenon
<1>3. ASSUME NEW owner \in Accounts, refund(owner)
      PROVE  IInv'
  <2>1. PayRefund(owner) /\ queue' = queue
    BY <1>3, Zenon DEF refund
  <2>2. QueueSound(queue)' /\ SameElsewhere(queue, queue', owner)
    BY <2>1, Zenon DEF IInv, QueueSound, QueueType, Billed, SameElsewhere
  <2> QED BY <2>1, <2>2, PayRefundKeepsInvariant, Zenon
<1>4. ASSUME NEW owner \in Accounts, push_scheduled_transaction(owner)
      PROVE  IInv'
  <2>1. CASE PayRefund(owner) /\ queue' = RemoveScheduled(queue, owner, "executed")
    <3>1. QueueSound(queue) /\ owner \in Ids /\ "executed" \in Receipts
      BY StakingAssumption, Zenon DEF IInv, Receipts
    <3>2. QueueSound(queue') /\ SameElsewhere(queue, queue', owner)
      BY <1>4, <2>1, <3>1, PushCases, RemoveKeepsQueue, Zenon
    <3> QED BY <2>1, <3>2, PayRefundKeepsInvariant, Zenon
  <2>2. CASE /\ queue' \in {queue, RemoveScheduled(queue, owner, "failed")}
             /\ UNCHANGED <<time, balance, supply, delband, userres, refunds, staked>>
    BY <1>4, <2>2, PushCases, RetireKeepsInvariant, Zenon
  <2> QED BY <1>4, <2>1, <2>2, PushCases, Zenon
<1>5. CASE UNCHANGED vars
  BY <1>5, Zenon DEF vars, IInv, TypeOK, QueueSound, QueueType, Billed, RequestSound
<1> QED BY <1>1, <1>2, <1>3, <1>4, <1>5, TokenKeepsInvariant, NextBlockKeepsInvariant, Zenon DEF Next

(* The invariant holds in every state.                                     *)
LEMMA Invariance == Spec => []IInv
BY InitInvariant, NextInvariant, PTL DEF Spec

-----------------------------------------------------------------------------
(* Every weight, vote, balance and RAM bill of staking is a natural number *)
(* and the supply stays within max_supply, whatever the accounts and the   *)
(* amounts (the asserts of changebw, sub_balance and token::issue).        *)
THEOREM StakingTypeCorrect == Spec => []TypeOK
<1>1. IInv => TypeOK
  BY Zenon DEF IInv
<1> QED BY <1>1, Invariance, PTL

(* No account is ever billed for a generated transaction it does not have, *)
(* nor has one that it is not billed for (apply_context.cpp and            *)
(* remove_scheduled_transaction).                                          *)
THEOREM QueueIsBilled == Spec => []RamMatchesQueue
<1>1. IInv => RamMatchesQueue
  BY Zenon DEF IInv, QueueSound, RamMatchesQueue
<1> QED BY <1>1, Invariance, PTL

(* For any delay, a deferred refund never runs before the request it finds *)
(* is due (changebw).                                                      *)
THEOREM RefundsAreDue == Spec => []ScheduledRefundIsDue
<1>1. IInv => ScheduledRefundIsDue
  BY Zenon DEF IInv, RequestSound, ScheduledRefundIsDue
<1> QED BY <1>1, Invariance, PTL

(* A request without a deferred transaction lost it to a cancellation or   *)
(* with a receipt in a block (push_scheduled_transaction).                 *)
THEOREM RefundsAreScheduled == Spec => []RefundIsScheduled
<1>1. IInv => RefundIsScheduled
  BY Zenon DEF IInv, RequestSound, RefundIsScheduled
<1> QED BY <1>1, Invariance, PTL

-----------------------------------------------------------------------------
(* The refinement *)

(* When the ledger has the tokens of a request due.                        *)
DueOf(r) == IF r = NoRefund THEN 0 ELSE r.request_time + refund_delay

(* A payment to snax.stake takes liquid tokens into the pool (changebw).   *)
LEMMA PaymentMapped ==
    ASSUME TypeOK, NEW source \in Accounts, NEW pay \in Nat,
           pay > 0 => CanTransfer(balance, source, stake, pay),
           balance' = Moved(balance, source, stake, pay)
    PROVE  /\ liquid' = [liquid EXCEPT ![source] = @ - pay]
           /\ pool' = pool + pay
           /\ pay <= liquid[source] /\ liquid[source] \in Nat
<1>1. /\ source \in Holders /\ stake \in Holders /\ source # stake
      /\ \A b \in Accounts \ {source} : b \in Holders \ {source, stake}
  BY StakingAssumption, Zenon
<1>2. /\ balance'[source] = balance[source] - pay
      /\ balance'[stake] = balance[stake] + pay
      /\ \A h \in Holders \ {source, stake} : balance'[h] = balance[h]
      /\ balance[source] \in Nat
  BY <1>1, MovedType DEF TypeOK
<1>3. pay <= balance[source]
  BY <1>2 DEF CanTransfer
<1>4. liquid' = [liquid EXCEPT ![source] = @ - pay]
  BY <1>1, <1>2, Zenon DEF liquid
<1> QED BY <1>2, <1>3, <1>4, Zenon DEF liquid, pool

(* The change of one request changes the unstaking tokens of one owner.    *)
LEMMA RequestMapped ==
    ASSUME TypeOK, NEW a \in Accounts, NEW r, refunds' = [refunds EXCEPT ![a] = r]
    PROVE  /\ unstaking' = [unstaking EXCEPT ![a] = Amount(RefundWeights(r))]
           /\ due' = [due EXCEPT ![a] = DueOf(r)]
           /\ unstaking[a] = Amount(RefundWeights(refunds[a]))
           /\ due[a] = DueOf(refunds[a])
BY Zenon DEF TypeOK, unstaking, due, RefundAmount, DueOf

(* When the requests stay the ledger's view of them does.                  *)
LEMMA RequestsKept ==
    ASSUME refunds' = refunds
    PROVE  unstaking' = unstaking /\ due' = due
BY Zenon DEF unstaking, due, RefundAmount

(* A delegation that settles no refund is a step Stake of the ledger       *)
(* (changebw).                                                             *)
LEMMA PlainIsStake ==
    ASSUME IInv, NEW source \in Accounts, NEW from \in Accounts, NEW receiver \in Accounts,
           NEW net \in Nat, NEW cpu \in Nat, NEW n, n = net + cpu, n > 0,
           PlainChange(source, from, receiver, net, cpu)
    PROVE  n \in 1 .. liquid[source] /\ Ledger!Stake(source, from, n)
<1>1. /\ TypeOK /\ n \in Nat
      /\ Booked(source, from, receiver, net, cpu, refunds[from], n)
  BY DEF IInv, PlainChange
<1>2. /\ liquid' = [liquid EXCEPT ![source] = @ - n]
      /\ pool' = pool + n
      /\ n <= liquid[source] /\ liquid[source] \in Nat
  BY <1>1, PaymentMapped, Zenon DEF Booked
<1>3. unstaking' = unstaking /\ due' = due
  <2>1. refunds' = refunds
    BY <1>1, Zenon DEF Booked, TypeOK
  <2> QED BY <2>1, RequestsKept, Zenon
<1>4. staked' = [staked EXCEPT ![from] = @ + n] /\ time' = time
  <2>1. staked' = [staked EXCEPT ![from] = @ + net + cpu] /\ time' = time
        /\ staked \in [Accounts -> Nat]
    BY <1>1, Zenon DEF Booked, TypeOK
  <2>2. staked[from] + net + cpu = staked[from] + n
    BY <2>1
  <2> QED BY <2>1, <2>2, Zenon
<1>5. n \in 1 .. liquid[source]
  BY <1>1, <1>2
<1> QED BY <1>2, <1>3, <1>4, <1>5, Zenon DEF Ledger!Stake

(* Undelegating costs nothing now, and delegating to oneself no more than  *)
(* what is delegated (changebw).                                           *)
LEMMA SettledPaymentBounds ==
    ASSUME NEW r, IsRequest(r), NEW net, NEW cpu, SameSign(net, cpu),
           NEW pay, pay = SettledPayment(r, net, cpu)
    PROVE  /\ net <= 0 /\ cpu <= 0 => pay = 0
           /\ net >= 0 /\ cpu >= 0 => pay <= net + cpu
<1> DEFINE wn == RefundWeights(r).net
           wc == RefundWeights(r).cpu
           on == Owed(wn, net)
           oc == Owed(wc, cpu)
<1>1. net \in Int /\ cpu \in Int /\ wn \in Nat /\ wc \in Nat
  BY RefundWeightsType, Zenon DEF SameSign
<1>2. on \in Nat /\ oc \in Nat
  BY <1>1, RemainingOwed, Zenon
<1>3. net <= 0 /\ cpu <= 0 => on = 0 /\ oc = 0
  BY <1>1, RemainingOwed, Zenon
<1>4. net >= 0 /\ cpu >= 0 => on <= net /\ oc <= cpu
  <2> HIDE DEF wn, wc
  <2> QED BY <1>1 DEF Owed
<1>5. pay = on + oc
  BY Zenon DEF SettledPayment
<1> HIDE DEF wn, wc, on, oc
<1> QED BY <1>1, <1>2, <1>3, <1>4, <1>5

(* A request is empty exactly when there is none.                          *)
LEMMA NoRequestIsEmpty ==
    ASSUME NEW r, IsRequest(r), r # NoRefund => Amount(r) > 0
    PROVE  /\ Amount(RefundWeights(r)) \in Nat
           /\ r = NoRefund <=> Amount(RefundWeights(r)) = 0
<1>1. RefundWeights(r).net \in Nat /\ RefundWeights(r).cpu \in Nat
      /\ Amount(RefundWeights(r)) = RefundWeights(r).net + RefundWeights(r).cpu
      /\ (r # NoRefund => RefundWeights(r).net = r.net /\ RefundWeights(r).cpu = r.cpu)
      /\ (r = NoRefund => RefundWeights(r).net = 0 /\ RefundWeights(r).cpu = 0)
  BY RefundWeightsType, Zenon
<1>2. r # NoRefund => Amount(r) = Amount(RefundWeights(r))
  BY <1>1, Zenon DEF Amount
<1> QED BY <1>1, <1>2

(* An undelegation is a step Unstake of the ledger (changebw).             *)
LEMMA SettledIsUnstake ==
    ASSUME IInv, NEW source \in Accounts, NEW receiver \in Accounts, NEW net, NEW cpu,
           SameSign(net, cpu), NEW n, n = -(net + cpu), n > 0,
           NEW request, SettledChange(source, receiver, net, cpu, request)
    PROVE  n \in 1 .. staked[source] /\ Ledger!Unstake(source, n)
<1> DEFINE r == refunds[source]
           pay == SettledPayment(r, net, cpu)
           m == Amount(RefundWeights(r))
           m2 == Amount(RefundWeights(request))
<1>1. /\ IsRequest(r) /\ (r # NoRefund => Amount(r) > 0)
      /\ IsRequest(request) /\ (request # NoRefund => Amount(request) > 0)
      /\ request # NoRefund => request.request_time = RequestTime(r, net, cpu)
      /\ pay \in Nat /\ m2 - pay = m - net - cpu
  BY SettledFacts
<1>2. /\ net \in Int /\ cpu \in Int /\ net <= 0 /\ cpu <= 0 /\ n \in Nat
      /\ net < 0 \/ cpu < 0
  BY DEF SameSign
<1>3. /\ m \in Nat /\ m2 \in Nat
      /\ request = NoRefund <=> m2 = 0
  BY <1>1, NoRequestIsEmpty, Zenon
<1>4. pay = 0
  BY <1>1, <1>2, SettledPaymentBounds
<1>5. TypeOK /\ Booked(source, source, receiver, net, cpu, request, pay)
  BY Zenon DEF IInv, SettledChange
<1> HIDE DEF pay, m, m2
<1>6. m2 = m + n /\ m2 > 0
  BY <1>1, <1>2, <1>3, <1>4
<1>7. request # NoRefund /\ DueOf(request) = time + refund_delay
  BY <1>1, <1>2, <1>3, <1>6 DEF DueOf, RequestTime
<1>8. /\ unstaking' = [unstaking EXCEPT ![source] = m2]
      /\ due' = [due EXCEPT ![source] = DueOf(request)]
      /\ unstaking[source] = m
  BY <1>5, RequestMapped, Zenon DEF Booked, m, m2
<1>9. unstaking' = [unstaking EXCEPT ![source] = @ + n]
      /\ due' = [due EXCEPT ![source] = time + refund_delay]
  BY <1>6, <1>7, <1>8, Zenon
<1>10. liquid' = liquid /\ pool' = pool
  <2>1. /\ liquid' = [liquid EXCEPT ![source] = @ - 0]
        /\ pool' = pool + 0
        /\ liquid[source] \in Nat
    BY <1>4, <1>5, PaymentMapped, Zenon DEF Booked
  <2>2. balance[stake] \in Nat /\ liquid = [liquid EXCEPT ![source] = @]
    BY <1>5, StakingAssumption, Zenon DEF TypeOK, liquid
  <2> QED BY <2>1, <2>2 DEF pool
<1>11. /\ staked' = [staked EXCEPT ![source] = @ + net + cpu] /\ time' = time
       /\ staked[source] + net + cpu >= 0 /\ staked \in [Accounts -> Nat]
  BY <1>5, Zenon DEF Booked, TypeOK
<1>12. staked[source] + net + cpu = staked[source] - n /\ n \in 1 .. staked[source]
  BY <1>2, <1>11
<1>13. staked' = [staked EXCEPT ![source] = @ - n]
  BY <1>11, <1>12, Zenon
<1> QED BY <1>9, <1>10, <1>11, <1>12, <1>13, Zenon DEF Ledger!Unstake

(* A delegation to oneself is a step Restake of the ledger, or Stake when  *)
(* the request gives nothing (changebw).                                   *)
LEMMA SettledIsRestake ==
    ASSUME IInv, NEW source \in Accounts, NEW receiver \in Accounts, NEW net \in Nat,
           NEW cpu \in Nat, NEW n, n = net + cpu, n > 0,
           NEW request, SettledChange(source, receiver, net, cpu, request)
    PROVE  \/ n \in 1 .. liquid[source] /\ Ledger!Stake(source, source, n)
           \/ \E k \in 1 .. unstaking[source], l \in 0 .. liquid[source] :
                 Ledger!Restake(source, k, l)
<1> DEFINE r == refunds[source]
           pay == SettledPayment(r, net, cpu)
           m == Amount(RefundWeights(r))
           m2 == Amount(RefundWeights(request))
           k == m - m2
<1>0. SameSign(net, cpu) /\ n \in Nat
  BY DEF SameSign
<1>1. /\ IsRequest(r) /\ (r # NoRefund => Amount(r) > 0)
      /\ IsRequest(request) /\ (request # NoRefund => Amount(request) > 0)
      /\ request # NoRefund => request.request_time = RequestTime(r, net, cpu)
      /\ pay \in Nat /\ m2 - pay = m - net - cpu
  BY <1>0, SettledFacts
<1>2. /\ m \in Nat /\ m2 \in Nat
      /\ r = NoRefund <=> m = 0
      /\ request = NoRefund <=> m2 = 0
  BY <1>1, NoRequestIsEmpty, Zenon
<1>3. pay <= net + cpu
  BY <1>0, <1>1, SettledPaymentBounds
<1>4. TypeOK /\ Booked(source, source, receiver, net, cpu, request, pay)
  BY Zenon DEF IInv, SettledChange
<1>5. request # NoRefund => request.request_time = r.request_time
  BY <1>1 DEF RequestTime
<1> HIDE DEF r, pay, m, m2
<1>6. k \in Nat /\ k <= m /\ k + pay = n /\ m2 = m - k
  BY <1>0, <1>1, <1>2, <1>3
<1> HIDE DEF k
<1>7. /\ unstaking' = [unstaking EXCEPT ![source] = m2]
      /\ due' = [due EXCEPT ![source] = DueOf(request)]
      /\ unstaking[source] = m /\ due[source] = DueOf(r)
  BY <1>4, RequestMapped, Zenon DEF Booked, m, m2, r
<1>8. /\ liquid' = [liquid EXCEPT ![source] = @ - pay]
      /\ pool' = pool + pay
      /\ pay <= liquid[source] /\ liquid[source] \in Nat
  BY <1>1, <1>4, PaymentMapped, Zenon DEF Booked
<1>9. staked' = [staked EXCEPT ![source] = @ + n] /\ time' = time
  <2>1. staked' = [staked EXCEPT ![source] = @ + net + cpu] /\ time' = time
        /\ staked \in [Accounts -> Nat]
    BY <1>4, Zenon DEF Booked, TypeOK
  <2>2. staked[source] + net + cpu = staked[source] + n
    BY <2>1
  <2> QED BY <2>1, <2>2, Zenon
<1>10. CASE k = 0
  <2>1. pay = n /\ m2 = m
    BY <1>10, <1>0, <1>1, <1>2, <1>6
  <2>2. DueOf(request) = DueOf(r)
    BY <1>2, <1>5, <2>1, Zenon DEF DueOf
  <2>3. unstaking' = unstaking /\ due' = due
    <3>1. unstaking = [unstaking EXCEPT ![source] = @]
      BY Zenon DEF unstaking
    <3>2. due = [due EXCEPT ![source] = @]
      BY Zenon DEF due
    <3>3. unstaking' = unstaking
      BY <1>7, <2>1, <3>1, Zenon
    <3>4. due' = due
      BY <1>7, <2>2, <3>2, Zenon
    <3> QED BY <3>3, <3>4, Zenon
  <2>4. n \in 1 .. liquid[source]
    BY <1>0, <1>8, <2>1
  <2> QED BY <1>8, <1>9, <2>1, <2>3, <2>4, Zenon DEF Ledger!Stake
<1>11. CASE k > 0
  <2>1. k \in 1 .. unstaking[source] /\ pay \in 0 .. liquid[source]
    BY <1>11, <1>1, <1>2, <1>6, <1>7, <1>8
  <2>2. m > 0
    BY <1>11, <1>2, <1>6
  <2>3. DueOf(request) = IF m2 = 0 THEN 0 ELSE DueOf(r)
    BY <1>2, <1>5, <2>2 DEF DueOf
  <2>4. unstaking'[source] = m2
    BY <1>7, Zenon DEF unstaking
  <2>5. unstaking' = [unstaking EXCEPT ![source] = @ - k]
    BY <1>6, <1>7, Zenon
  <2>6. due' = [due EXCEPT ![source] = IF unstaking'[source] = 0 THEN 0 ELSE @]
    BY <1>7, <2>3, <2>4, Zenon
  <2>7. staked' = [staked EXCEPT ![source] = @ + (k + pay)]
    BY <1>6, <1>9, Zenon
  <2>8. Ledger!Restake(source, k, pay)
    BY <1>8, <1>9, <2>1, <2>5, <2>6, <2>7, Zenon DEF Ledger!Restake
  <2> QED BY <2>1, <2>8, Zenon
<1> QED BY <1>6, <1>10, <1>11

(* A refund that is paid is a step Pay of the ledger (refund).             *)
LEMMA RefundIsPay ==
    ASSUME IInv, NEW owner \in Accounts, PayRefund(owner)
    PROVE  Ledger!Pay(owner)
<1> DEFINE n == Amount(refunds[owner])
<1>1. /\ n \in Nat /\ n > 0 /\ n = RefundAmount(owner)
      /\ balance'[owner] = balance[owner] + n /\ balance'[stake] = balance[stake] - n
      /\ \A b \in Accounts \ {owner} : balance'[b] = balance[b]
  BY PaidRefund, Zenon
<1>2. /\ TypeOK /\ refunds' = [refunds EXCEPT ![owner] = NoRefund]
      /\ refunds[owner] # NoRefund /\ refunds[owner].request_time + refund_delay <= time
      /\ time' = time /\ staked' = staked
  BY Zenon DEF IInv, PayRefund, CanRefund
<1>3. /\ unstaking' = [unstaking EXCEPT ![owner] = Amount(RefundWeights(NoRefund))]
      /\ due' = [due EXCEPT ![owner] = DueOf(NoRefund)]
      /\ due[owner] = DueOf(refunds[owner])
  BY <1>2, RequestMapped, Zenon
<1>4. Amount(RefundWeights(NoRefund)) = 0 /\ DueOf(NoRefund) = 0 /\ due[owner] <= time
  BY <1>2, <1>3 DEF Amount, RefundWeights, Zero, DueOf
<1> HIDE DEF n
<1>5. unstaking[owner] = n
  BY <1>1, Zenon DEF unstaking
<1>6. liquid' = [liquid EXCEPT ![owner] = @ + n] /\ pool' = pool - n
  BY <1>1, Zenon DEF liquid, pool
<1> QED BY <1>1, <1>2, <1>3, <1>4, <1>5, <1>6, Zenon DEF Ledger!Pay

(* A token transfer between accounts is Send and an issue is Receive; with *)
(* snax.stake as the recipient they are Give and Endow (token::transfer,   *)
(* token::issue).                                                          *)
LEMMA TokenIsLedgerStep ==
    ASSUME IInv, tokenAction
    PROVE  \/ \E a, b \in Accounts : \E n \in 1 .. liquid[a] : Ledger!Send(a, b, n)
           \/ \E a \in Accounts : \E n \in 1 .. liquid[a] : Ledger!Give(a, n)
           \/ \E a \in Accounts : \E n \in 1 .. max_supply : Ledger!Receive(a, n)
           \/ \E n \in 1 .. max_supply : Ledger!Endow(n)
<1>1. /\ time' = time /\ refunds' = refunds /\ staked' = staked
      /\ balance \in [Holders -> Nat] /\ supply \in 0 .. max_supply
  BY Zenon DEF tokenAction, IInv, TypeOK
<1>2. PICK to \in Holders, n \in Amounts :
         issue(to, n) \/ \E a \in Accounts : transfer(a, to, n)
  BY Zenon DEF tokenAction
<1>3. n \in Nat /\ max_supply \in Nat /\ stake \notin Accounts
      /\ stake \in Holders /\ \A x \in Accounts : x \in Holders
  BY StakingAssumption, Zenon
<1>0. to \in Accounts \/ to = stake
  BY StakingAssumption, Zenon
<1>4. unstaking' = unstaking /\ due' = due
  BY <1>1, RequestsKept, Zenon
<1>5. ASSUME issue(to, n)
      PROVE  \/ \E l \in 1 .. max_supply : to \in Accounts /\ Ledger!Receive(to, l)
             \/ \E l \in 1 .. max_supply : Ledger!Endow(l)
  <2>1. n \in 1 .. max_supply /\ balance' = [balance EXCEPT ![to] = @ + n]
    BY <1>1, <1>3, <1>5 DEF issue
  <2>2. CASE to \in Accounts
    <3>1. liquid' = [liquid EXCEPT ![to] = @ + n] /\ pool' = pool
      BY <1>1, <1>3, <2>1, <2>2, Zenon DEF liquid, pool
    <3>2. Ledger!Receive(to, n)
      BY <1>1, <1>4, <3>1, Zenon DEF Ledger!Receive
    <3> QED BY <2>1, <2>2, <3>2, Zenon
  <2>3. CASE to = stake
    <3>1. liquid' = liquid /\ pool' = pool + n
      BY <1>1, <1>3, <2>1, <2>3, Zenon DEF liquid, pool
    <3>2. Ledger!Endow(n)
      BY <1>1, <1>4, <3>1, Zenon DEF Ledger!Endow
    <3> QED BY <2>1, <3>2, Zenon
  <2> QED BY <1>0, <2>2, <2>3, Zenon
<1>6. ASSUME NEW a \in Accounts, transfer(a, to, n)
      PROVE  \E l \in 1 .. liquid[a] : (to \in Accounts /\ Ledger!Send(a, to, l)) \/ Ledger!Give(a, l)
  <2>1. /\ a # to /\ n > 0 /\ balance[a] >= n
        /\ balance' = [balance EXCEPT ![a] = @ - n, ![to] = @ + n]
    BY <1>6, Zenon DEF transfer, CanTransfer, Moved
  <2>2. n \in 1 .. liquid[a]
    BY <1>1, <1>3, <2>1 DEF liquid
  <2>3. CASE to \in Accounts
    <3>1. liquid' = [liquid EXCEPT ![a] = @ - n, ![to] = @ + n] /\ pool' = pool
      BY <1>1, <1>3, <2>1, <2>3, Zenon DEF liquid, pool
    <3>2. Ledger!Send(a, to, n)
      BY <1>1, <1>4, <2>1, <2>2, <3>1, Zenon DEF Ledger!Send
    <3> QED BY <2>2, <2>3, <3>2, Zenon
  <2>4. CASE to = stake
    <3>1. liquid' = [liquid EXCEPT ![a] = @ - n] /\ pool' = pool + n
      BY <1>1, <1>3, <2>1, <2>4, Zenon DEF liquid, pool
    <3>2. Ledger!Give(a, n)
      BY <1>1, <1>4, <2>2, <3>1, Zenon DEF Ledger!Give
    <3> QED BY <2>2, <3>2, Zenon
  <2> QED BY <1>0, <2>3, <2>4, Zenon
<1> QED BY <1>2, <1>5, <1>6, Zenon

(* A step that changes neither the balances, the requests nor the votes is *)
(* none of the ledger's, or Tick.                                          *)
LEMMA ViewKept ==
    ASSUME balance' = balance, refunds' = refunds
    PROVE  liquid' = liquid /\ pool' = pool /\ unstaking' = unstaking /\ due' = due
BY RequestsKept, Zenon DEF liquid, pool

(* A change of bandwidth is a step of the ledger (changebw).               *)
LEMMA ChangebwIsLedgerStep ==
    ASSUME IInv, NEW source \in Accounts, NEW receiver \in Accounts, NEW net, NEW cpu,
           SameSign(net, cpu), net + cpu # 0, NEW transfer_ \in BOOLEAN,
           net + cpu < 0 => ~transfer_, changebw(source, receiver, net, cpu, transfer_)
    PROVE  Ledger!Next
<1>0. net \in Int /\ cpu \in Int
  BY Zenon DEF SameSign
<1>1. CASE net + cpu < 0
  <2>1. PICK request : SettledChange(source, receiver, net, cpu, request)
    BY <1>1, ChangeCases
  <2>2. -(net + cpu) > 0
    BY <1>0, <1>1
  <2>3. -(net + cpu) \in 1 .. staked[source] /\ Ledger!Unstake(source, -(net + cpu))
    BY <2>1, <2>2, SettledIsUnstake, Zenon
  <2> QED BY <2>3, Zenon DEF Ledger!Next
<1>2. CASE ~(net + cpu < 0)
  <2>1. net \in Nat /\ cpu \in Nat /\ net + cpu > 0
    BY <1>0, <1>2 DEF SameSign
  <2>2. ASSUME NEW request, SettledChange(source, receiver, net, cpu, request)
        PROVE  Ledger!Next
    BY <2>1, <2>2, SettledIsRestake, Zenon DEF Ledger!Next
  <2>3. ASSUME NEW from \in Accounts, PlainChange(source, from, receiver, net, cpu)
        PROVE  Ledger!Next
    BY <2>1, <2>3, PlainIsStake, Zenon DEF Ledger!Next
  <2> QED BY <2>2, <2>3, ChangeCases
<1> QED BY <1>1, <1>2, Zenon

(* The first state is a first state of the ledger.                         *)
LEMMA InitMapped == Init => Ledger!Init
<1> SUFFICES ASSUME Init PROVE Ledger!Init
  BY Zenon
<1>1. PICK e \in Endowments : balance = [h \in Holders |-> IF h = stake THEN 0 ELSE e[h]]
  BY Zenon DEF Init
<1>2. e \in [Accounts -> Nat] /\ stake \in Holders /\ stake \notin Accounts
      /\ \A a \in Accounts : a \in Holders
  BY StakingAssumption, Zenon
<1>3. liquid \in [Accounts -> Nat] /\ pool = 0
  BY <1>1, <1>2, Zenon DEF liquid, pool
<1>4. unstaking = [a \in Accounts |-> 0]
  BY DEF Init, unstaking, RefundAmount, RefundWeights, Zero, Amount
<1>5. due = [a \in Accounts |-> 0]
  BY Zenon DEF Init, due
<1>6. time = 0 /\ staked = [a \in Accounts |-> 0]
  BY Zenon DEF Init
<1> QED BY <1>3, <1>4, <1>5, <1>6, Zenon DEF Ledger!Init

(* Every step is a step of the ledger or changes nothing it shows.         *)
LEMMA NextMapped == IInv /\ [Next]_vars => [Ledger!Next]_(Ledger!vars)
<1> SUFFICES ASSUME IInv, [Next]_vars PROVE Ledger!Next \/ UNCHANGED Ledger!vars
  BY Zenon
<1>1. ASSUME NEW from \in Accounts, NEW receiver \in Accounts, NEW net \in Amounts,
             NEW cpu \in Amounts, NEW transfer_ \in BOOLEAN,
             \/ delegatebw(from, receiver, net, cpu, transfer_)
             \/ \E count \in PeriodCounts : escrowbw(from, receiver, net, cpu, transfer_, count)
      PROVE  Ledger!Next
  <2>1. /\ CanDelegate(from, receiver, net, cpu, transfer_)
        /\ changebw(from, receiver, net, cpu, transfer_)
    BY <1>1, Zenon DEF delegatebw, escrowbw
  <2>2. SameSign(net, cpu) /\ net + cpu > 0 /\ ~(net + cpu < 0)
    BY <2>1, DelegationSigns, Zenon
  <2>3. net + cpu # 0
    BY <2>2, Zenon DEF SameSign
  <2> QED BY <2>1, <2>2, <2>3, ChangebwIsLedgerStep, Zenon
<1>2. ASSUME NEW from \in Accounts, NEW receiver \in Accounts, NEW net \in Amounts,
             NEW cpu \in Amounts, undelegatebw(from, receiver, net, cpu)
      PROVE  Ledger!Next
  <2>1. net + cpu > 0 /\ changebw(from, receiver, -net, -cpu, FALSE)
    BY <1>2, Zenon DEF undelegatebw
  <2>2. SameSign(-net, -cpu) /\ (-net) + (-cpu) < 0
    BY <2>1, UndelegationSigns, Zenon
  <2>3. (-net) + (-cpu) # 0
    BY <2>2 DEF SameSign
  <2> QED BY <2>1, <2>2, <2>3, ChangebwIsLedgerStep, Zenon
<1>3. ASSUME NEW owner \in Accounts, refund(owner)
      PROVE  Ledger!Next
  BY <1>3, RefundIsPay, Zenon DEF refund, Ledger!Next
<1>4. ASSUME NEW owner \in Accounts, push_scheduled_transaction(owner)
      PROVE  Ledger!Next \/ UNCHANGED Ledger!vars
  <2>1. CASE PayRefund(owner)
    BY <2>1, RefundIsPay, Zenon DEF Ledger!Next
  <2>2. CASE UNCHANGED <<time, balance, supply, delband, userres, refunds, staked>>
    BY <2>2, ViewKept, Zenon DEF Ledger!vars
  <2> QED BY <1>4, <2>1, <2>2, PushCases, Zenon
<1>5. CASE tokenAction
  BY <1>5, TokenIsLedgerStep, Zenon DEF Ledger!Next
<1>6. CASE NextBlock
  <2>1. time' = time + 1 /\ staked' = staked /\ balance' = balance /\ refunds' = refunds
    BY <1>6, Zenon DEF NextBlock
  <2>2. Ledger!Tick
    BY <2>1, ViewKept, Zenon DEF Ledger!Tick
  <2> QED BY <2>2, Zenon DEF Ledger!Next
<1>7. CASE UNCHANGED vars
  BY <1>7, ViewKept, Zenon DEF vars, Ledger!vars
<1> QED BY <1>1, <1>2, <1>3, <1>4, <1>5, <1>6, <1>7, Zenon DEF Next

(* For any accounts, amounts and delays, staking implements the ledger: a  *)
(* token that leaves snax.stake goes to its owner, once, and not before    *)
(* refund_delay has passed since that owner last undelegated (changebw,    *)
(* refund and push_scheduled_transaction).                                 *)
THEOREM StakingImplementsLedger == Spec => ImplementsLedger
BY InitMapped, NextMapped, Invariance, PTL DEF Spec, ImplementsLedger, Ledger!Spec

-----------------------------------------------------------------------------
(* A nonempty set of natural numbers has a smallest one.                   *)
LEMMA SmallestNumber ==
    ASSUME NEW F, F \subseteq Nat, F # {}
    PROVE  \E n \in F : \A m \in F : n <= m
<1>1. \E n \in F : \A m \in F : ~(<<m, n>> \in OpToRel(<, Nat))
  BY NatLessThanWellFounded, WFMin, Zenon
<1>2. ASSUME NEW n \in F, NEW m \in F, ~(<<m, n>> \in OpToRel(<, Nat))
      PROVE  n <= m
  <2>1. n \in Nat /\ m \in Nat /\ ~(m < n)
    BY <1>2, Zenon DEF OpToRel
  <2> QED BY <2>1
<1> QED BY <1>1, <1>2, Zenon

(* The records that can be in escband now.                                 *)
Records == {r \in [created : Nat, period_count : Nat, initial : Nat, amount : Int] :
               r.created <= time}

(* What the loop carries after k records.                                  *)
ScanSound(s, k) ==
    /\ s \in [available : Int, enough : BOOLEAN, trapped : BOOLEAN, records : Seq(Records)]
    /\ Len(s.records) = k

(* The product of two amounts is an amount, and grows with each of them.   *)
LEMMA ProductGrows ==
    ASSUME NEW q \in Nat, NEW k \in Nat, NEW l \in Nat, k <= l
    PROVE  q * k \in Nat /\ q * k <= q * l
<1>1. q * k \in Nat
  OBVIOUS
<1>2. q * (l - k) >= 0
  OBVIOUS
<1>3. q * l = q * k + q * (l - k)
  OBVIOUS
<1> QED BY <1>1, <1>2, <1>3

(* What has vested of a record is an amount, and only grows (undelegatebw).*)
LEMMA VestedGrows ==
    ASSUME time \in Nat, NEW r \in Records
    PROVE  /\ Vested(r) \in Nat
           /\ time' = time + 1 => Vested(r)' \in Nat /\ Vested(r) <= Vested(r)'
<1> DEFINE q == r.initial \div r.period_count
           k == (time - r.created) \div EscrowPeriod + 1
           l == (time + 1 - r.created) \div EscrowPeriod + 1
<1>1. /\ r.initial \in Nat /\ r.period_count \in Nat /\ r.created \in Nat
      /\ r.created <= time /\ EscrowPeriod \in Nat \ {0}
  BY StakingAssumption, Zenon DEF Records
<1>2. CASE r.period_count = 0
  <2>1. Vested(r) = 0
    BY <1>2, Zenon DEF Vested
  <2>2. Vested(r)' = 0
    BY <1>2, Zenon DEF Vested
  <2> QED BY <2>1, <2>2
<1>3. CASE r.period_count # 0
  <2>1. q \in Nat
    BY <1>1, <1>3
  <2>2. k \in Nat /\ l \in Nat /\ k <= l
    <3>1. time - r.created \in Nat
      BY <1>1
    <3> QED BY <1>1, <3>1
  <2>3. Vested(r) = q * k
    BY <1>3, Zenon DEF Vested
  <2>4. ASSUME time' = time + 1 PROVE Vested(r)' = q * l
    BY <1>1, <1>3, <2>4 DEF Vested
  <2> HIDE DEF q, k, l
  <2>5. q * k \in Nat /\ q * k <= q * l /\ q * l \in Nat
    BY <2>1, <2>2, ProductGrows
  <2> QED BY <2>3, <2>4, <2>5, Zenon
<1> QED BY <1>2, <1>3, Zenon

-----------------------------------------------------------------------------
(* The loop *)

(* One iteration adds one record to those it passes on, with another       *)
(* amount at most (undelegatebw).                                          *)
LEMMA StepSound ==
    ASSUME time \in Nat, NEW want \in Nat, NEW s, NEW k \in Nat, ScanSound(s, k),
           NEW r \in Records
    PROVE  ScanSound(EscrowStep(s, r, want), k + 1)
<1> DEFINE bucket == Vested(r) - (r.initial - r.amount)
           available == s.available - r.amount + bucket
           surplus == IF available > want THEN available - want ELSE 0
           r2 == [r EXCEPT !.amount = @ - (bucket - surplus)]
           s2 == [available |-> available - surplus, enough |-> surplus > 0,
                  trapped |-> FALSE, records |-> Append(s.records, r2)]
<1>1. /\ r \in [created : Nat, period_count : Nat, initial : Nat, amount : Int]
      /\ r.created <= time /\ r.initial \in Nat /\ r.amount \in Int
  BY Zenon DEF Records
<1>2. Vested(r) \in Nat
  BY VestedGrows, Zenon
<1>3. s.available \in Int /\ s.records \in Seq(Records) /\ Len(s.records) = k
  BY Zenon DEF ScanSound
<1>4. bucket \in Int
  BY <1>1, <1>2
<1>5. available \in Int
  BY <1>1, <1>3, <1>4
<1>6. surplus \in Int
  BY <1>5
<1>9. Append(s.records, r) \in Seq(Records) /\ Len(Append(s.records, r)) = k + 1
  BY <1>3
<1>7. CASE s.enough \/ s.trapped
  <2>1. EscrowStep(s, r, want) = [s EXCEPT !.records = Append(@, r)]
    BY <1>7, Zenon DEF EscrowStep
  <2> QED BY <1>9, <2>1, Zenon DEF ScanSound
<1>10. CASE ~(s.enough \/ s.trapped) /\ r.period_count = 0
  <2>1. EscrowStep(s, r, want) = [s EXCEPT !.trapped = TRUE, !.records = Append(@, r)]
    BY <1>10, Zenon DEF EscrowStep
  <2> QED BY <1>9, <2>1, Zenon DEF ScanSound
<1>8. CASE ~(s.enough \/ s.trapped) /\ r.period_count # 0
  <2>1. EscrowStep(s, r, want) = s2
    BY <1>8, Zenon DEF EscrowStep
  <2>2. r2 \in Records
    <3> HIDE DEF bucket, surplus
    <3>1. r.amount - (bucket - surplus) \in Int
      BY <1>1, <1>4, <1>6
    <3> QED BY <1>1, <3>1, Zenon DEF Records
  <2> HIDE DEF r2
  <2>3. Append(s.records, r2) \in Seq(Records) /\ Len(Append(s.records, r2)) = k + 1
    BY <1>3, <2>2
  <2>4. available - surplus \in Int /\ (surplus > 0) \in BOOLEAN
    BY <1>5, <1>6
  <2> QED BY <2>1, <2>3, <2>4 DEF ScanSound
<1> QED BY <1>7, <1>8, <1>10, Zenon

(* g gives what the loop has found after each of the first n records.      *)
IsScan(g, base, records, n, want) ==
    g = [i \in 0 .. n |-> IF i = 0 THEN base ELSE EscrowStep(g[i - 1], records[i], want)]

(* The loop over one record more.                                          *)
LEMMA ScanExtends ==
    ASSUME NEW base, NEW records, NEW n \in Nat, NEW want,
           NEW g, IsScan(g, base, records, n, want)
    PROVE  \E h : IsScan(h, base, records, n + 1, want)
<1> DEFINE h == [i \in 0 .. n + 1 |->
                    IF i = n + 1 THEN EscrowStep(g[n], records[n + 1], want) ELSE g[i]]
<1>1. \A i \in 0 .. n : i \in 0 .. n + 1 /\ i # n + 1 /\ h[i] = g[i]
  OBVIOUS
<1>2. ASSUME NEW i \in 0 .. n + 1
      PROVE  h[i] = IF i = 0 THEN base ELSE EscrowStep(h[i - 1], records[i], want)
  <2>1. CASE i = n + 1
    <3>1. i - 1 = n /\ i # 0 /\ n \in 0 .. n
      BY <2>1
    <3>2. h[i] = EscrowStep(g[n], records[i], want)
      BY <2>1, Zenon
    <3>3. h[n] = g[n]
      BY <1>1, <3>1, Zenon
    <3> HIDE DEF h
    <3> QED BY <3>1, <3>2, <3>3, Zenon
  <2>2. CASE i \in 0 .. n
    <3>1. h[i] = g[i] /\ (i # 0 => h[i - 1] = g[i - 1])
      BY <1>1, <2>2
    <3> HIDE DEF h
    <3> QED BY <2>2, <3>1, Zenon DEF IsScan
  <2> QED BY <2>1, <2>2
<1>3. h = [i \in 0 .. n + 1 |-> h[i]]
  BY Zenon
<1> HIDE DEF h
<1>4. h = [i \in 0 .. n + 1 |-> IF i = 0 THEN base ELSE EscrowStep(h[i - 1], records[i], want)]
  BY <1>2, <1>3, Zenon
<1>5. IsScan(h, base, records, n + 1, want)
  BY <1>4, Zenon DEF IsScan
<1> QED BY <1>5, Zenon

(* There is such a function for any number of records.                     *)
LEMMA ScanExists ==
    ASSUME NEW base, NEW records, NEW n \in Nat, NEW want
    PROVE  \E g : IsScan(g, base, records, n, want)
<1> DEFINE F == {m \in Nat : ~ \E g : IsScan(g, base, records, m, want)}
<1>1. F = {}
  <2> SUFFICES ASSUME F # {} PROVE FALSE
    BY Zenon
  <2>1. PICK m \in F : \A l \in F : m <= l
    <3>1. F \subseteq Nat
      BY Zenon
    <3> HIDE DEF F
    <3> QED BY <3>1, SmallestNumber, Zenon
  <2>2. m # 0
    <3> DEFINE g == [i \in {0} |-> base]
    <3>1. 0 .. 0 = {0}
      OBVIOUS
    <3>2. g = [i \in {0} |-> IF i = 0 THEN base ELSE EscrowStep(g[i - 1], records[i], want)]
      BY Zenon
    <3> HIDE DEF g
    <3>3. IsScan(g, base, records, 0, want)
      BY <3>1, <3>2, Zenon DEF IsScan
    <3> QED BY <3>3, Zenon
  <2>3. m - 1 \in Nat /\ (m - 1) + 1 = m /\ ~(m <= m - 1)
    BY <2>2
  <2>4. m - 1 \notin F
    BY <2>1, <2>3, Zenon
  <2>5. PICK g : IsScan(g, base, records, m - 1, want)
    BY <2>3, <2>4, Zenon
  <2>6. \E h : IsScan(h, base, records, (m - 1) + 1, want)
    BY <2>3, <2>5, ScanExtends, Zenon
  <2> QED BY <2>3, <2>6, Zenon
<1> QED BY <1>1, Zenon

(* The loop keeps every record it passes.                                  *)
LEMMA ScanKeepsRecords ==
    ASSUME time \in Nat, NEW base, ScanSound(base, 0), NEW records,
           NEW n \in Nat, \A i \in 1 .. n : records[i] \in Records, NEW want \in Nat,
           NEW g, IsScan(g, base, records, n, want)
    PROVE  ScanSound(g[n], n)
<1> DEFINE F == {k \in Nat : k <= n /\ ~ScanSound(g[k], k)}
<1>0. g[0] = base
  BY DEF IsScan
<1>1. F = {}
  <2> SUFFICES ASSUME F # {} PROVE FALSE
    BY Zenon
  <2>1. PICK m \in F : \A l \in F : m <= l
    <3>1. F \subseteq Nat
      BY Zenon
    <3> HIDE DEF F
    <3> QED BY <3>1, SmallestNumber, Zenon
  <2>2. m # 0
    BY <1>0, Zenon
  <2>3. PICK k \in Nat : m = k + 1
    <3>1. m - 1 \in Nat /\ m = (m - 1) + 1
      BY <2>2
    <3> QED BY <3>1, Zenon
  <2>4. k + 1 <= n /\ ~ScanSound(g[k + 1], k + 1)
    BY <2>3, Zenon
  <2>5. k \notin F
    BY <2>1, <2>3
  <2>6. ScanSound(g[k], k)
    BY <2>4, <2>5
  <2>7. records[k + 1] \in Records
    BY <2>4
  <2>8. ScanSound(EscrowStep(g[k], records[k + 1], want), k + 1)
    BY <2>6, <2>7, StepSound, Zenon
  <2>9. g[k + 1] = EscrowStep(g[k], records[k + 1], want)
    <3>1. k + 1 \in 0 .. n /\ k + 1 # 0 /\ (k + 1) - 1 = k
      BY <2>4
    <3>2. g[k + 1] = EscrowStep(g[(k + 1) - 1], records[k + 1], want)
      BY <3>1, Zenon DEF IsScan
    <3> QED BY <3>1, <3>2, Zenon
  <2> QED BY <2>4, <2>8, <2>9, Zenon
<1> QED BY <1>1

(* The loop of undelegatebw is such a function.                            *)
LEMMA EscrowScanIsScan ==
    ASSUME NEW from \in Accounts, NEW want, NEW records, records = escband[from],
           records \in Seq(Records), NEW n, n = Len(records),
           NEW base, base = [available |-> Amount(delband[from][from]), enough |-> FALSE,
                             trapped |-> FALSE, records |-> <<>>]
    PROVE  \E g : IsScan(g, base, records, n, want) /\ EscrowScan(from, want) = g[n]
<1> DEFINE Step(g) == [i \in 0 .. n |-> IF i = 0 THEN base
                                        ELSE EscrowStep(g[i - 1], records[i], want)]
           found == CHOOSE g : g = Step(g)
<1>1. n \in Nat
  OBVIOUS
<1>2. EscrowScan(from, want) = found[n]
  BY Zenon DEF EscrowScan
<1>3. \E g : g = Step(g)
  <2>1. PICK g : IsScan(g, base, records, n, want)
    BY <1>1, ScanExists, Zenon
  <2>2. g = Step(g)
    BY <2>1, Zenon DEF IsScan
  <2> QED BY <2>2, Zenon
<1>4. found = Step(found)
  <2> HIDE DEF Step
  <2> QED BY <1>3, Zenon
<1>5. IsScan(found, base, records, n, want)
  <2> HIDE DEF found
  <2> QED BY <1>4, Zenon DEF IsScan
<1> QED BY <1>2, <1>5, Zenon

(* For any number of records undelegatebw keeps them all; with one record  *)
(* it keeps its terms, and what it finds available, if it does not trap,   *)
(* is no more than what has vested leaves free.                            *)
LEMMA EscrowScanFacts ==
    ASSUME time \in Nat, NEW from \in Accounts, NEW want \in Nat,
           NEW records \in Seq(Records), records = escband[from],
           NEW d \in Nat, d = Amount(delband[from][from]),
           NEW scan, scan = EscrowScan(from, want)
    PROVE  /\ scan.records \in Seq(Records) /\ Len(scan.records) = Len(records)
           /\ Len(records) = 1 =>
                 /\ scan.records[1].initial = records[1].initial
                 /\ Vested(scan.records[1]) = Vested(records[1])
                 /\ ~scan.trapped /\ want <= scan.available =>
                       want <= d - records[1].initial + Vested(records[1])
<1> DEFINE n == Len(records)
           base == [available |-> d, enough |-> FALSE, trapped |-> FALSE, records |-> <<>>]
<1>1. n \in Nat /\ \A i \in 1 .. n : records[i] \in Records
  OBVIOUS
<1>2. PICK g : IsScan(g, base, records, n, want) /\ scan = g[n]
  <2>1. base = [available |-> Amount(delband[from][from]), enough |-> FALSE,
                trapped |-> FALSE, records |-> <<>>]
    BY Zenon
  <2> HIDE DEF base, n
  <2> QED BY <2>1, EscrowScanIsScan, SMTT(20) DEF n
<1>3. ScanSound(base, 0)
  BY DEF ScanSound
<1>4. ScanSound(scan, n)
  <2> HIDE DEF base, n
  <2> QED BY <1>1, <1>2, <1>3, ScanKeepsRecords, Zenon
<1>5. ASSUME n = 1
      PROVE  /\ scan.records[1].initial = records[1].initial
             /\ Vested(scan.records[1]) = Vested(records[1])
             /\ ~scan.trapped /\ want <= scan.available =>
                       want <= d - records[1].initial + Vested(records[1])
  <2> DEFINE r == records[1]
             v == Vested(r)
             bucket == v - (r.initial - r.amount)
             available == d - r.amount + bucket
             surplus == IF available > want THEN available - want ELSE 0
             r2 == [r EXCEPT !.amount = @ - (bucket - surplus)]
  <2>2. scan = EscrowStep(base, r, want)
    <3>1. IsScan(g, base, records, 1, want) /\ scan = g[1]
      BY <1>2, <1>5, Zenon
    <3> HIDE DEF base
    <3>2. g[0] = base /\ g[1] = EscrowStep(g[1 - 1], records[1], want)
      BY <3>1 DEF IsScan
    <3> QED BY <3>1, <3>2
  <2>3. ASSUME r.period_count # 0
        PROVE  scan = [available |-> available - surplus, enough |-> surplus > 0,
                       trapped |-> FALSE, records |-> Append(<<>>, r2)]
    BY <2>2, <2>3, Zenon DEF EscrowStep
  <2>11. ASSUME r.period_count = 0
         PROVE  scan.trapped /\ scan.records = Append(<<>>, r)
    BY <2>2, <2>11, Zenon DEF EscrowStep
  <2>4. r \in Records
    BY <1>1, <1>5
  <2>5. r.initial \in Nat /\ r.amount \in Int /\ v \in Nat
    <3>1. v \in Nat
      BY <2>4, VestedGrows, Zenon
    <3>2. r.initial \in Nat /\ r.amount \in Int
      BY <2>4, Zenon DEF Records
    <3> QED BY <3>1, <3>2, Zenon
  <2>6. /\ r.period_count # 0 => scan.records[1] = r2
        /\ r.period_count = 0 => scan.records[1] = r
    BY <2>3, <2>11
  <2>7. r2.initial = r.initial /\ r2.created = r.created /\ r2.period_count = r.period_count
    BY <2>4, Zenon DEF Records
  <2>8. Vested(r2) = Vested(r)
    <3> HIDE DEF r, r2
    <3> QED BY <2>7 DEF Vested
  <2>9. want <= available - surplus => want <= d - r.initial + v
    <3> HIDE DEF r, v
    <3>1. available \in Int /\ available = d - r.initial + v
      BY <2>5
    <3> HIDE DEF available
    <3>2. surplus \in Int /\ surplus >= 0
      BY <3>1
    <3> HIDE DEF surplus
    <3> QED BY <3>1, <3>2
  <2>10. r.period_count # 0 => scan.available = available - surplus
    <3> HIDE DEF r, r2, available, surplus
    <3> QED BY <2>3
  <2> HIDE DEF r, v, r2, available, surplus
  <2>12. CASE r.period_count = 0
    BY <2>6, <2>11, <2>12, Zenon DEF r
  <2>13. CASE r.period_count # 0
    BY <2>6, <2>7, <2>8, <2>9, <2>10, <2>13, Zenon DEF r, v
  <2> QED BY <2>12, <2>13, Zenon
<1> QED BY <1>4, <1>5, Zenon DEF ScanSound

-----------------------------------------------------------------------------
(* The invariant *)

(* The inductive invariant: the records have their type.                   *)
EInv ==
    /\ escband \in [Accounts -> Seq(Records)]
    /\ EscrowIsHeld

(* Only a delegation of an account to itself changes what it has there.    *)
LEMMA SelfChange ==
    ASSUME TypeOK, NEW net \in Int, NEW cpu \in Int, NEW a \in Accounts, NEW self,
           self => delband'[a][a] = Plus(delband[a][a], net, cpu),
           ~self => delband'[a][a] = delband[a][a]
    PROVE  /\ Amount(delband[a][a]) \in Nat /\ Amount(delband'[a][a]) \in Int
           /\ ~self => Amount(delband'[a][a]) = Amount(delband[a][a])
           /\ self => Amount(delband'[a][a]) = Amount(delband[a][a]) + (net + cpu)
<1>1. delband[a][a].net \in Nat /\ delband[a][a].cpu \in Nat
  BY Zenon DEF TypeOK, Weights
<1>2. CASE self
  BY <1>1, <1>2, SMTT(20) DEF Plus, Amount
<1>3. CASE ~self
  BY <1>1, <1>3 DEF Amount
<1> QED BY <1>2, <1>3, Zenon

(* The record of an account with one escrow.                               *)
LEMMA OnlyRecord ==
    ASSUME NEW records \in Seq(Records), Len(records) = 1
    PROVE  records[1] \in Records
<1>1. \A i \in 1 .. Len(records) : records[i] \in Records
  BY SMTT(20)
<1> QED BY <1>1

(* A delegation only adds to what is held (delegatebw).                    *)
LEMMA DelegateKeepsEscrow ==
    ASSUME TypeOK, EInv, NEW from \in Accounts, NEW receiver \in Accounts, NEW net \in Nat,
           NEW cpu \in Nat, NEW transfer_ \in BOOLEAN,
           changebw(from, receiver, net, cpu, transfer_), escband' = escband
    PROVE  EInv'
<1>1. time' = time /\ time \in Nat
  BY Zenon DEF changebw, TypeOK
<1>2. Records' = Records
  BY <1>1, Zenon DEF Records
<1> DEFINE own == StakeOwner(from, receiver, transfer_)
<1>4. /\ delband' = [delband EXCEPT ![own][receiver] = Plus(@, net, cpu)]
      /\ own \in Accounts /\ delband \in [Accounts -> [Accounts -> Weights]]
  BY Zenon DEF changebw, StakeOwner, TypeOK
<1> HIDE DEF own
<1>3. ASSUME NEW a \in Accounts, Len(escband[a]) = 1
      PROVE  Amount(delband'[a][a]) >= escband[a][1].initial - Vested(escband[a][1])
  <2> DEFINE r == escband[a][1]
             v == Vested(r)
             d == Amount(delband[a][a])
             d2 == Amount(delband'[a][a])
  <2>1. r \in Records
    <3>1. escband[a] \in Seq(Records)
      BY Zenon DEF EInv
    <3> QED BY <1>3, <3>1, OnlyRecord, Zenon
  <2>2. r.initial \in Nat /\ v \in Nat
    BY <1>1, <2>1, VestedGrows, Zenon DEF Records
  <2>3. d >= r.initial - v
    BY <1>3, Zenon DEF EInv, EscrowIsHeld
  <2>4. d \in Nat /\ d2 \in Int /\ (d2 = d \/ d2 = d + (net + cpu))
    <3>1. net \in Int /\ cpu \in Int
      OBVIOUS
    <3>2. /\ a = own /\ a = receiver => delband'[a][a] = Plus(delband[a][a], net, cpu)
          /\ ~(a = own /\ a = receiver) => delband'[a][a] = delband[a][a]
      BY <1>4, Zenon
    <3> QED BY <3>1, <3>2, SelfChange, Zenon
  <2> HIDE DEF r, v, d, d2
  <2>5. d2 >= r.initial - v
    BY <2>2, <2>3, <2>4
  <2> QED BY <2>5, Zenon DEF r, v, d2
<1>5. EscrowIsHeld'
  BY <1>1, <1>3, Zenon DEF EscrowIsHeld, Vested
<1> QED BY <1>2, <1>5, Zenon DEF EInv

(* A new escrow is held in full, on top of what was there (escrowbw).      *)
LEMMA EscrowKeepsEscrow ==
    ASSUME TypeOK, EInv, NEW from \in Accounts, NEW receiver \in Accounts, NEW net \in Nat,
           NEW cpu \in Nat, NEW transfer_ \in BOOLEAN, NEW count \in PeriodCounts,
           escrowbw(from, receiver, net, cpu, transfer_, count)
    PROVE  EInv'
<1> DEFINE r2 == [created |-> time, period_count |-> count,
                  initial |-> net + cpu, amount |-> net + cpu]
<1>1. /\ changebw(from, receiver, net, cpu, transfer_)
      /\ from = receiver \/ transfer_
      /\ escband' = [escband EXCEPT ![receiver] = Append(@, r2)]
  BY Zenon DEF escrowbw
<1>2. time' = time /\ time \in Nat
  BY <1>1, Zenon DEF changebw, TypeOK
<1>3. Records' = Records
  BY <1>2, Zenon DEF Records
<1>4. r2 \in Records
  BY <1>2, StakingAssumption DEF Records
<1>0. r2.initial = net + cpu
  BY Zenon
<1> HIDE DEF r2
<1>5. escband \in [Accounts -> Seq(Records)]
  BY Zenon DEF EInv
<1>6. escband' \in [Accounts -> Seq(Records)]
  BY <1>1, <1>4, <1>5
<1>7. StakeOwner(from, receiver, transfer_) = receiver
  BY <1>1, Zenon DEF StakeOwner
<1>9. /\ delband' = [delband EXCEPT ![receiver][receiver] = Plus(@, net, cpu)]
      /\ delband \in [Accounts -> [Accounts -> Weights]]
  BY <1>1, <1>7, Zenon DEF changebw, TypeOK
<1>8. ASSUME NEW a \in Accounts, Len(escband'[a]) = 1
      PROVE  Amount(delband'[a][a]) >= escband'[a][1].initial - Vested(escband'[a][1])
  <2> DEFINE r == escband'[a][1]
             v == Vested(r)
             d == Amount(delband[a][a])
             d2 == Amount(delband'[a][a])
  <2>1. r \in Records
    <3>1. escband'[a] \in Seq(Records)
      BY <1>6, Zenon
    <3> QED BY <1>8, <3>1, OnlyRecord, Zenon
  <2>2. r.initial \in Nat /\ v \in Nat
    <3> HIDE DEF r
    <3> QED BY <1>2, <2>1, VestedGrows, Zenon DEF Records
  <2>3. d \in Nat /\ d2 \in Int /\ (a # receiver => d2 = d)
        /\ (a = receiver => d2 = d + (net + cpu))
    <3>1. net \in Int /\ cpu \in Int
      OBVIOUS
    <3>2. /\ a = receiver => delband'[a][a] = Plus(delband[a][a], net, cpu)
          /\ a # receiver => delband'[a][a] = delband[a][a]
      BY <1>9, Zenon
    <3> QED BY <3>1, <3>2, SelfChange, Zenon
  <2>4. CASE a # receiver
    <3>1. escband'[a] = escband[a]
      BY <1>1, <1>5, <2>4, Zenon
    <3>2. d >= r.initial - v
      BY <1>8, <3>1, Zenon DEF EInv, EscrowIsHeld
    <3> HIDE DEF d, d2, r, v
    <3>3. d2 >= r.initial - v
      BY <2>3, <2>4, <3>2, Zenon
    <3> QED BY <3>3, Zenon DEF d2, r, v
  <2>5. CASE a = receiver
    <3>1. escband'[a] = Append(escband[a], r2) /\ escband[a] \in Seq(Records)
      BY <1>1, <1>5, <2>5, Zenon
    <3>2. Len(escband[a]) = 0
      BY <1>8, <3>1
    <3>3. r = r2
      BY <3>1, <3>2
    <3>4. r.initial = net + cpu
      BY <1>0, <3>3, Zenon
    <3> HIDE DEF d, d2, r, v
    <3>5. d2 >= r.initial - v
      BY <2>2, <2>3, <2>5, <3>4
    <3> QED BY <3>5, Zenon DEF d2, r, v
  <2> QED BY <2>4, <2>5, Zenon
<1>10. EscrowIsHeld'
  BY <1>2, <1>8, Zenon DEF EscrowIsHeld, Vested
<1> QED BY <1>3, <1>6, <1>10, Zenon DEF EInv

(* An undelegation takes no more than what has vested, if there is one     *)
(* escrow (undelegatebw).                                                  *)
LEMMA UndelegateKeepsEscrow ==
    ASSUME TypeOK, EInv, NEW from \in Accounts, NEW receiver \in Accounts, NEW net \in Nat,
           NEW cpu \in Nat, undelegatebw(from, receiver, net, cpu)
    PROVE  EInv'
<1> DEFINE want == net + cpu
           scan == EscrowScan(from, want)
           records == escband[from]
           d == Amount(delband[from][from])
<1>1. /\ changebw(from, receiver, -net, -cpu, FALSE)
      /\ from = receiver => /\ want <= scan.available /\ ~scan.trapped
                            /\ escband' = [escband EXCEPT ![from] = scan.records]
      /\ from # receiver => escband' = escband
  BY Zenon DEF undelegatebw
<1>11. /\ delband' = [delband EXCEPT ![from][receiver] = Plus(@, -net, -cpu)]
       /\ delband \in [Accounts -> [Accounts -> Weights]]
  BY <1>1, Zenon DEF changebw, StakeOwner, TypeOK
<1>2. time' = time /\ time \in Nat
  BY <1>1, Zenon DEF changebw, TypeOK
<1>3. Records' = Records
  BY <1>2, Zenon DEF Records
<1>4. escband \in [Accounts -> Seq(Records)] /\ records \in Seq(Records) /\ want \in Nat
  BY DEF EInv
<1>5. d \in Nat
  BY DEF TypeOK, Weights, Amount
<1>6. /\ scan.records \in Seq(Records) /\ Len(scan.records) = Len(records)
      /\ Len(records) = 1 =>
            /\ scan.records[1].initial = records[1].initial
            /\ Vested(scan.records[1]) = Vested(records[1])
            /\ ~scan.trapped /\ want <= scan.available =>
                       want <= d - records[1].initial + Vested(records[1])
  <2> HIDE DEF want
  <2> QED BY <1>2, <1>4, <1>5, EscrowScanFacts, Zenon
<1> HIDE DEF scan
<1>7. escband' \in [Accounts -> Seq(Records)]
  BY <1>1, <1>4, <1>6, Zenon
<1>8. ASSUME NEW a \in Accounts
      PROVE  /\ ~(a = from /\ a = receiver) => Amount(delband'[a][a]) = Amount(delband[a][a])
             /\ a = from /\ a = receiver => Amount(delband'[a][a]) = Amount(delband[a][a]) - want
  <2> DEFINE e == Amount(delband[a][a])
             e2 == Amount(delband'[a][a])
  <2>1. -net \in Int /\ -cpu \in Int
    OBVIOUS
  <2>4. /\ a = from /\ a = receiver => delband'[a][a] = Plus(delband[a][a], -net, -cpu)
        /\ ~(a = from /\ a = receiver) => delband'[a][a] = delband[a][a]
    BY <1>11, Zenon
  <2>2. /\ e \in Nat
        /\ ~(a = from /\ a = receiver) => e2 = e
        /\ a = from /\ a = receiver => e2 = e + ((-net) + (-cpu))
    BY <2>1, <2>4, SelfChange, Zenon
  <2> HIDE DEF e, e2
  <2>3. /\ ~(a = from /\ a = receiver) => e2 = e
        /\ a = from /\ a = receiver => e2 = e - want
    BY <2>2
  <2> QED BY <2>3, Zenon DEF e, e2
<1>9. ASSUME NEW a \in Accounts, Len(escband'[a]) = 1
      PROVE  Amount(delband'[a][a]) >= escband'[a][1].initial - Vested(escband'[a][1])
  <2>1. CASE ~(a = from /\ a = receiver)
    <3>1. escband'[a] = escband[a]
      BY <1>1, <1>4, <2>1, Zenon
    <3>2. Amount(delband[a][a]) >= escband[a][1].initial - Vested(escband[a][1])
      BY <1>9, <3>1, Zenon DEF EInv, EscrowIsHeld
    <3> QED BY <1>8, <2>1, <3>1, <3>2, Zenon
  <2>2. CASE a = from /\ a = receiver
    <3> DEFINE r == records[1]
               v == Vested(r)
               d2 == Amount(delband'[a][a])
    <3>1. escband'[a] = scan.records /\ want <= scan.available /\ ~scan.trapped
      BY <1>1, <1>4, <2>2, Zenon
    <3>2. Len(records) = 1
      BY <1>6, <1>9, <3>1, Zenon
    <3>3. /\ escband'[a][1].initial = r.initial /\ Vested(escband'[a][1]) = v
          /\ want <= d - r.initial + v
      BY <1>6, <3>1, <3>2, Zenon
    <3>4. r \in Records
      BY <1>4, <3>2, OnlyRecord, Zenon
    <3>5. r.initial \in Nat /\ v \in Nat
      <4> HIDE DEF r
      <4> QED BY <1>2, <3>4, VestedGrows, Zenon DEF Records
    <3>6. d2 = d - want
      BY <1>8, <2>2, Zenon
    <3> HIDE DEF r, v, d, d2, want
    <3>7. d2 >= r.initial - v
      BY <1>4, <1>5, <3>3, <3>5, <3>6, SMTT(20)
    <3> QED BY <3>3, <3>7, Zenon DEF d2
  <2> QED BY <2>1, <2>2, Zenon
<1>10. EscrowIsHeld'
  BY <1>2, <1>9, Zenon DEF EscrowIsHeld, Vested
<1> QED BY <1>3, <1>7, <1>10, Zenon DEF EInv

(* Time only makes more of an escrow vest (start_block).                   *)
LEMMA NextBlockKeepsEscrow ==
    ASSUME TypeOK, EInv, NextBlock
    PROVE  EInv'
<1>1. time' = time + 1 /\ time \in Nat /\ escband' = escband /\ delband' = delband
  BY Zenon DEF NextBlock, TypeOK
<1>2. Records \subseteq Records'
  BY <1>1 DEF Records
<1>3. escband \in [Accounts -> Seq(Records)]
  BY Zenon DEF EInv
<1>4. escband' \in [Accounts -> Seq(Records')]
  <2>1. \A s \in Seq(Records) : s \in Seq(Records')
    BY <1>2
  <2> QED BY <1>1, <1>3, <2>1, Zenon
<1>5. ASSUME NEW a \in Accounts, Len(escband[a]) = 1
      PROVE  Amount(delband[a][a]) >= escband[a][1].initial - Vested(escband[a][1])'
  <2> DEFINE r == escband[a][1]
             v == Vested(r)
             d == Amount(delband[a][a])
  <2>1. r \in Records
    BY <1>3, <1>5, OnlyRecord, Zenon
  <2>2. PICK q \in Records : q = r
    BY <2>1, Zenon
  <2>3. q.initial \in Nat /\ Vested(q) \in Nat /\ Vested(q)' \in Nat /\ Vested(q) <= Vested(q)'
    BY <1>1, VestedGrows, Zenon DEF Records
  <2>4. d \in Nat
    BY DEF TypeOK, Weights, Amount
  <2>5. d >= q.initial - Vested(q)
    BY <1>5, <2>2, Zenon DEF EInv, EscrowIsHeld
  <2>6. Vested(escband[a][1])' = Vested(q)'
    BY <1>1, <2>2, Zenon DEF Vested
  <2> HIDE DEF d
  <2>7. d >= q.initial - Vested(q)'
    BY <2>3, <2>4, <2>5
  <2> QED BY <2>2, <2>6, <2>7, Zenon DEF d
<1>6. EscrowIsHeld'
  BY <1>1, <1>5, Zenon DEF EscrowIsHeld
<1> QED BY <1>4, <1>6, Zenon DEF EInv

(* A step that touches neither the escrows nor the delegations.            *)
LEMMA EscrowUntouched ==
    ASSUME EInv, UNCHANGED <<time, delband, escband>>
    PROVE  EInv'
BY Zenon DEF EInv, Records, EscrowIsHeld, Vested

(* Every step keeps the invariant.                                         *)
LEMMA NextEscrow == TypeOK /\ EInv /\ [Next]_vars => EInv'
<1> SUFFICES ASSUME TypeOK, EInv, [Next]_vars PROVE EInv'
  BY Zenon
<1>0. Amounts \subseteq Nat
  BY StakingAssumption, Zenon
<1>1. ASSUME NEW from \in Accounts, NEW receiver \in Accounts, NEW net \in Amounts,
             NEW cpu \in Amounts, NEW transfer_ \in BOOLEAN,
             delegatebw(from, receiver, net, cpu, transfer_)
      PROVE  EInv'
  BY <1>0, <1>1, DelegateKeepsEscrow, Zenon DEF delegatebw
<1>2. ASSUME NEW from \in Accounts, NEW receiver \in Accounts, NEW net \in Amounts,
             NEW cpu \in Amounts, NEW transfer_ \in BOOLEAN, NEW count \in PeriodCounts,
             escrowbw(from, receiver, net, cpu, transfer_, count)
      PROVE  EInv'
  BY <1>0, <1>2, EscrowKeepsEscrow, Zenon
<1>3. ASSUME NEW from \in Accounts, NEW receiver \in Accounts, NEW net \in Amounts,
             NEW cpu \in Amounts, undelegatebw(from, receiver, net, cpu)
      PROVE  EInv'
  BY <1>0, <1>3, UndelegateKeepsEscrow, Zenon
<1>4. ASSUME NEW owner \in Accounts, refund(owner) \/ push_scheduled_transaction(owner)
      PROVE  EInv'
  <2>1. UNCHANGED <<time, delband, escband>>
    BY <1>4, Zenon DEF refund, PayRefund, push_scheduled_transaction
  <2> QED BY <2>1, EscrowUntouched, Zenon
<1>5. CASE tokenAction
  BY <1>5, EscrowUntouched, Zenon DEF tokenAction
<1>6. CASE UNCHANGED vars
  BY <1>6, EscrowUntouched, Zenon DEF vars
<1> QED BY <1>1, <1>2, <1>3, <1>4, <1>5, <1>6, NextBlockKeepsEscrow, Zenon DEF Next

(* For any accounts, periods and amounts, an account with one escrow never *)
(* has less delegated to itself than what of the escrow has not vested:    *)
(* the loop of undelegatebw cannot be outrun by undelegating in parts, by  *)
(* delegating in between or by letting others delegate.                    *)
THEOREM EscrowHeld == Spec => []EscrowIsHeld
<1>1. Init => EInv
  BY DEF Init, EInv, EscrowIsHeld
<1>2. EInv => EscrowIsHeld
  BY Zenon DEF EInv
<1> QED BY <1>1, <1>2, NextEscrow, StakingTypeCorrect, PTL DEF Spec
=============================================================================
