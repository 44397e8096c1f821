------------------------------- MODULE Staking -------------------------------
(***************************************************************************)
(* Staking in the system contract: delegatebw, escrowbw, undelegatebw and  *)
(* refund, with the token transfers they make inline and the deferred      *)
(* refund they schedule.  One action of this module is one transaction of  *)
(* a block, with its inline actions: if an assert fails none of its        *)
(* effects remain.  Rows that a table erases when they are empty are rows  *)
(* of zeros here.  userres stands for the contract's row and for the       *)
(* limits that set_resource_limits copies from it.                         *)
(*                                                                         *)
(* The accounts have not voted, none of them is b1 or snax.stake, the      *)
(* resource market is open and the chain is activated.                     *)
(***************************************************************************)
EXTENDS Token, ScheduledTransactions, Sequences

CONSTANTS
    Accounts,        \* the accounts that stake
    stake,           \* the account snax.stake
    refund_delay,
    EscrowPeriod,    \* seconds in one period of an escrow (half a year)
    PeriodCounts,    \* the period counts given to escrowbw
    Amounts,         \* amounts used as inputs of the actions
    Endowments,      \* the initial balances
    MaxEscrows,      \* bound: escrow records
    MaxTime,         \* bound: seconds
    NoRefund

VARIABLES
    delband,     \* from -> receiver -> weights
    userres,     \* receiver -> weights
    refunds,     \* owner -> refund request
    staked,      \* voters[owner].staked
    escband      \* owner -> escrow records, by the time they were created

vars == <<time, queue, balance, supply, delband, userres, refunds, staked, escband>>

ASSUME StakingAssumption ==
    /\ Ids = Accounts /\ IsFiniteSet(Accounts) /\ stake \notin Accounts
    /\ Holders = Accounts \cup {stake}
    /\ refund_delay \in Nat \ {0} /\ deferred_trx_expiration_window \in Nat
    /\ EscrowPeriod \in Nat \ {0} /\ PeriodCounts \subseteq Nat
    /\ Amounts \subseteq Nat /\ MaxTime \in Nat /\ max_supply \in Nat
    /\ Endowments \subseteq [Accounts -> Nat]
    /\ NoRefund \notin [request_time : Nat, net : Nat, cpu : Nat]
    /\ NoTrx \notin GeneratedTransaction

Weights == [net : Nat, cpu : Nat]
Zero == [net |-> 0, cpu |-> 0]
Amount(w) == w.net + w.cpu
Plus(w, net, cpu) == [net |-> w.net + net, cpu |-> w.cpu + cpu]
RefundRequest == [request_time : Nat, net : Nat, cpu : Nat]
RefundWeights(r) == IF r = NoRefund THEN Zero ELSE [net |-> r.net, cpu |-> r.cpu]
RefundAmount(a) == Amount(RefundWeights(refunds[a]))

Init ==
    /\ time = 0
    /\ queue = EmptyQueue
    /\ \E e \in Endowments : balance = [h \in Holders |-> IF h = stake THEN 0 ELSE e[h]]
    /\ supply = SumFunction(balance) /\ supply \in 0 .. max_supply
    /\ delband = [a \in Accounts |-> [b \in Accounts |-> Zero]]
    /\ userres = [a \in Accounts |-> Zero]
    /\ refunds = [a \in Accounts |-> NoRefund]
    /\ staked = [a \in Accounts |-> 0]
    /\ escband = [a \in Accounts |-> <<>>]

-----------------------------------------------------------------------------
(* changebw *)

(* With transfer the stake belongs to the receiver from the start.         *)
StakeOwner(from, receiver, transfer_) == IF transfer_ THEN receiver ELSE from

(* Only an undelegation and a delegation to oneself touch the refund.      *)
SettlesRefund(from, receiver, net, cpu, transfer_) ==
    net + cpu < 0 \/ (from = receiver /\ ~transfer_)

(* r.amount -= delta, and what is left of delta when that is negative.     *)
Remaining(amount, delta) == IF amount < delta THEN 0 ELSE amount - delta
Owed(amount, delta) == IF amount < delta THEN delta - amount ELSE 0

(* An undelegation renews the time of the request.                         *)
RequestTimeMutant(r, net, cpu) == IF r = NoRefund THEN time ELSE r.request_time
RequestTime(r, net, cpu) == IF net < 0 \/ cpu < 0 THEN time ELSE r.request_time

(* The request after a change that settles it: created, updated or erased. *)
RefundAfter(r, net, cpu) ==
    LET w == RefundWeights(r)
        left == [net |-> Remaining(w.net, net), cpu |-> Remaining(w.cpu, cpu)]
    IN  IF left = Zero THEN NoRefund
        ELSE [request_time |-> RequestTime(r, net, cpu), net |-> left.net, cpu |-> left.cpu]

SettledPaymentMutant(r, net, cpu) == Owed(Amount(RefundWeights(r)), net + cpu)

(* What source must still transfer to snax.stake after such a change.      *)
SettledPayment(r, net, cpu) ==
    Owed(RefundWeights(r).net, net) + Owed(RefundWeights(r).cpu, cpu)

CoversMutant(w, net, cpu) == Amount(w) + net + cpu >= 0
Covers(w, net, cpu) == w.net + net >= 0 /\ w.cpu + cpu >= 0

(* The deferred refund is cancelled and, when a request remains that this  *)
(* change has settled, scheduled anew.                                     *)
changebw(source, receiver, net, cpu, transfer_) ==
    LET from    == StakeOwner(source, receiver, transfer_)
        settles == SettlesRefund(source, receiver, net, cpu, transfer_)
        request == IF settles THEN RefundAfter(refunds[from], net, cpu) ELSE refunds[from]
        payment == IF settles THEN SettledPayment(refunds[from], net, cpu) ELSE net + cpu
    IN  /\ Covers(delband[from][receiver], net, cpu)
        /\ Covers(userres[receiver], net, cpu)
        /\ staked[from] + net + cpu >= 0
        /\ payment > 0 => CanTransfer(balance, source, stake, payment)
        /\ delband' = [delband EXCEPT ![from][receiver] = Plus(@, net, cpu)]
        /\ userres' = [userres EXCEPT ![receiver] = Plus(@, net, cpu)]
        /\ staked' = [staked EXCEPT ![from] = @ + net + cpu]
        /\ refunds' = [refunds EXCEPT ![from] = request]
        /\ queue' = IF settles /\ request # NoRefund
                    THEN ScheduleDeferred(CancelDeferred(queue, from), from, refund_delay)
                    ELSE CancelDeferred(queue, from)
        /\ balance' = Moved(balance, source, stake, payment)
        /\ UNCHANGED <<time, supply>>

-----------------------------------------------------------------------------
(* The escrow loop of undelegatebw *)

(* What has vested of a record by now, before what was unstaked of it.     *)
(* Nothing ever vests of a record with no period, which escrowbw accepts:  *)
(* the division traps, and the transaction fails.                          *)
Vested(r) ==
    IF r.period_count = 0 THEN 0
    ELSE (r.initial \div r.period_count) * ((time - r.created) \div EscrowPeriod + 1)

EscrowStepMutant(s, r, want) ==
    LET bucket    == Vested(r)
        available == s.available - r.amount + bucket
        surplus   == IF available > want THEN available - want ELSE 0
    IN  IF s.enough \/ s.trapped THEN [s EXCEPT !.records = Append(@, r)]
        ELSE IF r.period_count = 0
        THEN [s EXCEPT !.trapped = TRUE, !.records = Append(@, r)]
        ELSE [available |-> available - surplus,
              enough    |-> surplus > 0,
              trapped   |-> FALSE,
              records   |-> Append(s.records, [r EXCEPT !.amount = @ - (bucket - surplus)])]

(* One iteration: the loop ends at the first record with which the         *)
(* available amount exceeds the wanted one, or with a trap.                *)
EscrowStep(s, r, want) ==
    LET bucket    == Vested(r) - (r.initial - r.amount)
        available == s.available - r.amount + bucket
        surplus   == IF available > want THEN available - want ELSE 0
    IN  IF s.enough \/ s.trapped THEN [s EXCEPT !.records = Append(@, r)]
        ELSE IF r.period_count = 0
        THEN [s EXCEPT !.trapped = TRUE, !.records = Append(@, r)]
        ELSE [available |-> available - surplus,
              enough    |-> surplus > 0,
              trapped   |-> FALSE,
              records   |-> Append(s.records, [r EXCEPT !.amount = @ - (bucket - surplus)])]

EscrowScan(from, want) ==
    LET found[n \in 0 .. Len(escband[from])] ==
            IF n = 0
            THEN [available |-> Amount(delband[from][from]), enough |-> FALSE,
                  trapped |-> FALSE, records |-> <<>>]
            ELSE EscrowStep(found[n - 1], escband[from][n], want)
    IN  found[Len(escband[from])]

-----------------------------------------------------------------------------
(* The actions of the contract *)

CanDelegate(from, receiver, net, cpu, transfer_) ==
    /\ net >= 0 /\ cpu >= 0 /\ net + cpu > 0
    /\ transfer_ => from # receiver

delegatebw(from, receiver, net, cpu, transfer_) ==
    /\ CanDelegate(from, receiver, net, cpu, transfer_)
    /\ changebw(from, receiver, net, cpu, transfer_)
    /\ UNCHANGED escband

(* The record is keyed by its second of creation.                          *)
escrowbw(from, receiver, net, cpu, transfer_, count) ==
    /\ from = receiver \/ transfer_
    /\ CanDelegate(from, receiver, net, cpu, transfer_)
    /\ MapThenSumSet(LAMBDA a : Len(escband[a]), Accounts) < MaxEscrows
    /\ \A i \in DOMAIN escband[receiver] : escband[receiver][i].created # time
    /\ changebw(from, receiver, net, cpu, transfer_)
    /\ escband' = [escband EXCEPT ![receiver] = Append(@,
          [created |-> time, period_count |-> count,
           initial |-> net + cpu, amount |-> net + cpu])]

undelegatebw(from, receiver, net, cpu) ==
    /\ net >= 0 /\ cpu >= 0 /\ net + cpu > 0
    /\ delband[from][receiver] # Zero
    /\ LET scan == EscrowScan(from, net + cpu)
           available == IF from = receiver THEN scan.available
                        ELSE Amount(delband[from][receiver])
       IN  /\ from = receiver => ~scan.trapped
           /\ net + cpu <= available
           /\ escband' = IF from = receiver
                         THEN [escband EXCEPT ![from] = scan.records]
                         ELSE escband
    /\ changebw(from, receiver, -net, -cpu, FALSE)

CanRefund(owner) ==
    /\ refunds[owner] # NoRefund
    /\ refunds[owner].request_time + refund_delay <= time
    /\ CanTransfer(balance, stake, owner, Amount(refunds[owner]))

PayRefund(owner) ==
    /\ CanRefund(owner)
    /\ balance' = Moved(balance, stake, owner, Amount(refunds[owner]))
    /\ refunds' = [refunds EXCEPT ![owner] = NoRefund]
    /\ UNCHANGED <<time, supply, delband, userres, staked, escband>>

(* The owner claims the refund; a deferred refund stays in the table.      *)
(* now() is the time of the block that has the action (current_time in     *)
(* wasm_interface.cpp).  The comment in refund says that it is the time of *)
(* the previous block, so that tokens could be had before the delay; with  *)
(* the clock this node gives contracts they cannot.                        *)
refund(owner) == PayRefund(owner) /\ UNCHANGED queue

(* push_scheduled_transaction with the deferred refund of owner.           *)
push_scheduled_transaction(owner) ==
    /\ IsReady(owner)
    /\ \/ RetireExpired(owner) /\ UNCHANGED <<tokenVars, refunds>>
       \/ /\ ~IsExpired(owner)
          /\ PayRefund(owner)
          /\ queue' = RemoveScheduled(queue, owner, "executed")
       \/ /\ ~IsExpired(owner)
          /\ \E failure \in Failures, onerror \in Failures \cup {"ok"} :
                RetireFailed(owner, failure, onerror)
          /\ UNCHANGED <<tokenVars, refunds>>
    /\ UNCHANGED <<time, delband, userres, staked, escband>>

(* The next block, a second later.                                         *)
NextBlock ==
    /\ time < MaxTime
    /\ time' = time + 1
    /\ UNCHANGED <<queue, balance, supply, delband, userres, refunds, staked, escband>>

(* Anyone may send tokens to snax.stake, and the issuer may issue to it.   *)
(* Only the contract has the authority of snax.stake and sends from it.    *)
tokenAction ==
    /\ \E to \in Holders, n \in Amounts :
          issue(to, n) \/ \E a \in Accounts : transfer(a, to, n)
    /\ UNCHANGED <<time, queue, delband, userres, refunds, staked, escband>>

Next ==
    \/ \E from, receiver \in Accounts, net, cpu \in Amounts, transfer_ \in BOOLEAN :
          \/ delegatebw(from, receiver, net, cpu, transfer_)
          \/ \E count \in PeriodCounts : escrowbw(from, receiver, net, cpu, transfer_, count)
    \/ \E from, receiver \in Accounts, net, cpu \in Amounts :
          undelegatebw(from, receiver, net, cpu)
    \/ \E owner \in Accounts : refund(owner) \/ push_scheduled_transaction(owner)
    \/ tokenAction
    \/ NextBlock

Spec == Init /\ [][Next]_vars

-----------------------------------------------------------------------------
TypeOK ==
    /\ time \in Nat /\ supply \in 0 .. max_supply
    /\ balance \in [Holders -> Nat]
    /\ delband \in [Accounts -> [Accounts -> Weights]]
    /\ userres \in [Accounts -> Weights]
    /\ refunds \in [Accounts -> RefundRequest \cup {NoRefund}]
    /\ staked \in [Accounts -> Nat]
    /\ queue \in QueueType

(* What the table delband and the requests add up to, row by row.          *)
Claims == [a \in Accounts |-> RefundAmount(a) + staked[a]]
Delegated(a) == [b \in Accounts |-> Amount(delband[a][b])]
NetTo(a) == [b \in Accounts |-> delband[b][a].net]
CpuTo(a) == [b \in Accounts |-> delband[b][a].cpu]

(* The places where changebw books a delegation agree: the vote of an      *)
(* owner is what it delegates, the resources of a receiver are what is     *)
(* delegated to it, and snax.stake holds at least what is delegated and    *)
(* what waits to be paid back, so that no refund is ever overdrawn.  It    *)
(* holds more when tokens were sent to it without a delegation.            *)
StakeIsBacked ==
    /\ balance[stake] >= SumFunction(Claims)
    /\ \A a \in Accounts :
          /\ staked[a] = SumFunction(Delegated(a))
          /\ userres[a].net = SumFunction(NetTo(a))
          /\ userres[a].cpu = SumFunction(CpuTo(a))

(* A deferred refund that finds a request never finds it too early: every  *)
(* change that renews the request also renews the transaction (changebw,   *)
(* cancel_deferred and send).                                              *)
ScheduledRefundIsDue ==
    \A a \in Accounts :
        queue.generated[a] # NoTrx /\ refunds[a] # NoRefund =>
            refunds[a].request_time + refund_delay <= queue.generated[a].delay_until

(* A refund request that has no deferred transaction lost it in a way the  *)
(* chain shows: it was cancelled by a delegation, or a block has a receipt *)
(* of a failure or of its expiration.  A subjective failure never loses it *)
(* (undo_session in push_scheduled_transaction).                           *)
RefundIsScheduled ==
    \A a \in Accounts :
        refunds[a] # NoRefund =>
            IF queue.generated[a] # NoTrx THEN queue.last[a] = "none"
            ELSE queue.last[a] \in {"cancelled", "failed"}

(* What an account with one escrow delegates to itself never falls below   *)
(* what has not vested of the escrow (the loop of undelegatebw).           *)
EscrowIsHeld ==
    \A a \in Accounts :
        Len(escband[a]) = 1 =>
            Amount(delband[a][a]) >= escband[a][1].initial - Vested(escband[a][1])

(* The refinement: an owner's liquid tokens, stake and refund are those of *)
(* the ledger, whatever the contract and the scheduler do in between.      *)
liquid == [a \in Accounts |-> balance[a]]
unstaking == [a \in Accounts |-> RefundAmount(a)]
due == [a \in Accounts |-> IF refunds[a] = NoRefund THEN 0
                           ELSE refunds[a].request_time + refund_delay]
pool == balance[stake]
Ledger == INSTANCE StakeLedger WITH
    Owners <- Accounts, MaxIssue <- max_supply, clock <- time

(* Staking implements the ledger: a token that leaves snax.stake has       *)
(* waited refund_delay since its owner last undelegated, and goes to that  *)
(* owner and only once (changebw, refund and push_scheduled_transaction).  *)
ImplementsLedger == Ledger!Spec

=============================================================================
