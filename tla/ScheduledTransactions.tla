------------------------ MODULE ScheduledTransactions ------------------------
(***************************************************************************)
(* The generated (deferred) transactions of one contract: how the contract *)
(* schedules and cancels them (apply_context) and how the producer of a    *)
(* block retires them (controller_impl::push_scheduled_transaction).  They *)
(* are keyed by the sender_id, which is also the account that pays their   *)
(* RAM.  What a transaction does when it runs belongs to the module that   *)
(* extends this one.                                                       *)
(***************************************************************************)
EXTENDS Integers

CONSTANTS
    Ids,                              \* sender ids
    deferred_trx_expiration_window,   \* how long a ready one may be run
    NoTrx

VARIABLES
    time,   \* pending_block_time
    queue   \* generated: the table; ram: RAM billed to the payer, in objects;
            \* last: how the latest transaction of the id left the table

(* What became of the latest transaction of an id: it is still there       *)
(* ("none"), it was cancelled, or a block has a receipt for it: executed,  *)
(* or one of soft_fail, hard_fail and expired ("failed").                  *)
Receipts == {"none", "cancelled", "executed", "failed"}

GeneratedTransaction == [published : Nat, delay_until : Nat, expiration : Nat]

QueueType ==
    [generated : [Ids -> GeneratedTransaction \cup {NoTrx}],
     ram       : [Ids -> Nat],
     last      : [Ids -> Receipts]]

(* What the objects of the id cost its payer.                              *)
Billed(q, i) == IF q.generated[i] = NoTrx THEN 0 ELSE 1

EmptyQueue ==
    [generated |-> [i \in Ids |-> NoTrx],
     ram       |-> [i \in Ids |-> 0],
     last      |-> [i \in Ids |-> "none"]]

(* remove_scheduled_transaction, with the receipt that goes with it.       *)
RemoveScheduled(q, i, status) ==
    [generated |-> [q.generated EXCEPT ![i] = NoTrx],
     ram       |-> [q.ram EXCEPT ![i] = @ - 1],
     last      |-> [q.last EXCEPT ![i] = status]]

CancelDeferredMutant(q, i) ==
    IF q.generated[i] = NoTrx THEN q
    ELSE [q EXCEPT !.generated[i] = NoTrx, !.last[i] = "cancelled"]

CancelDeferred(q, i) ==
    IF q.generated[i] = NoTrx THEN q ELSE RemoveScheduled(q, i, "cancelled")

ScheduleDeferredMutant(q, i, delay) ==
    [generated |-> [q.generated EXCEPT ![i] =
        [published   |-> time,
         delay_until |-> time,
         expiration  |-> time + delay + deferred_trx_expiration_window]],
     ram       |-> [q.ram EXCEPT ![i] = 1],
     last      |-> [q.last EXCEPT ![i] = "none"]]

(* send_deferred with replace_existing: an object that is replaced gives   *)
(* its RAM back first.                                                     *)
ScheduleDeferred(q, i, delay) ==
    [generated |-> [q.generated EXCEPT ![i] =
        [published   |-> time,
         delay_until |-> time + delay,
         expiration  |-> time + delay + deferred_trx_expiration_window]],
     ram       |-> [q.ram EXCEPT ![i] = @ + 1 - Billed(q, i)],
     last      |-> [q.last EXCEPT ![i] = "none"]]

-----------------------------------------------------------------------------
(* The producer takes the transactions that are ready and that were not    *)
(* generated in this block.                                                *)
IsReady(i) ==
    /\ queue.generated[i] # NoTrx
    /\ queue.generated[i].delay_until <= time
    /\ queue.generated[i].published < time

IsExpired(i) == queue.generated[i].expiration < time

(* The classes of exceptions that failure_is_subjective and                *)
(* scheduled_failure_is_subjective tell apart; "cpu" is                    *)
(* tx_cpu_usage_exceeded, subjective only on the producer.                 *)
Failures == {"objective", "cpu", "subjective"}

RetireFailedMutant(i, failure, onerror) ==
    queue' = IF failure = "subjective" THEN RemoveScheduled(queue, i, "none")
             ELSE IF onerror \in {"ok", "objective"}
                  THEN RemoveScheduled(queue, i, "failed")
                  ELSE queue

(* A transaction that failed with the given exception.  Unless it is       *)
(* subjective the sender gets onerror, whose own result decides: success   *)
(* is a soft failure, an objective exception a hard one.  After a          *)
(* subjective exception, and after tx_cpu_usage_exceeded of onerror, the   *)
(* undo session expires and the object is back in the table.               *)
RetireFailed(i, failure, onerror) ==
    queue' = IF failure # "subjective" /\ onerror \in {"ok", "objective"}
             THEN RemoveScheduled(queue, i, "failed")
             ELSE queue

RetireExpired(i) ==
    /\ IsExpired(i)
    /\ queue' = RemoveScheduled(queue, i, "failed")

-----------------------------------------------------------------------------
(* An account is billed for exactly the generated transactions it has in   *)
(* the table, whichever way they were replaced, cancelled or retired       *)
(* (add_ram_usage in apply_context.cpp, add_pending_ram_usage in           *)
(* remove_scheduled_transaction).                                          *)
RamMatchesQueue ==
    \A i \in Ids : queue.ram[i] = Billed(queue, i)

=============================================================================
