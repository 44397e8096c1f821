----------------------------- MODULE StakeLedger -----------------------------
(***************************************************************************)
(* What staking promises to an owner of tokens.  An owner's tokens are     *)
(* liquid, staked or unstaking.  The staked ones and the unstaking ones    *)
(* are in the pool.  Unstaking tokens become liquid all together, and not  *)
(* before refund_delay has passed since the owner last unstaked any.       *)
(* Tokens given to the pool stay there: they are nobody's stake.           *)
(***************************************************************************)
EXTENDS Integers

CONSTANTS Owners, refund_delay, MaxIssue

VARIABLES clock, liquid, staked, unstaking, due, pool

vars == <<clock, liquid, staked, unstaking, due, pool>>

Init ==
    /\ clock = 0
    /\ liquid \in [Owners -> Nat]
    /\ staked = [a \in Owners |-> 0]
    /\ unstaking = [a \in Owners |-> 0]
    /\ due = [a \in Owners |-> 0]
    /\ pool = 0

(* n liquid tokens of a become stake of b.                                 *)
Stake(a, b, n) ==
    /\ n \in 1 .. liquid[a]
    /\ liquid' = [liquid EXCEPT ![a] = @ - n]
    /\ staked' = [staked EXCEPT ![b] = @ + n]
    /\ pool' = pool + n
    /\ UNCHANGED <<clock, unstaking, due>>

(* a stakes k of its unstaking tokens and n liquid ones.  due is forgotten *)
(* with the last unstaking token.                                          *)
Restake(a, k, n) ==
    /\ k \in 1 .. unstaking[a] /\ n \in 0 .. liquid[a]
    /\ liquid' = [liquid EXCEPT ![a] = @ - n]
    /\ unstaking' = [unstaking EXCEPT ![a] = @ - k]
    /\ staked' = [staked EXCEPT ![a] = @ + (k + n)]
    /\ pool' = pool + n
    /\ due' = [due EXCEPT ![a] = IF unstaking'[a] = 0 THEN 0 ELSE @]
    /\ UNCHANGED clock

Unstake(a, n) ==
    /\ n \in 1 .. staked[a]
    /\ staked' = [staked EXCEPT ![a] = @ - n]
    /\ unstaking' = [unstaking EXCEPT ![a] = @ + n]
    /\ due' = [due EXCEPT ![a] = clock + refund_delay]
    /\ UNCHANGED <<clock, liquid, pool>>

Pay(a) ==
    /\ unstaking[a] > 0 /\ due[a] <= clock
    /\ liquid' = [liquid EXCEPT ![a] = @ + unstaking[a]]
    /\ unstaking' = [unstaking EXCEPT ![a] = 0]
    /\ due' = [due EXCEPT ![a] = 0]
    /\ pool' = pool - unstaking[a]
    /\ UNCHANGED <<clock, staked>>

Send(a, b, n) ==
    /\ a # b /\ n \in 1 .. liquid[a]
    /\ liquid' = [liquid EXCEPT ![a] = @ - n, ![b] = @ + n]
    /\ UNCHANGED <<clock, staked, unstaking, due, pool>>

Receive(a, n) ==
    /\ liquid' = [liquid EXCEPT ![a] = @ + n]
    /\ UNCHANGED <<clock, staked, unstaking, due, pool>>

(* a gives n liquid tokens to the pool, and n new tokens come into it.     *)
Give(a, n) ==
    /\ n \in 1 .. liquid[a]
    /\ liquid' = [liquid EXCEPT ![a] = @ - n]
    /\ pool' = pool + n
    /\ UNCHANGED <<clock, staked, unstaking, due>>

Endow(n) == pool' = pool + n /\ UNCHANGED <<clock, liquid, staked, unstaking, due>>

Tick == clock' = clock + 1 /\ UNCHANGED <<liquid, staked, unstaking, due, pool>>

Next ==
    \/ \E a, b \in Owners : \E n \in 1 .. liquid[a] : Stake(a, b, n) \/ Send(a, b, n)
    \/ \E a \in Owners : \E n \in 1 .. liquid[a] : Give(a, n)
    \/ \E a \in Owners : \E k \in 1 .. unstaking[a], n \in 0 .. liquid[a] : Restake(a, k, n)
    \/ \E a \in Owners : \E n \in 1 .. staked[a] : Unstake(a, n)
    \/ \E a \in Owners : Pay(a) \/ \E n \in 1 .. MaxIssue : Receive(a, n)
    \/ \E n \in 1 .. MaxIssue : Endow(n)
    \/ Tick

Spec == Init /\ [][Next]_vars

=============================================================================
