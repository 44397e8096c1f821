------------------------------ MODULE MCStaking ------------------------------
(* Two accounts: ua can escrow, ub can receive stake.                      *)
EXTENDS Staking

CONSTANTS ua, ub

MCEndowments == {[a \in Accounts |-> IF a = ua THEN 1 ELSE 0]}

=============================================================================
