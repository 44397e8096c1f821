-------------------------------- MODULE Token --------------------------------
(***************************************************************************)
(* The token contract snax.token, for the core symbol.  A missing row of   *)
(* the table accounts is a balance of 0: sub_balance erases the row that   *)
(* it empties.  The token was created before the first state.              *)
(***************************************************************************)
EXTENDS Integers, FiniteSetsExt

CONSTANTS
    Holders,     \* the accounts that can hold tokens
    max_supply   \* given to create

VARIABLES
    balance,     \* table accounts: Holders -> amount
    supply       \* stat.supply

tokenVars == <<balance, supply>>

(* The balances after sub_balance and add_balance of one transfer.         *)
Moved(b, from, to, n) == [b EXCEPT ![from] = @ - n, ![to] = @ + n]

(* The asserts of transfer and of sub_balance.                             *)
CanTransfer(b, from, to, n) == from # to /\ n > 0 /\ b[from] >= n

transfer(from, to, n) ==
    /\ CanTransfer(balance, from, to, n)
    /\ balance' = Moved(balance, from, to, n)
    /\ UNCHANGED supply

IssueNoSupplyMutant(to, n) ==
    /\ n > 0 /\ n <= max_supply - supply
    /\ balance' = [balance EXCEPT ![to] = @ + n]
    /\ UNCHANGED supply

(* The issuer is credited and, when to is another account, passes the      *)
(* quantity on with an inline transfer of the same transaction.            *)
issue(to, n) ==
    /\ n > 0 /\ n <= max_supply - supply
    /\ supply' = supply + n
    /\ balance' = [balance EXCEPT ![to] = @ + n]

(* Every token that was issued is in exactly one balance: no transfer,     *)
(* inline or not, creates or loses a token (token::issue, sub_balance and  *)
(* add_balance).                                                           *)
TokensConserved == SumFunction(balance) = supply

=============================================================================
