------------------------------ MODULE PoolLedger ------------------------------
(***************************************************************************)
(* What the pool promises the owner of a wallet: a deposit adds to the     *)
(* private balance what is left after the deposit fee; a transfer pays the *)
(* recipient exactly the amount asked for and takes from the balance the   *)
(* least amount that leaves it after fees.  Nothing else moves the         *)
(* balance, and a transfer never exceeds it.                               *)
(***************************************************************************)
EXTENDS Quotes

CONSTANTS opening, Deposits, Payments, DepositBps, WithdrawBps, RentFee

VARIABLES
  balance,  \* what the owner has in the pool
  paid,     \* what recipients have received
  fees      \* what the fee recipient has received
vars == <<balance, paid, fees>>

Init ==
  /\ balance = opening
  /\ paid = 0
  /\ fees = 0

Deposit(lamports) ==
  /\ CanDeposit(lamports, DepositBps)
  /\ fees' = fees + DepositFee(lamports, DepositBps)
  /\ balance' = balance + lamports - DepositFee(lamports, DepositBps)
  /\ UNCHANGED paid

Transfer(recipient) ==
  /\ paid' = paid + recipient
  /\ \E gross \in recipient .. balance :
       /\ IsGross(gross, recipient, WithdrawBps, RentFee)
       /\ balance' = balance - gross
       /\ fees' = fees + gross - recipient

Next ==
  \/ \E lamports \in Deposits : Deposit(lamports)
  \/ \E recipient \in Payments : Transfer(recipient)
Spec == Init /\ [][Next]_vars
===============================================================================
