------------------------------ MODULE GrossSearch ------------------------------
(***************************************************************************)
(* The loop of calculateGrossWithdrawalLamports                            *)
(* (packages/client/src/transfer.ts): the upper bound doubles until it     *)
(* leaves the recipient enough, then the bracket is halved.  The initial   *)
(* states range over every amount, fee rate and rent.                      *)
(***************************************************************************)
EXTENDS Quotes

VARIABLES
  recipient, bps, rent,  \* the question
  low, high,             \* the bracket
  stage                  \* "widen", "halve", "done"
question == <<recipient, bps, rent>>
vars == <<recipient, bps, rent, low, high, stage>>

Output(gross) == RecipientOutput(gross, bps, rent)

Init ==
  /\ recipient \in Nat \ {0}
  /\ bps \in 0 .. Denominator - 1
  /\ rent \in Nat
  /\ low = recipient
  /\ high = recipient + rent + 1
  /\ stage = "widen"

Widen ==
  /\ stage = "widen"
  /\ \/ /\ Output(high) < recipient
        /\ high' = 2 * high
        /\ UNCHANGED stage
     \/ /\ Output(high) >= recipient
        /\ stage' = "halve"
        /\ UNCHANGED high
  /\ UNCHANGED <<question, low>>

Halve ==
  /\ stage = "halve" /\ low < high
  /\ LET midpoint == (low + high) \div 2
     IN  \/ /\ Output(midpoint) >= recipient
            /\ high' = midpoint
            /\ UNCHANGED low
         \/ /\ Output(midpoint) < recipient
            /\ low' = midpoint + 1
            /\ UNCHANGED high
  /\ UNCHANGED <<question, stage>>

Return ==
  /\ stage = "halve" /\ low >= high
  /\ stage' = "done"
  /\ UNCHANGED <<question, low, high>>

Next == Widen \/ Halve \/ Return

Spec == Init /\ [][Next]_vars
================================================================================
