-------------------------------- MODULE Quotes --------------------------------
(***************************************************************************)
(* The amounts of a private transfer and of a deposit                      *)
(* (packages/client/src/transfer.ts and deposit.ts).  Amounts are lamports,*)
(* fees are basis points of the gross amount plus, for a withdrawal, a     *)
(* fixed rent.                                                             *)
(*                                                                         *)
(* The gross withdrawal is stated here by what it is, the least amount     *)
(* that leaves the recipient what was asked for; GrossSearch has the loop  *)
(* that finds it, and GrossSearchProofs shows that it does.                *)
(***************************************************************************)
EXTENDS Integers

Denominator == 10000        \* BASIS_POINTS_DENOMINATOR

WithdrawalFee(gross, bps, rent) == (gross * bps) \div Denominator + rent

RecipientOutput(gross, bps, rent) == gross - WithdrawalFee(gross, bps, rent)

(* What calculateGrossWithdrawalLamports returns. *)
IsGross(gross, recipient, bps, rent) ==
    /\ RecipientOutput(gross, bps, rent) >= recipient
    /\ \A less \in recipient .. (gross - 1) :
         RecipientOutput(less, bps, rent) < recipient

GrossWithdrawal(recipient, bps, rent) ==
    CHOOSE gross \in recipient .. ((recipient + rent + 1) * Denominator) :
        IsGross(gross, recipient, bps, rent)

Shortfall(gross, balance) == IF gross > balance THEN gross - balance ELSE 0

(* validateTransferQuoteFields, the rule of the quote's schema. *)
QuoteIsValid(quote) ==
    /\ quote.gross - quote.fee = quote.recipient
    /\ quote.shield = Shortfall(quote.gross, quote.balance)

TransferQuoteRoundedUp(recipient, balance, bps, rent) ==
    LET gross == GrossWithdrawal(recipient, bps, rent) + 1
    IN  [recipient |-> recipient, balance |-> balance, gross |-> gross,
         fee |-> gross - recipient,
         shield |-> Shortfall(gross, balance)]

TransferQuote(recipient, balance, bps, rent) ==
    LET gross == GrossWithdrawal(recipient, bps, rent)
    IN  [recipient |-> recipient, balance |-> balance, gross |-> gross,
         fee |-> WithdrawalFee(gross, bps, rent),
         shield |-> Shortfall(gross, balance)]

DepositFee(lamports, bps) == (lamports * bps) \div Denominator

(* quoteDeposit: no quote when the fee takes the whole amount. *)
CanDeposit(lamports, bps) == DepositFee(lamports, bps) < lamports

DepositQuote(lamports, bps) ==
    [deposit |-> lamports, fee |-> DepositFee(lamports, bps),
     output |-> lamports - DepositFee(lamports, bps)]

===============================================================================
