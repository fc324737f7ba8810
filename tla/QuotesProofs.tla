------------------------------ MODULE QuotesProofs ------------------------------
(***************************************************************************)
(* What a quote rests on: least and greatest numbers, and the gross amount *)
(* of Quotes, which always exists and leaves the recipient exactly what    *)
(* was asked for, for every amount, fee rate and rent.                     *)
(***************************************************************************)
EXTENDS Quotes, FiniteSetTheorems, WellFoundedInduction, TLAPS

-------------------------------------------------------------------------------
(* Least and greatest numbers, and induction. *)

(* The intervals from zero up to the elements are finite sets, and strict   *)
(* inclusion of finite sets is well-founded.                                *)
LEMMA LeastNatural ==
  ASSUME NEW S, S \subseteq Nat, S # {}
  PROVE  \E least \in S : \A other \in S : least <= other
  <1> DEFINE Below(n) == 0 .. n
             T == {Below(n) : n \in S}
  <1>1. T \subseteq FiniteSubsetsOf(Nat)
    <2> SUFFICES ASSUME NEW n \in S
                 PROVE  Below(n) \in FiniteSubsetsOf(Nat)
      OBVIOUS
    <2>1. n \in Nat /\ IsFiniteSet(0 .. n) /\ 0 .. n \subseteq Nat
      BY FS_Interval
    <2> QED
      BY <2>1 DEF FiniteSubsetsOf
  <1>2. T # {}
    OBVIOUS
  <1>3. PICK x \in T : \A y \in T : ~(<<y, x>> \in StrictSubsetOrdering(Nat))
    BY <1>1, <1>2, FS_StrictSubsetOrderingWellFounded, WFMin
  <1>4. PICK least \in S : x = Below(least)
    BY <1>3
  <1>5. ASSUME NEW other \in S, other < least
        PROVE  FALSE
    <2>1. other \in Nat /\ least \in Nat
      OBVIOUS
    <2>2. /\ Below(other) \subseteq Below(least) /\ Below(other) # Below(least)
          /\ Below(other) \in SUBSET Nat /\ Below(least) \in SUBSET Nat
      BY <1>5, <2>1
    <2>3. <<Below(other), Below(least)>> \in StrictSubsetOrdering(Nat)
      BY <2>2 DEF StrictSubsetOrdering
    <2> QED
      BY <1>3, <1>4, <2>3
  <1>6. \A other \in S : other \in Nat /\ least \in Nat
    OBVIOUS
  <1> QED
    BY <1>5, <1>6

LEMMA GreatestNatural ==
  ASSUME NEW S, S \subseteq Nat, S # {},
         NEW bound \in Nat, \A n \in S : n <= bound
  PROVE  \E greatest \in S : \A other \in S : other <= greatest
  <1> DEFINE Slack == {bound - n : n \in S}
  <1>1. \A n \in S : bound - n \in Nat
    OBVIOUS
  <1>5. Slack \subseteq Nat /\ Slack # {}
    BY <1>1
  <1>2. PICK least \in Slack : \A other \in Slack : least <= other
    BY <1>5, LeastNatural
  <1>3. PICK greatest \in S : least = bound - greatest
    BY <1>2
  <1>4. ASSUME NEW other \in S
        PROVE  other <= greatest
    <2>1. bound - greatest <= bound - other
      BY <1>2, <1>3
    <2>2. other \in Nat /\ greatest \in Nat
      OBVIOUS
    <2> QED
      BY <2>1, <2>2
  <1> QED
    BY <1>4

(* Induction over the natural numbers, for a set of those it holds of. *)
LEMMA UpFromZero ==
  ASSUME NEW S, 0 \in S, \A n \in Nat : n \in S => n + 1 \in S
  PROVE  \A n \in Nat : n \in S
  <1> DEFINE Rest == Nat \ S
  <1>1. SUFFICES ASSUME Rest # {}
                 PROVE  FALSE
    OBVIOUS
  <1>2. PICK least \in Rest : \A other \in Rest : least <= other
    <2>1. Rest \subseteq Nat
      OBVIOUS
    <2> HIDE DEF Rest
    <2> QED
      BY <1>1, <2>1, LeastNatural
  <1>3. least - 1 \in Nat /\ least - 1 \notin Rest
    BY <1>2
  <1>4. least - 1 \in S /\ (least - 1) + 1 = least
    BY <1>3
  <1> QED
    BY <1>3, <1>4

-------------------------------------------------------------------------------
(* Division by the denominator. *)

(* The quotient of two numbers at most k denominators apart differs by at  *)
(* most k.                                                                 *)
LEMMA QuotientStep ==
  ASSUME NEW x \in Nat, NEW y \in Nat, NEW k \in Nat,
         x <= y, y <= x + k * 10000
  PROVE  /\ x \div 10000 \in Nat
         /\ y \div 10000 \in Nat
         /\ x \div 10000 <= y \div 10000
         /\ y \div 10000 <= x \div 10000 + k
  OBVIOUS

(* A rate below the denominator makes at most one denominator of each unit. *)
LEMMA RateBound ==
  ASSUME NEW k \in Nat, NEW rate \in 0 .. 9999
  PROVE  k * rate \in Nat /\ k * rate <= k * 9999
  OBVIOUS

LEMMA Distribute ==
  ASSUME NEW a \in Nat, NEW k \in Nat, NEW rate \in Nat
  PROVE  (a + k) * rate = a * rate + k * rate
  OBVIOUS

(* What the recipient gets grows with the gross amount, and by one at most *)
(* for every lamport.                                                      *)
LEMMA OutputSteps ==
  ASSUME NEW rate \in 0 .. Denominator - 1, NEW base \in Nat,
         NEW a \in Nat, NEW k \in Nat
  PROVE  /\ RecipientOutput(a, rate, base) \in Int
         /\ RecipientOutput(a, rate, base) <= RecipientOutput(a + k, rate, base)
         /\ RecipientOutput(a + k, rate, base)
              <= RecipientOutput(a, rate, base) + k
  <1>1. rate \in 0 .. 9999
    BY DEF Denominator
  <1>2. a * rate \in Nat /\ k * rate \in Nat /\ k * rate <= k * 9999
    BY <1>1, RateBound
  <1>3. (a + k) * rate = a * rate + k * rate
    BY <1>1, Distribute
  <1>4. /\ (a + k) * rate \in Nat
        /\ a * rate <= (a + k) * rate
        /\ (a + k) * rate <= a * rate + k * 10000
    BY <1>2, <1>3
  <1>5. /\ (a * rate) \div 10000 \in Nat
        /\ ((a + k) * rate) \div 10000 \in Nat
        /\ (a * rate) \div 10000 <= ((a + k) * rate) \div 10000
        /\ ((a + k) * rate) \div 10000 <= (a * rate) \div 10000 + k
    BY <1>2, <1>4, QuotientStep
  <1> QED
    BY <1>5 DEF RecipientOutput, WithdrawalFee, Denominator

LEMMA OutputMonotone ==
  ASSUME NEW rate \in 0 .. Denominator - 1, NEW base \in Nat,
         NEW a \in Nat, NEW b \in Nat, a <= b
  PROVE  /\ RecipientOutput(a, rate, base) \in Int
         /\ RecipientOutput(b, rate, base) \in Int
         /\ RecipientOutput(a, rate, base) <= RecipientOutput(b, rate, base)
         /\ RecipientOutput(b, rate, base) <= RecipientOutput(a, rate, base) + (b - a)
         /\ RecipientOutput(a, rate, base) <= a
  <1>1. b - a \in Nat /\ a + (b - a) = b
    OBVIOUS
  <1>2. /\ RecipientOutput(a, rate, base) \in Int
        /\ RecipientOutput(a, rate, base) <= RecipientOutput(b, rate, base)
        /\ RecipientOutput(b, rate, base) <= RecipientOutput(a, rate, base) + (b - a)
    BY <1>1, OutputSteps
  <1>3. RecipientOutput(b, rate, base) \in Int
    BY OutputSteps
  <1>4. RecipientOutput(0, rate, base) <= 0
    <2>1. rate \in Nat
      BY DEF Denominator
    <2>2. 0 * rate = 0
      BY <2>1
    <2> QED
      BY <2>2 DEF RecipientOutput, WithdrawalFee, Denominator
  <1>5. /\ RecipientOutput(0, rate, base) \in Int
        /\ RecipientOutput(0 + a, rate, base) <= RecipientOutput(0, rate, base) + a
    BY OutputSteps
  <1>6. 0 + a = a
    OBVIOUS
  <1>7. RecipientOutput(a, rate, base) <= a
    BY <1>2, <1>4, <1>5, <1>6
  <1> QED
    BY <1>2, <1>3, <1>7

(* Some gross amount within the bound of GrossWithdrawal is enough. *)
LEMMA EnoughIsInBound ==
  ASSUME NEW rate \in 0 .. Denominator - 1, NEW base \in Nat,
         NEW asked \in Nat
  PROVE  /\ (asked + base + 1) * Denominator \in Nat
         /\ asked <= (asked + base + 1) * Denominator
         /\ RecipientOutput((asked + base + 1) * Denominator, rate, base) >= asked
  <1> DEFINE m == asked + base + 1
  <1>1. m \in Nat /\ m * 10000 \in Nat /\ asked <= m * 10000 /\ rate \in 0 .. 9999
    BY DEF Denominator
  <1>2. m * rate \in Nat /\ m * rate <= m * 9999
    <2> HIDE DEF m
    <2> QED
      BY <1>1, RateBound
  <1>3. (m * 10000) * rate = (m * rate) * 10000
    <2> HIDE DEF m
    <2>1. rate \in Nat
      BY <1>1
    <2> QED
      BY <1>1, <2>1
  <1>4. ((m * rate) * 10000) \div 10000 = m * rate
    <2> DEFINE q == m * rate
    <2>1. q \in Nat
      BY <1>2
    <2> HIDE DEF q
    <2>2. (q * 10000) \div 10000 = q
      BY <2>1
    <2> QED
      BY <2>2 DEF q
  <1>5. RecipientOutput(m * 10000, rate, base) = m * 10000 - (m * rate + base)
    BY <1>3, <1>4 DEF RecipientOutput, WithdrawalFee, Denominator
  <1>6. m * 10000 - (m * rate + base) >= m - base
    <2> DEFINE q == m * rate
    <2>1. q \in Nat /\ q <= m * 9999
      BY <1>2
    <2> HIDE DEF q
    <2>2. m * 10000 - (q + base) >= m - base
      BY <1>1, <2>1
    <2> QED
      BY <2>2 DEF q
  <1>7. m - base >= asked
    OBVIOUS
  <1>8. m * 10000 - (m * rate + base) >= asked
    <2> DEFINE r == m * 10000 - (m * rate + base)
    <2>1. r \in Int
      BY <1>1, <1>2
    <2> QED
      BY <1>1, <1>6, <1>7, <2>1
  <1> QED
    BY <1>1, <1>5, <1>8 DEF Denominator

-------------------------------------------------------------------------------
(* The gross amount of a quote. *)

(* There is a least gross amount, and it lies where GrossWithdrawal looks. *)
LEMMA GrossExists ==
  ASSUME NEW rate \in 0 .. Denominator - 1, NEW base \in Nat,
         NEW asked \in Nat
  PROVE  \E gross \in asked .. ((asked + base + 1) * Denominator) :
           IsGross(gross, asked, rate, base)
  <1> DEFINE top == (asked + base + 1) * Denominator
             Enough == {gross \in asked .. top :
                          RecipientOutput(gross, rate, base) >= asked}
  <1>1. top \in Nat /\ asked <= top
        /\ RecipientOutput(top, rate, base) >= asked
    BY EnoughIsInBound
  <1> HIDE DEF top
  <1>2. top \in Enough /\ Enough \subseteq Nat
    BY <1>1
  <1>3. PICK gross \in Enough : \A other \in Enough : gross <= other
    BY <1>2, LeastNatural
  <1>4. \A less \in asked .. (gross - 1) : RecipientOutput(less, rate, base) < asked
    <2> SUFFICES ASSUME NEW less \in asked .. (gross - 1)
                 PROVE  RecipientOutput(less, rate, base) < asked
      OBVIOUS
    <2>1. less \in asked .. top /\ less < gross /\ less \in Nat
      BY <1>1, <1>3
    <2>2. less \notin Enough
      BY <1>3, <2>1
    <2>3. RecipientOutput(less, rate, base) \in Int
      BY <2>1, OutputMonotone
    <2> QED
      BY <2>1, <2>2, <2>3
  <1> QED
    BY <1>3, <1>4 DEF IsGross, top

(* There is only one, and it leaves the recipient no lamport too many. *)
LEMMA GrossIsExact ==
  ASSUME NEW rate \in 0 .. Denominator - 1, NEW base \in Nat,
         NEW asked \in Nat, NEW gross \in Nat, asked <= gross,
         IsGross(gross, asked, rate, base)
  PROVE  RecipientOutput(gross, rate, base) = asked
  <1>1. RecipientOutput(gross, rate, base) >= asked
        /\ RecipientOutput(gross, rate, base) \in Int
    BY OutputMonotone DEF IsGross
  <1>2. CASE gross = asked
    <2>1. RecipientOutput(gross, rate, base) <= gross
      BY OutputMonotone
    <2> QED
      BY <1>1, <1>2, <2>1
  <1>3. CASE gross # asked
    <2>1. gross - 1 \in Nat /\ gross - 1 \in asked .. (gross - 1)
          /\ gross - 1 <= gross /\ gross - (gross - 1) = 1
      BY <1>3
    <2>2. RecipientOutput(gross - 1, rate, base) < asked
      BY <2>1 DEF IsGross
    <2>3. /\ RecipientOutput(gross - 1, rate, base) \in Int
          /\ RecipientOutput(gross, rate, base)
               <= RecipientOutput(gross - 1, rate, base) + (gross - (gross - 1))
      BY <2>1, OutputMonotone
    <2>4. RecipientOutput(gross, rate, base) <= RecipientOutput(gross - 1, rate, base) + 1
      BY <2>1, <2>3
    <2> QED
      BY <1>1, <2>2, <2>3, <2>4
  <1> QED
    BY <1>2, <1>3

LEMMA GrossIsUnique ==
  ASSUME NEW rate \in 0 .. Denominator - 1, NEW base \in Nat,
         NEW asked \in Nat, NEW g \in Nat, NEW h \in Nat,
         asked <= g, asked <= h,
         IsGross(g, asked, rate, base), IsGross(h, asked, rate, base)
  PROVE  g = h
  <1>1. /\ RecipientOutput(g, rate, base) \in Int
        /\ RecipientOutput(h, rate, base) \in Int
    BY OutputMonotone
  <1>2. ~(g < h)
    BY <1>1 DEF IsGross
  <1>3. ~(h < g)
    BY <1>1 DEF IsGross
  <1> QED
    BY <1>2, <1>3

(* The quote's schema never rejects a quote the client computed itself: the *)
(* gross amount less its fee is the amount asked for, to the lamport, and   *)
(* the shortfall is the one the schema expects (quoteTransfer and           *)
(* validateTransferQuoteFields).                                            *)
THEOREM QuotesAreValid ==
  ASSUME NEW rate \in 0 .. Denominator - 1, NEW base \in Nat,
         NEW asked \in Nat, NEW funds \in Nat
  PROVE  QuoteIsValid(TransferQuote(asked, funds, rate, base))
  <1> DEFINE gross == GrossWithdrawal(asked, rate, base)
  <1>1. /\ gross \in asked .. ((asked + base + 1) * Denominator)
        /\ IsGross(gross, asked, rate, base)
    BY GrossExists DEF GrossWithdrawal
  <1>2. (asked + base + 1) * Denominator \in Nat
    BY EnoughIsInBound
  <1> HIDE DEF gross
  <1>3. gross \in Nat /\ asked <= gross
    BY <1>1, <1>2
  <1>4. RecipientOutput(gross, rate, base) = asked
    BY <1>1, <1>3, GrossIsExact
  <1>5. gross - WithdrawalFee(gross, rate, base) = asked
    BY <1>4 DEF RecipientOutput
  <1> QED
    BY <1>5 DEF QuoteIsValid, TransferQuote, gross
===============================================================================
