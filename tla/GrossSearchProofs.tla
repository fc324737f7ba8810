--------------------------- MODULE GrossSearchProofs ---------------------------
(***************************************************************************)
(* The search of GrossSearch finds the gross amount Quotes speaks of, for  *)
(* every amount, fee rate and rent.                                        *)
(***************************************************************************)
EXTENDS GrossSearch, QuotesProofs

-------------------------------------------------------------------------------
(* The search. *)

Top == (recipient + rent + 1) * Denominator

(* Whatever lies below the bracket is too little, and once the bracket has *)
(* been widened its upper end is enough.                                   *)
Bracket ==
  /\ recipient \in Nat \ {0} /\ bps \in 0 .. Denominator - 1 /\ rent \in Nat
  /\ low \in Nat /\ high \in Nat /\ recipient <= low /\ low <= high
  /\ high <= 2 * Top
  /\ stage \in {"widen", "halve", "done"}
  /\ \A less \in recipient .. (low - 1) : Output(less) < recipient
  /\ stage # "widen" => Output(high) >= recipient
  /\ stage = "done" => low = high

LEMMA InitBracket == Init => Bracket
  <1> SUFFICES ASSUME Init
               PROVE  Bracket
    OBVIOUS
  <1>1. /\ recipient \in Nat \ {0} /\ bps \in 0 .. Denominator - 1 /\ rent \in Nat
        /\ low = recipient /\ high = recipient + rent + 1 /\ stage = "widen"
    BY DEF Init
  <1>2. high <= 2 * Top
    BY <1>1 DEF Top, Denominator
  <1> QED
    BY <1>1, <1>2 DEF Bracket

LEMMA WidenKeeps == Bracket /\ Widen => Bracket'
  <1> SUFFICES ASSUME Bracket, Widen
               PROVE  Bracket'
    OBVIOUS
  <1> USE DEF question
  <1>1. Top \in Nat /\ Output(Top) >= recipient /\ Output(Top) \in Int
    <2>1. /\ bps \in 0 .. Denominator - 1 /\ rent \in Nat /\ recipient \in Nat
      BY DEF Bracket
    <2>2. Top \in Nat /\ RecipientOutput(Top, bps, rent) >= recipient
      BY <2>1, EnoughIsInBound DEF Top
    <2> QED
      BY <2>1, <2>2, OutputMonotone DEF Output
  <1>2. \A g : Output(g)' = RecipientOutput(g, bps, rent)'
    BY DEF Output
  <1>3. UNCHANGED <<recipient, bps, rent, low>> /\ Top' = Top
    BY DEF Widen, Top
  <1>4. \A g : Output(g) = RecipientOutput(g, bps, rent)
    BY DEF Output
  <1>5. CASE Output(high) < recipient /\ high' = 2 * high /\ UNCHANGED stage
    <2>1. Output(high) \in Int /\ (Top <= high => Output(Top) <= Output(high))
      BY <1>1, OutputMonotone DEF Bracket, Output
    <2>2. high < Top
      BY <1>1, <1>5, <2>1 DEF Bracket
    <2>3. high' \in Nat /\ low' <= high' /\ high' <= 2 * Top'
      BY <1>1, <1>3, <1>5, <2>2 DEF Bracket
    <2>4. stage = "widen" /\ stage' = "widen"
      BY <1>5 DEF Widen
    <2>5. \A less \in recipient' .. (low' - 1) : Output(less)' < recipient'
      BY <1>3 DEF Bracket, Output
    <2> QED
      BY <1>3, <2>3, <2>4, <2>5 DEF Bracket
  <1>6. CASE Output(high) >= recipient /\ stage' = "halve" /\ UNCHANGED high
    <2>1. Output(high)' >= recipient'
      BY <1>3, <1>6 DEF Output
    <2>2. \A less \in recipient' .. (low' - 1) : Output(less)' < recipient'
      BY <1>3 DEF Bracket, Output
    <2> QED
      BY <1>3, <1>6, <2>1, <2>2 DEF Bracket
  <1> QED
    BY <1>5, <1>6 DEF Widen

LEMMA HalveKeeps == Bracket /\ Halve => Bracket'
  <1> SUFFICES ASSUME Bracket, Halve
               PROVE  Bracket'
    OBVIOUS
  <1> DEFINE midpoint == (low + high) \div 2
  <1>1. UNCHANGED <<recipient, bps, rent, stage>> /\ Top' = Top
        /\ stage = "halve" /\ low < high
    BY DEF Halve, question, Top
  <1>2. /\ midpoint \in Nat /\ low <= midpoint /\ midpoint < high
        /\ midpoint + 1 \in Nat
    <2>1. low \in Nat /\ high \in Nat /\ low < high
      BY <1>1 DEF Bracket
    <2> QED
      BY <2>1
  <1>3. \/ Output(midpoint) >= recipient /\ high' = midpoint /\ low' = low
        \/ Output(midpoint) < recipient /\ low' = midpoint + 1 /\ high' = high
    BY DEF Halve
  <1> HIDE DEF midpoint
  <1>4. Top \in Nat
    BY EnoughIsInBound DEF Top, Bracket
  <1>5. CASE Output(midpoint) >= recipient /\ high' = midpoint /\ low' = low
    <2>1. Output(high)' >= recipient'
      BY <1>1, <1>5 DEF Output
    <2>2. \A less \in recipient' .. (low' - 1) : Output(less)' < recipient'
      BY <1>1, <1>5 DEF Bracket, Output
    <2>3. high' \in Nat /\ low' <= high' /\ high' <= 2 * Top'
      BY <1>1, <1>2, <1>4, <1>5 DEF Bracket
    <2> QED
      BY <1>1, <1>5, <2>1, <2>2, <2>3 DEF Bracket
  <1>6. CASE Output(midpoint) < recipient /\ low' = midpoint + 1 /\ high' = high
    <2>1. \A less \in recipient .. midpoint : Output(less) < recipient
      <3> SUFFICES ASSUME NEW less \in recipient .. midpoint
                   PROVE  Output(less) < recipient
        OBVIOUS
      <3>1. /\ bps \in 0 .. Denominator - 1 /\ rent \in Nat /\ recipient \in Nat
            /\ less \in Nat /\ less <= midpoint
        BY <1>2 DEF Bracket
      <3>2. /\ Output(less) \in Int /\ Output(midpoint) \in Int
            /\ Output(less) <= Output(midpoint)
        BY <1>2, <3>1, OutputMonotone DEF Output
      <3> QED
        BY <1>6, <3>1, <3>2
    <2>2. low' - 1 = midpoint
      BY <1>2, <1>6
    <2>3. \A less \in recipient' .. (low' - 1) : Output(less)' < recipient'
      BY <1>1, <2>1, <2>2 DEF Output
    <2>4. Output(high)' >= recipient'
      BY <1>1, <1>6 DEF Output, Bracket
    <2>5. low' \in Nat /\ recipient' <= low' /\ low' <= high'
      BY <1>1, <1>2, <1>6 DEF Bracket
    <2> QED
      BY <1>1, <1>6, <2>3, <2>4, <2>5 DEF Bracket
  <1> QED
    BY <1>3, <1>5, <1>6

LEMMA ReturnKeeps == Bracket /\ Return => Bracket'
  BY DEF Bracket, Return, question, Top, Output

LEMMA StepKeeps == Bracket /\ [Next]_vars => Bracket'
  <1>1. Bracket /\ UNCHANGED vars => Bracket'
    BY DEF Bracket, vars, Top, Output
  <1> QED
    BY <1>1, WidenKeeps, HalveKeeps, ReturnKeeps DEF Next

LEMMA BracketHolds == Spec => []Bracket
  <1> QED
    BY InitBracket, StepKeeps, PTL DEF Spec

(* What the search returns is the gross amount Quotes speaks of, the least *)
(* that is enough, and it leaves the recipient exactly what was asked for  *)
(* (calculateGrossWithdrawalLamports).                                     *)
SearchIsRight ==
  stage = "done" =>
    /\ low = GrossWithdrawal(recipient, bps, rent)
    /\ Output(low) = recipient

THEOREM SearchFindsGross == Spec => []SearchIsRight
  <1>1. Bracket => SearchIsRight
    <2> SUFFICES ASSUME Bracket, stage = "done"
                 PROVE  /\ low = GrossWithdrawal(recipient, bps, rent)
                        /\ Output(low) = recipient
      BY DEF SearchIsRight
    <2> DEFINE gross == GrossWithdrawal(recipient, bps, rent)
    <2>1. /\ recipient \in Nat /\ bps \in 0 .. Denominator - 1 /\ rent \in Nat
          /\ low \in Nat /\ recipient <= low
      BY DEF Bracket
    <2>2. IsGross(low, recipient, bps, rent)
      BY DEF Bracket, IsGross, Output
    <2>3. /\ gross \in recipient .. ((recipient + rent + 1) * Denominator)
          /\ IsGross(gross, recipient, bps, rent)
      BY <2>1, GrossExists DEF GrossWithdrawal
    <2>4. (recipient + rent + 1) * Denominator \in Nat
      BY <2>1, EnoughIsInBound
    <2> HIDE DEF gross
    <2>5. gross \in Nat /\ recipient <= gross
      BY <2>1, <2>3, <2>4
    <2>6. low = gross
      BY <2>1, <2>2, <2>3, <2>5, GrossIsUnique
    <2>7. Output(low) = recipient
      BY <2>1, <2>2, GrossIsExact DEF Output
    <2> QED
      BY <2>6, <2>7 DEF gross
  <1> QED
    BY <1>1, BracketHolds, PTL

(* The search ends: it widens the bracket only up to a bound the question  *)
(* sets, and then every step makes the bracket smaller, or is the last.    *)
SearchShrinks ==
  [][\/ stage' # stage
     \/ stage = "widen" /\ high < high' /\ high' <= 2 * Top
     \/ stage = "halve" /\ low' <= high' /\ high' - low' < high - low]_vars

THEOREM SearchMakesProgress == Spec => SearchShrinks
  <1>1. Bracket /\ Bracket' /\ [Next]_vars =>
          [\/ stage' # stage
           \/ stage = "widen" /\ high < high' /\ high' <= 2 * Top
           \/ stage = "halve" /\ low' <= high' /\ high' - low' < high - low]_vars
    <2> SUFFICES ASSUME Bracket, Bracket', Next
                 PROVE  \/ stage' # stage
                        \/ stage = "widen" /\ high < high' /\ high' <= 2 * Top
                        \/ /\ stage = "halve" /\ low' <= high'
                           /\ high' - low' < high - low
      OBVIOUS
    <2>1. CASE Widen
      <3>1. CASE high' = 2 * high /\ UNCHANGED stage
        <4>1. high \in Nat \ {0}
          BY DEF Bracket
        <4>2. Top' = Top
          BY <2>1 DEF Widen, question, Top
        <4>3. stage = "widen" /\ high' <= 2 * Top
          BY <2>1, <4>2 DEF Widen, Bracket
        <4> QED
          BY <3>1, <4>1, <4>3
      <3> QED
        BY <2>1, <3>1 DEF Widen
    <2>2. CASE Halve
      <3> DEFINE midpoint == (low + high) \div 2
      <3>1. low \in Nat /\ high \in Nat /\ low < high /\ stage = "halve"
        BY <2>2 DEF Halve, Bracket
      <3>2. midpoint \in Nat /\ low <= midpoint /\ midpoint < high
        BY <3>1
      <3>3. \/ high' = midpoint /\ low' = low
            \/ low' = midpoint + 1 /\ high' = high
        BY <2>2 DEF Halve
      <3> HIDE DEF midpoint
      <3>4. low' <= high' /\ high' - low' < high - low
        BY <3>1, <3>2, <3>3
      <3> QED
        BY <3>1, <3>4
    <2>3. CASE Return
      BY <2>3 DEF Return
    <2> QED
      BY <2>1, <2>2, <2>3 DEF Next
  <1> QED
    BY <1>1, BracketHolds, PTL DEF Spec, SearchShrinks
===============================================================================
