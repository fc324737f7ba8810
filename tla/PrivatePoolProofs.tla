-------------------------- MODULE PrivatePoolProofs ---------------------------
(*****************************************************************************)
(* For any number of devices, transactions and notes: no nullifier is spent *)
(* twice on the chain, the rows the indexer stores are the leaves of the    *)
(* chain, and what a device makes of them, from its scan to the transaction *)
(* it sends, passes every later check, however they have grown meanwhile.   *)
(*****************************************************************************)
EXTENDS PrivatePool, PoolDataProofs

-------------------------------------------------------------------------------
(* Calls whose nullifiers are all different. *)

Distinct(made) ==
  \A c1, c2 \in 1 .. Len(made) : \A s1, s2 \in 1 .. 2 :
    made[c1].nullifiers[s1] = made[c2].nullifiers[s2] => c1 = c2 /\ s1 = s2

(* The four accounts of a call that is accepted keep its two nullifiers     *)
(* apart from those of every earlier call, in either slot.                  *)
LEMMA UnusedAccounts ==
  ASSUME NEW S, NEW made \in Seq(S), NEW pair,
         AreUnused(DeriveNullifierAccounts(pair), made),
         NEW c \in 1 .. Len(made), NEW s1 \in 1 .. 2, NEW s2 \in 1 .. 2
  PROVE  made[c].nullifiers[s1] # pair[s2]
  <1> DEFINE first == made[c].nullifiers[1]
             second == made[c].nullifiers[2]
  <1>1. /\ <<0, first>> \in AccountsOf(made)
        /\ <<1, second>> \in AccountsOf(made)
    <2>1. made[c] \in ToSet(made)
      BY DEF ToSet
    <2>2. {<<0, first>>, <<1, second>>} \in
            {{<<0, call.nullifiers[1]>>, <<1, call.nullifiers[2]>>} :
               call \in ToSet(made)}
      BY <2>1
    <2> QED
      BY <2>2 DEF AccountsOf
  <1>2. /\ <<0, pair[1]>> \in ToSet(DeriveNullifierAccounts(pair))
        /\ <<1, pair[2]>> \in ToSet(DeriveNullifierAccounts(pair))
        /\ <<0, pair[2]>> \in ToSet(DeriveNullifierAccounts(pair))
        /\ <<1, pair[1]>> \in ToSet(DeriveNullifierAccounts(pair))
    <2> DEFINE four == DeriveNullifierAccounts(pair)
    <2>1. /\ four[1] = <<0, pair[1]>> /\ four[2] = <<1, pair[2]>>
          /\ four[3] = <<0, pair[2]>> /\ four[4] = <<1, pair[1]>>
          /\ DOMAIN four = 1 .. 4
      BY DEF DeriveNullifierAccounts
    <2> QED
      BY <2>1 DEF ToSet
  <1>3. /\ <<0, first>> # <<0, pair[1]>> /\ <<0, first>> # <<0, pair[2]>>
        /\ <<1, second>> # <<1, pair[1]>> /\ <<1, second>> # <<1, pair[2]>>
    BY <1>1, <1>2 DEF AreUnused
  <1>4. /\ first # pair[1] /\ first # pair[2]
        /\ second # pair[1] /\ second # pair[2]
    BY <1>3
  <1> QED
    BY <1>4

LEMMA AddCall ==
  ASSUME NEW S, NEW made \in Seq(S), NEW call \in S, Distinct(made),
         call.nullifiers[1] # call.nullifiers[2],
         AreUnused(DeriveNullifierAccounts(call.nullifiers), made)
  PROVE  Distinct(Append(made, call))
  <1> DEFINE longer == Append(made, call)
  <1>1. /\ Len(longer) = Len(made) + 1 /\ Len(made) \in Nat
        /\ \A c \in 1 .. Len(made) : longer[c] = made[c]
        /\ longer[Len(made) + 1] = call
    OBVIOUS
  <1>2. \A c \in 1 .. Len(made) : \A s1, s2 \in 1 .. 2 :
          made[c].nullifiers[s1] # call.nullifiers[s2]
    BY UnusedAccounts
  <1> HIDE DEF longer
  <1>3. ASSUME NEW c1 \in 1 .. Len(longer), NEW c2 \in 1 .. Len(longer),
               NEW s1 \in 1 .. 2, NEW s2 \in 1 .. 2,
               longer[c1].nullifiers[s1] = longer[c2].nullifiers[s2]
        PROVE  c1 = c2 /\ s1 = s2
    <2>1. CASE c1 \in 1 .. Len(made) /\ c2 \in 1 .. Len(made)
      BY <1>1, <1>3, <2>1 DEF Distinct
    <2>2. CASE c1 \in 1 .. Len(made) /\ c2 = Len(made) + 1
      BY <1>1, <1>2, <1>3, <2>2
    <2>3. CASE c1 = Len(made) + 1 /\ c2 \in 1 .. Len(made)
      BY <1>1, <1>2, <1>3, <2>3
    <2>4. CASE c1 = Len(made) + 1 /\ c2 = Len(made) + 1
      BY <1>1, <1>3, <2>4
    <2> QED
      BY <1>1, <2>1, <2>2, <2>3, <2>4
  <1> QED
    BY <1>3 DEF Distinct, longer

(* The nullifier of a dummy holds the random number it was made with. *)
LEMMA DummyNullifier ==
  ASSUME NEW height, NEW randoms, NEW s \in 1 .. 2
  PROVE  CreateInputSlots(<<>>, height, randoms)[s].nullifier[1]
           = <<"dummy", randoms[s]>>
  <1> DEFINE random == <<"dummy", randoms[s]>>
             dummy == CreateDummyInputSlot(height, random)
  <1>1. CreateInputSlots(<<>>, height, randoms)[s] = dummy
    BY DEF CreateInputSlots
  <1>2. dummy.nullifier =
          <<random, CommitmentOf(0, UtxoPublicKey(random), random), 0>>
    BY DEF CreateDummyInputSlot, NullifierOf, Poseidon
  <1>3. dummy.nullifier[1] = random
    <2> HIDE DEF dummy, random
    <2> QED
      BY <1>2
  <1> QED
    BY <1>1, <1>3

-------------------------------------------------------------------------------
(* The invariant: what the program has let in. *)

SpendInv ==
  /\ \E S : calls \in Seq(S)
  /\ Distinct(calls)

LEMMA InitSpend == Init => SpendInv
  <1> SUFFICES ASSUME Init
               PROVE  SpendInv
    OBVIOUS
  <1>1. OpeningAmounts \in Seq(Nat \ {0})
    BY OpeningAssumption
  <1>2. calls = [t \in 1 .. Len(OpeningAmounts) |-> OldDeposit(t)]
        /\ Len(OpeningAmounts) \in Nat
    BY <1>1 DEF Init
  <1>3. calls \in Seq({OldDeposit(t) : t \in 1 .. Len(OpeningAmounts)})
        /\ Len(calls) = Len(OpeningAmounts)
    BY <1>2
  <1>4. ASSUME NEW t \in 1 .. Len(OpeningAmounts), NEW s \in 1 .. 2
        PROVE  OldDeposit(t).nullifiers[s][1] = <<"dummy", 2 * t - 2 + s>>
    <2> DEFINE slots == CreateInputSlots(<<>>, Height, OldRandoms(t))
    <2>1. OldRandoms(t)[s] = 2 * t - 2 + s
      BY <1>2 DEF OldRandoms
    <2>2. OldDeposit(t).nullifiers = <<slots[1].nullifier, slots[2].nullifier>>
      BY DEF OldDeposit, Call
    <2>3. slots[s].nullifier[1] = <<"dummy", OldRandoms(t)[s]>>
      BY DummyNullifier
    <2> HIDE DEF slots
    <2>4. OldDeposit(t).nullifiers[s] = slots[s].nullifier
      BY <2>2
    <2> QED
      BY <2>1, <2>3, <2>4
  <1>5. ASSUME NEW c1 \in 1 .. Len(calls), NEW c2 \in 1 .. Len(calls),
               NEW s1 \in 1 .. 2, NEW s2 \in 1 .. 2,
               calls[c1].nullifiers[s1] = calls[c2].nullifiers[s2]
        PROVE  c1 = c2 /\ s1 = s2
    <2>1. /\ calls[c1].nullifiers[s1][1] = <<"dummy", 2 * c1 - 2 + s1>>
          /\ calls[c2].nullifiers[s2][1] = <<"dummy", 2 * c2 - 2 + s2>>
      BY <1>2, <1>3, <1>4
    <2>2. <<"dummy", 2 * c1 - 2 + s1>> = <<"dummy", 2 * c2 - 2 + s2>>
      BY <1>5, <2>1
    <2>3. 2 * c1 - 2 + s1 = 2 * c2 - 2 + s2
      BY <2>2
    <2> QED
      BY <1>2, <1>3, <2>3
  <1>6. Distinct(calls)
    BY <1>5 DEF Distinct
  <1> QED
    BY <1>3, <1>6 DEF SpendInv

(* A call is added to the chain. *)
LEMMA CallsStep ==
  ASSUME NEW S, calls' \in Seq(S), Distinct(calls)'
  PROVE  SpendInv'
  BY DEF SpendInv

(* What the program demands of an instruction keeps its nullifiers apart,   *)
(* and its four accounts are those of the two nullifiers it spends.         *)
LEMMA AcceptedCall ==
  ASSUME NEW instruction, Accepts(instruction)
  PROVE  LET pair == CallOf(instruction).nullifiers
         IN  /\ pair[1] # pair[2]
             /\ AreUnused(DeriveNullifierAccounts(pair), calls)
  <1> DEFINE proof == ParseTransactInstruction(instruction).data.proof
             pair == CallOf(instruction).nullifiers
  <1>1. pair = proof.inputNullifiers
    BY DEF CallOf
  <1>2. /\ NullifierAccountsOf(instruction) = DeriveNullifierAccounts(pair)
        /\ Verifies(proof, FieldSize)
    <2>1. PICK parsed \in ParseInstruction(instruction, "pool") :
             /\ parsed.kind = "transact"
             /\ NullifierAccountsOf(instruction) =
                  DeriveNullifierAccounts(parsed.data.proof.inputNullifiers)
             /\ Verifies(parsed.data.proof, FieldSize)
      BY DEF Accepts, IsWellFormed
    <2>2. parsed.data = ParseTransactInstruction(instruction).data
      BY <2>1 DEF ParseInstruction
    <2> QED
      BY <1>1, <2>1, <2>2
  <1>3. /\ ShownBy(Proven(proof)) = PublicSignals(proof)
        /\ Proven(proof).inputNullifier[1] # Proven(proof).inputNullifier[2]
    BY <1>2 DEF Verifies, Satisfied
  <1> HIDE DEF proof, pair
  <1>4. /\ ShownBy(Proven(proof))[4] = Proven(proof).inputNullifier[1]
        /\ ShownBy(Proven(proof))[5] = Proven(proof).inputNullifier[2]
        /\ PublicSignals(proof)[4] = proof.inputNullifiers[1]
        /\ PublicSignals(proof)[5] = proof.inputNullifiers[2]
    BY DEF ShownBy, PublicSignals
  <1>5. pair[1] # pair[2]
    BY <1>1, <1>3, <1>4
  <1>6. AreUnused(DeriveNullifierAccounts(pair), calls)
    BY <1>2 DEF Accepts
  <1> QED
    BY <1>5, <1>6 DEF pair

LEMMA LandKeeps ==
  ASSUME SpendInv, NEW d \in Devices, Land(d)
  PROVE  SpendInv'
  <1>1. PICK message \in Sent(job[d].tx) :
           /\ Accepts(Last(message))
           /\ calls' = Append(calls, CallOf(Last(message)))
    BY DEF Land
  <1> DEFINE call == CallOf(Last(message))
  <1>2. /\ call.nullifiers[1] # call.nullifiers[2]
        /\ AreUnused(DeriveNullifierAccounts(call.nullifiers), calls)
    BY <1>1, AcceptedCall
  <1>3. PICK S : calls \in Seq(S)
    BY DEF SpendInv
  <1> HIDE DEF call
  <1> DEFINE U == S \union {call}
  <1>4. calls \in Seq(U) /\ call \in U
    BY <1>3
  <1> HIDE DEF U
  <1>5. Distinct(Append(calls, call)) /\ Append(calls, call) \in Seq(U)
    BY <1>2, <1>4, AddCall DEF SpendInv
  <1>6. Distinct(calls)' /\ calls' \in Seq(U)
    BY <1>1, <1>5 DEF Distinct, call
  <1> QED
    BY <1>6, CallsStep

LEMMA FirstOfTwo ==
  ASSUME NEW U, NEW made \in Seq(U), NEW more \in Seq(U), Len(more) = 2
  PROVE  made \o SubSeq(more, 1, 1) = Append(made, more[1])
  <1> DEFINE one == SubSeq(more, 1, 1)
             first == more[1]
  <1>1. first \in U
    BY ElementOfSeq
  <1>2. one \in Seq(U) /\ Len(one) = 1 /\ one[1] = first
    BY <1>1, SubSeqProperties
  <1>3. Len(made) \in Nat
    BY LenProperties
  <1> HIDE DEF one, first
  <1>4. /\ made \o one \in Seq(U)
        /\ Len(made \o one) = Len(made) + 1
        /\ \A i \in 1 .. Len(made) + 1 :
             (made \o one)[i] = IF i <= Len(made) THEN made[i] ELSE first
    <2>1. /\ made \o one \in Seq(U)
          /\ Len(made \o one) = Len(made) + Len(one)
          /\ \A i \in 1 .. Len(made) + Len(one) :
               (made \o one)[i] =
                 IF i <= Len(made) THEN made[i] ELSE one[i - Len(made)]
      BY <1>2, ConcatProperties
    <2> DEFINE both == made \o one
               size == Len(made)
    <2> HIDE DEF both, size
    <2>2. \A i \in 1 .. size + 1 : i <= size \/ i - size = 1
      BY <1>3 DEF size
    <2> QED
      BY <1>2, <1>3, <2>1, <2>2 DEF both, size
  <1>5. /\ Append(made, first) \in Seq(U)
        /\ Len(Append(made, first)) = Len(made) + 1
        /\ \A i \in 1 .. Len(made) : Append(made, first)[i] = made[i]
        /\ Append(made, first)[Len(made) + 1] = first
    BY <1>1, AppendProperties
  <1>6. \A i \in 1 .. Len(made) + 1 : (made \o one)[i] = Append(made, first)[i]
    <2> DEFINE size == Len(made)
    <2>1. \A i \in 1 .. size + 1 : i \in 1 .. size \/ i = size + 1
      BY <1>3
    <2>2. ~(size + 1 <= size) /\ \A i \in 1 .. size : i <= size
      BY <1>3
    <2>3. size + 1 \in 1 .. size + 1
      BY <1>3
    <2> QED
      BY <1>4, <1>5, <2>1, <2>2, <2>3, Zenon
  <1>7. made \o one = Append(made, first)
    BY <1>4, <1>5, <1>6, SeqEqual
  <1> QED
    BY <1>7 DEF one, first

(* One call of another wallet, and a second one after it. *)
LEMMA ForeignKeeps ==
  ASSUME SpendInv, NEW shape \in Shapes, Foreign(shape)
  PROVE  SpendInv'
  <1> DEFINE first == Len(calls)
             key == NoteKey("other")
             randoms(c) == <<-2 * (first + c), -2 * (first + c) - 1>>
             Deposit(c) ==
               Call(CreateInputSlots(<<>>, Height, randoms(c)),
                    CreateOutputs(key, UtxoPublicKey(UtxoPrivateKey(key)), 1,
                                  2 * (first + c - 1), randoms(c)),
                    [amount |-> 1, fee |-> 0])
             made == [c \in 1 .. CallsIn(shape) |-> Deposit(c)]
  <1>1. /\ calls' = calls \o made
        /\ \A c \in 1 .. CallsIn(shape) :
             AreUnused(DeriveNullifierAccounts(made[c].nullifiers),
                       calls \o SubSeq(made, 1, c - 1))
    BY DEF Foreign
  <1>2. PICK S : calls \in Seq(S)
    BY DEF SpendInv
  <1>3. Len(calls) \in Nat /\ Distinct(calls)
    BY <1>2 DEF SpendInv
  <1>4. CallsIn(shape) \in 1 .. 2
    BY PoolAssumption DEF CallsIn
  <1>5. ASSUME NEW c \in 1 .. 2
        PROVE  Deposit(c).nullifiers[1] # Deposit(c).nullifiers[2]
    <2> DEFINE slots == CreateInputSlots(<<>>, Height, randoms(c))
    <2>1. Deposit(c).nullifiers = <<slots[1].nullifier, slots[2].nullifier>>
      BY DEF Call
    <2>2. /\ slots[1].nullifier[1] = <<"dummy", randoms(c)[1]>>
          /\ slots[2].nullifier[1] = <<"dummy", randoms(c)[2]>>
      BY DummyNullifier
    <2>3. randoms(c)[1] # randoms(c)[2]
      BY <1>3
    <2> HIDE DEF slots, randoms, Deposit
    <2>4. <<"dummy", randoms(c)[1]>> # <<"dummy", randoms(c)[2]>>
      BY <2>3
    <2> QED
      BY <2>1, <2>2, <2>4
  <1>6. DOMAIN made = 1 .. CallsIn(shape)
        /\ \A c \in 1 .. CallsIn(shape) : made[c] = Deposit(c)
    OBVIOUS
  <1> HIDE DEF made, Deposit
  <1> DEFINE U == S \union {Deposit(1), Deposit(2)}
  <1>7. /\ calls \in Seq(U) /\ Deposit(1) \in U /\ Deposit(2) \in U
    BY <1>2
  <1>8. made \in Seq(U) /\ Len(made) = CallsIn(shape)
    BY <1>4, <1>6, <1>7 DEF made
  <1> HIDE DEF U
  <1>9. SubSeq(made, 1, 0) = <<>> /\ calls \o <<>> = calls
    BY <1>7, <1>8
  <1>10. Distinct(Append(calls, Deposit(1))) /\ Append(calls, Deposit(1)) \in Seq(U)
    <2>1. AreUnused(DeriveNullifierAccounts(Deposit(1).nullifiers), calls)
      <3>1. 1 - 1 = 0 /\ 1 \in 1 .. CallsIn(shape) /\ made[1] = Deposit(1)
        BY <1>4, <1>6
      <3> QED
        BY <1>1, <1>9, <3>1
    <2>2. Deposit(1).nullifiers[1] # Deposit(1).nullifiers[2]
      BY <1>5
    <2> QED
      BY <1>3, <1>7, <2>1, <2>2, AddCall
  <1>11. CASE CallsIn(shape) = 1
    <2>1. made = <<Deposit(1)>>
      BY <1>6, <1>8, <1>11
    <2>2. calls' = Append(calls, Deposit(1))
      BY <1>1, <1>7, <2>1
    <2>3. Distinct(calls)' /\ calls' \in Seq(U)
      BY <1>10, <2>2 DEF Distinct
    <2> QED
      BY <2>3, CallsStep
  <1>12. CASE CallsIn(shape) = 2
    <2>1. made = <<Deposit(1), Deposit(2)>>
      BY <1>6, <1>8, <1>12
    <2>2. Len(made) = 2 /\ made[1] = Deposit(1)
      BY <1>6, <1>8, <1>12
    <2>3. calls \o SubSeq(made, 1, 1) = Append(calls, Deposit(1))
      BY <1>7, <1>8, <2>2, FirstOfTwo
    <2>4. calls' = Append(Append(calls, Deposit(1)), Deposit(2))
      BY <1>1, <1>7, <2>1
    <2>5. AreUnused(DeriveNullifierAccounts(Deposit(2).nullifiers),
                    Append(calls, Deposit(1)))
      <3>1. 2 - 1 = 1 /\ 2 \in 1 .. CallsIn(shape) /\ made[2] = Deposit(2)
        BY <1>6, <1>12
      <3> QED
        BY <1>1, <2>3, <3>1
    <2>6. Deposit(2).nullifiers[1] # Deposit(2).nullifiers[2]
      BY <1>5
    <2> DEFINE longer == Append(calls, Deposit(1))
    <2>7. longer \in Seq(U) /\ Distinct(longer)
      BY <1>10
    <2>8. AreUnused(DeriveNullifierAccounts(Deposit(2).nullifiers), longer)
      BY <2>5
    <2> HIDE DEF longer
    <2>9. Distinct(Append(longer, Deposit(2))) /\ Append(longer, Deposit(2)) \in Seq(U)
      BY <1>7, <2>6, <2>7, <2>8, AddCall
    <2>10. Distinct(calls)' /\ calls' \in Seq(U)
      BY <2>4, <2>9 DEF Distinct, longer
    <2> QED
      BY <2>10, CallsStep
  <1> QED
    BY <1>4, <1>11, <1>12

LEMMA NextKeeps == SpendInv /\ [Next]_vars => SpendInv'
  <1> SUFFICES ASSUME SpendInv, [Next]_vars
               PROVE  SpendInv'
    OBVIOUS
  <1>1. ASSUME UNCHANGED calls
        PROVE  SpendInv'
    BY <1>1 DEF SpendInv, Distinct
  <1>2. ASSUME NEW t \in DOMAIN txs, InsertOutputs(t) \/ InsertSpentNullifiers(t)
        PROVE  SpendInv'
    BY <1>1, <1>2 DEF InsertOutputs, InsertSpentNullifiers
  <1>3. ASSUME NEW d \in Devices, NEW record, Become(d, record)
        PROVE  SpendInv'
    BY <1>1, <1>3 DEF Become
  <1>4. ASSUME NEW d \in Devices, NEW recipient \in Payments, Quote(d, recipient)
        PROVE  SpendInv'
    BY <1>3, <1>4 DEF Quote
  <1>5. ASSUME NEW d \in Devices, NEW lamports \in Deposits,
               PrepareDeposit(d, lamports)
        PROVE  SpendInv'
    BY <1>3, <1>5 DEF PrepareDeposit
  <1>6. ASSUME NEW d \in Devices,
               Scan(d) \/ Select(d) \/ GetMerkleProof(d) \/ Prepare(d)
        PROVE  SpendInv'
    BY <1>3, <1>6 DEF Scan, Select, GetMerkleProof, Prepare
  <1>7. ASSUME NEW d \in Devices, Fail(d) \/ Discard(d)
        PROVE  SpendInv'
    BY <1>3, <1>7 DEF Fail, Discard
  <1>8. ASSUME UNCHANGED vars
        PROVE  SpendInv'
    BY <1>1, <1>8 DEF vars
  <1> QED
    BY <1>2, <1>4, <1>5, <1>6, <1>7, <1>8, LandKeeps, ForeignKeeps DEF Next

(* No nullifier is spent twice, whatever devices pick which notes in which  *)
(* slots, and whoever lands first (deriveNullifierAccounts).                *)
THEOREM NotesAreSpentOnce == Spec => []SpentOnce
  <1>1. SpendInv => SpentOnce
    <2> SUFFICES ASSUME SpendInv
                 PROVE  SpentOnce
      OBVIOUS
    <2>1. DOMAIN calls = 1 .. Len(calls)
      BY DEF SpendInv
    <2> QED
      BY <2>1 DEF SpendInv, SpentOnce, Distinct
  <1> QED
    BY <1>1, InitSpend, NextKeeps, PTL DEF Spec

-------------------------------------------------------------------------------
(* The logs of a transaction, as the parser reads them.                     *)

(* What reading one log line does. *)
ReadLog(acc, log, program) ==
  CASE log.kind = "invoke" ->
         [acc EXCEPT !.stack = Append(@, log.program)]
    [] IsCommitment(log) /\ acc.stack # <<>> ->
         IF Last(acc.stack) = program
         THEN [acc EXCEPT !.events = Append(@, log.event)]
         ELSE acc
    [] log.kind = "exit" /\ acc.stack # <<>> ->
         [acc EXCEPT !.stack = Front(@)]
    [] OTHER -> acc

IsReading(read, logs, n, program) ==
  /\ read[0] = [stack |-> <<>>, events |-> <<>>]
  /\ \A i \in 1 .. n : read[i] = ReadLog(read[i - 1], logs[i], program)

GivesEvents(read, logs, n, program) ==
  /\ IsReading(read, logs, n, program)
  /\ CommitmentEvents(logs, program) = read[n].events

IsRead(logs, n, program) == \E read : GivesEvents(read, logs, n, program)

LEMMA ReadingExists ==
  ASSUME NEW logs, NEW program, NEW n \in Nat, Len(logs) = n
  PROVE  IsRead(logs, n, program)
  <1> DEFINE Step(read, i) ==
               IF i = 0 THEN [stack |-> <<>>, events |-> <<>>]
               ELSE ReadLog(read[i - 1], logs[i], program)
             Body(m, read) == [i \in 0 .. m |-> Step(read, i)]
             S == {m \in Nat : \E read : read = Body(m, read)}
  <1>1. 0 \in S
    <2> DEFINE zero == Body(0, <<>>)
    <2>1. \A i \in 0 .. 0 : Step(<<>>, i) = Step(zero, i)
      OBVIOUS
    <2>2. zero = Body(0, zero)
      <3> HIDE DEF Step
      <3>1. [i \in 0 .. 0 |-> Step(<<>>, i)] = [i \in 0 .. 0 |-> Step(zero, i)]
        <4> HIDE DEF zero
        <4> QED
          BY <2>1
      <3> QED
        BY <3>1
    <2> HIDE DEF Body, zero
    <2> QED
      BY <2>2
  <1>2. ASSUME NEW m \in Nat, m \in S
        PROVE  m + 1 \in S
    <2>1. PICK f : f = Body(m, f)
      BY <1>2
    <2> DEFINE g == Body(m + 1, f)
    <2>2. \A i \in 0 .. m : f[i] = Step(f, i)
      <3> HIDE DEF Step
      <3> QED
        BY <2>1
    <2>3. \A i \in 0 .. m : g[i] = f[i]
      <3> HIDE DEF Step
      <3> QED
        BY <2>2
    <2>4. \A i \in 0 .. m + 1 : Step(f, i) = Step(g, i)
      <3> HIDE DEF g
      <3>1. \A i \in 0 .. m + 1 : i = 0 \/ i - 1 \in 0 .. m
        OBVIOUS
      <3> QED
        BY <2>3, <3>1
    <2>5. g = Body(m + 1, g)
      <3> HIDE DEF Step
      <3>1. [i \in 0 .. m + 1 |-> Step(f, i)] = [i \in 0 .. m + 1 |-> Step(g, i)]
        <4> HIDE DEF g
        <4> QED
          BY <2>4
      <3> QED
        BY <3>1
    <2> HIDE DEF Body, g
    <2> QED
      BY <2>5
  <1> HIDE DEF S
  <1>3. Len(logs) \in S
    BY <1>1, <1>2, UpFromZero
  <1>4. \E read : read = Body(Len(logs), read)
    BY <1>3 DEF S
  <1> DEFINE read == CHOOSE read : read = Body(Len(logs), read)
  <1>5. read = Body(Len(logs), read)
    <2> HIDE DEF Body
    <2> QED
      BY <1>4
  <1>6. CommitmentEvents(logs, program) = read[Len(logs)].events
    BY DEF CommitmentEvents, ReadLog
  <1> HIDE DEF read
  <1>7. IsReading(read, logs, n, program)
    <2>1. \A i \in 0 .. Len(logs) : read[i] = Step(read, i)
      <3> HIDE DEF Step
      <3> QED
        BY <1>5
    <2> QED
      BY <2>1 DEF IsReading
  <1> QED
    BY <1>6, <1>7 DEF IsRead, GivesEvents

(* The stack of running programs. *)
LEMMA StackTop ==
  ASSUME NEW S, NEW stack \in Seq(S), NEW program \in S
  PROVE  /\ Append(stack, program) \in Seq(S)
         /\ Append(stack, program) # <<>>
         /\ Last(Append(stack, program)) = program
         /\ Front(Append(stack, program)) = stack
  <1> DEFINE longer == Append(stack, program)
  <1>1. /\ longer \in Seq(S) /\ Len(longer) = Len(stack) + 1 /\ Len(stack) \in Nat
        /\ longer[Len(stack) + 1] = program
        /\ \A i \in 1 .. Len(stack) : longer[i] = stack[i]
    BY AppendProperties
  <1> HIDE DEF longer
  <1>2. Len(longer) - 1 = Len(stack)
    BY <1>1
  <1>3. SubSeq(longer, 1, Len(stack)) = stack
    <2> DEFINE part == SubSeq(longer, 1, Len(stack))
    <2>1. part \in Seq(S) /\ Len(part) = Len(stack)
          /\ \A i \in 1 .. Len(stack) : part[i] = longer[i]
      <3>1. \A i \in 1 .. Len(stack) : 1 + i - 1 = i
        BY <1>1
      <3> QED
        BY <1>1, <3>1
    <2> HIDE DEF part
    <2>2. part = stack
      BY <1>1, <2>1, SeqEqual
    <2> QED
      BY <2>2 DEF part
  <1> QED
    BY <1>1, <1>2, <1>3 DEF longer, Last, Front

Running(stack, events) == [stack |-> stack, events |-> events]

EventOf(name, call, o, first) ==
  [name |-> name, index |-> first + o - 1,
   commitment |-> call.outputs[o].commitment,
   encrypted |-> call.outputs[o].encrypted]

WithEvents(name, call, first, events) ==
  IF name = "CommitmentData"
  THEN Append(Append(events, EventOf(name, call, 1, first)),
              EventOf(name, call, 2, first))
  ELSE events

Stacks == Seq({"pool", "system", "mimic"})

(* The six lines of a call after the k-th one. *)
LogsAt(logs, k, name, call, first) ==
  \A i \in 1 .. 6 : logs[k + i] = LogsOf(name, call, first)[i]

(* Reading the logs of one call of the pool, wherever it is made: its two   *)
(* events when they have the pool's name for them, and the same programs    *)
(* run after as before.                                                     *)
LEMMA ReadingCall ==
  ASSUME NEW logs, NEW read, NEW n \in Nat, IsReading(read, logs, n, "pool"),
         NEW k \in Nat, NEW after, after = k + 6, after <= n,
         NEW name, NEW call, NEW first,
         LogsAt(logs, k, name, call, first),
         NEW stack, stack \in Stacks, NEW events,
         read[k] = Running(stack, events)
  PROVE  read[after] = Running(stack, WithEvents(name, call, first, events))
  <1> DEFINE S == {"pool", "system", "mimic"}
             E(o) == EventOf(name, call, o, first)
             named == name = "CommitmentData"
             one == IF named THEN Append(events, E(1)) ELSE events
             both == IF named THEN Append(one, E(2)) ELSE one
             pool == Append(stack, "pool")
             system == Append(pool, "system")
  <1>1. ASSUME NEW i \in 1 .. 6
        PROVE  read[k + i] = ReadLog(read[k + i - 1], logs[k + i], "pool")
    <2>1. k + i \in 1 .. n
      OBVIOUS
    <2>2. \A j \in 1 .. n : read[j] = ReadLog(read[j - 1], logs[j], "pool")
      BY DEF IsReading
    <2> QED
      BY ONLY <2>1, <2>2
  <1>2. /\ k + 1 - 1 = k /\ k + 2 - 1 = k + 1 /\ k + 3 - 1 = k + 2 /\ k + 4 - 1 = k + 3
        /\ k + 5 - 1 = k + 4 /\ k + 6 - 1 = k + 5
    OBVIOUS
  <1>3. /\ logs[k + 1] = Invoke("pool") /\ logs[k + 2] = Invoke("system")
        /\ logs[k + 3] = Exit("system") /\ logs[k + 4] = Data(E(1))
        /\ logs[k + 5] = Data(E(2)) /\ logs[k + 6] = Exit("pool")
    BY DEF LogsAt, LogsOf, EventOf
  <1>4. /\ pool # <<>> /\ Last(pool) = "pool" /\ Front(pool) = stack
        /\ system # <<>> /\ Front(system) = pool
    <2>1. stack \in Seq(S) /\ "pool" \in S /\ "system" \in S
      BY DEF Stacks
    <2> HIDE DEF S
    <2>2. pool \in Seq(S) /\ pool # <<>> /\ Last(pool) = "pool" /\ Front(pool) = stack
      BY <2>1, StackTop
    <2> HIDE DEF pool
    <2>3. system # <<>> /\ Front(system) = pool
      BY <2>1, <2>2, StackTop
    <2> QED
      BY <2>2, <2>3
  <1>5. /\ IsCommitment(Data(E(1))) = named /\ IsCommitment(Data(E(2))) = named
        /\ Data(E(1)).kind = "data" /\ Data(E(2)).kind = "data"
        /\ Data(E(1)).event = E(1) /\ Data(E(2)).event = E(2)
    BY DEF IsCommitment, Data, EventOf
  <1>6. /\ Invoke("pool").kind = "invoke" /\ Invoke("system").kind = "invoke"
        /\ Invoke("pool").program = "pool" /\ Invoke("system").program = "system"
        /\ Exit("pool").kind = "exit" /\ Exit("system").kind = "exit"
        /\ ~IsCommitment(Exit("pool")) /\ ~IsCommitment(Exit("system"))
        /\ ~IsCommitment(Invoke("pool")) /\ ~IsCommitment(Invoke("system"))
    BY DEF IsCommitment, Invoke, Exit
  <1> HIDE DEF E, named, pool, system
  <1>7. read[k + 1] = [stack |-> pool, events |-> events]
    <2>1. read[k + 1] = ReadLog([stack |-> stack, events |-> events], Invoke("pool"), "pool")
      BY <1>1, <1>2, <1>3 DEF Running
    <2> QED
      BY <1>6, <2>1 DEF ReadLog, pool
  <1>8. read[k + 2] = [stack |-> system, events |-> events]
    <2>1. read[k + 2] = ReadLog([stack |-> pool, events |-> events], Invoke("system"), "pool")
      BY <1>1, <1>2, <1>3, <1>7
    <2> QED
      BY <1>6, <2>1 DEF ReadLog, system
  <1>9. read[k + 3] = [stack |-> pool, events |-> events]
    <2>1. read[k + 3] = ReadLog([stack |-> system, events |-> events], Exit("system"), "pool")
      BY <1>1, <1>2, <1>3, <1>8
    <2> QED
      BY <1>4, <1>6, <2>1 DEF ReadLog
  <1>10. read[k + 4] = [stack |-> pool, events |-> one]
    <2>1. read[k + 4] = ReadLog([stack |-> pool, events |-> events], Data(E(1)), "pool")
      BY <1>1, <1>2, <1>3, <1>9
    <2> QED
      BY <1>4, <1>5, <2>1 DEF ReadLog
  <1> HIDE DEF one
  <1>11. read[k + 5] = [stack |-> pool, events |-> both]
    <2>1. read[k + 5] = ReadLog([stack |-> pool, events |-> one], Data(E(2)), "pool")
      BY <1>1, <1>2, <1>3, <1>10
    <2> QED
      BY <1>4, <1>5, <2>1 DEF ReadLog
  <1> HIDE DEF both
  <1>12. read[k + 6] = [stack |-> stack, events |-> both]
    <2>1. read[k + 6] = ReadLog([stack |-> pool, events |-> both], Exit("pool"), "pool")
      BY <1>1, <1>2, <1>3, <1>11
    <2> QED
      BY <1>4, <1>6, <2>1 DEF ReadLog
  <1>13. both = WithEvents(name, call, first, events)
    BY DEF both, one, named, E, WithEvents
  <1> QED
    BY <1>12, <1>13 DEF Running

(* Two sequences, joined. *)
IsJoined(ab, a, m, b, n) ==
  /\ Len(ab) = m + n
  /\ \A i \in 1 .. m : ab[i] = a[i]
  /\ \A i \in 1 .. n : ab[m + i] = b[i]

LEMMA Joined ==
  ASSUME NEW U, NEW a \in Seq(U), NEW b \in Seq(U)
  PROVE  a \o b \in Seq(U) /\ IsJoined(a \o b, a, Len(a), b, Len(b))
  <1>1. /\ Len(a) \in Nat /\ Len(b) \in Nat
        /\ a \o b \in Seq(U) /\ Len(a \o b) = Len(a) + Len(b)
        /\ \A i \in 1 .. Len(a) + Len(b) :
             (a \o b)[i] = IF i <= Len(a) THEN a[i] ELSE b[i - Len(a)]
    BY ConcatProperties, LenProperties
  <1> DEFINE m == Len(a)
             k == Len(b)
             ab == a \o b
  <1>2. ASSUME NEW i \in 1 .. m
        PROVE  ab[i] = a[i]
    <2>1. i \in 1 .. m + k /\ i <= m
      BY <1>1
    <2> HIDE DEF m, k, ab
    <2>2. ab[i] = IF i <= m THEN a[i] ELSE b[i - m]
      BY <1>1, <2>1 DEF m, k, ab
    <2> QED
      BY <2>1, <2>2
  <1>3. ASSUME NEW i \in 1 .. k
        PROVE  ab[m + i] = b[i]
    <2>1. m + i \in 1 .. m + k /\ ~(m + i <= m) /\ (m + i) - m = i
      BY <1>1
    <2> HIDE DEF m, k, ab
    <2>2. ab[m + i] = IF m + i <= m THEN a[m + i] ELSE b[(m + i) - m]
      BY <1>1, <2>1 DEF m, k, ab
    <2> QED
      BY <2>1, <2>2
  <1> QED
    BY <1>1, <1>2, <1>3 DEF IsJoined

(* Two elements after a sequence. *)
LEMMA AppendTwo ==
  ASSUME NEW S, NEW s \in Seq(S), NEW a \in S, NEW b \in S, NEW n \in Nat, Len(s) = n
  PROVE  /\ Append(Append(s, a), b) \in Seq(S)
         /\ Len(Append(Append(s, a), b)) = n + 2
         /\ \A i \in 1 .. n : Append(Append(s, a), b)[i] = s[i]
         /\ Append(Append(s, a), b)[n + 1] = a
         /\ Append(Append(s, a), b)[n + 2] = b
  <1> DEFINE one == Append(s, a)
  <1>1. /\ one \in Seq(S) /\ Len(one) = n + 1
        /\ \A i \in 1 .. n : one[i] = s[i]
        /\ one[n + 1] = a
    BY AppendProperties
  <1> HIDE DEF one
  <1> DEFINE two == Append(one, b)
  <1>2. /\ two \in Seq(S) /\ Len(two) = Len(one) + 1
        /\ \A i \in 1 .. Len(one) : two[i] = one[i]
        /\ two[Len(one) + 1] = b
    BY <1>1, AppendProperties
  <1> HIDE DEF two
  <1>3. n + 1 + 1 = n + 2 /\ (\A i \in 1 .. n : i \in 1 .. n + 1) /\ n + 1 \in 1 .. n + 1
    OBVIOUS
  <1>4. two \in Seq(S) /\ Len(two) = n + 2 /\ two[n + 2] = b /\ two[n + 1] = a
        /\ \A i \in 1 .. n : two[i] = s[i]
    BY <1>1, <1>2, <1>3
  <1> QED
    BY <1>4 DEF two, one

(* The logs of a call are six lines. *)
LEMMA LogsOfAre ==
  ASSUME NEW U, NEW name, NEW call, NEW first,
         \A i \in 1 .. 6 : LogsOf(name, call, first)[i] \in U
  PROVE  LogsOf(name, call, first) \in Seq(U) /\ Len(LogsOf(name, call, first)) = 6
  <1>1. /\ DOMAIN LogsOf(name, call, first) = 1 .. 6 /\ Len(LogsOf(name, call, first)) = 6
        /\ LogsOf(name, call, first) = [i \in 1 .. 6 |-> LogsOf(name, call, first)[i]]
    BY DEF LogsOf
  <1> DEFINE logs == LogsOf(name, call, first)
  <1> HIDE DEF logs
  <1> QED
    BY <1>1 DEF logs

Extends(more, events, n, call, first) ==
  /\ Len(more) = n + 2
  /\ \A i \in 1 .. n : more[i] = events[i]
  /\ more[n + 1] = EventOf("CommitmentData", call, 1, first)
  /\ more[n + 2] = EventOf("CommitmentData", call, 2, first)

(* The events of one call: those of its two outputs. *)
LEMMA EventsOfCall ==
  ASSUME NEW call, NEW first, NEW S, NEW events \in Seq(S), NEW n \in Nat, Len(events) = n,
         \A o \in 1 .. 2 : EventOf("CommitmentData", call, o, first) \in S
  PROVE  LET more == WithEvents("CommitmentData", call, first, events)
         IN  more \in Seq(S) /\ Extends(more, events, n, call, first)
  <1> DEFINE a == EventOf("CommitmentData", call, 1, first)
             b == EventOf("CommitmentData", call, 2, first)
  <1>1. a \in S /\ b \in S
    OBVIOUS
  <1>2. WithEvents("CommitmentData", call, first, events) = Append(Append(events, a), b)
    BY DEF WithEvents
  <1> HIDE DEF a, b
  <1>3. /\ Append(Append(events, a), b) \in Seq(S)
        /\ Len(Append(Append(events, a), b)) = n + 2
        /\ \A i \in 1 .. n : Append(Append(events, a), b)[i] = events[i]
        /\ Append(Append(events, a), b)[n + 1] = a
        /\ Append(Append(events, a), b)[n + 2] = b
    BY <1>1, AppendTwo
  <1> QED
    BY <1>2, <1>3 DEF a, b, Extends

AreEventsOf(events, call, first) ==
  /\ Len(events) = 2
  /\ events[1] = EventOf("CommitmentData", call, 1, first)
  /\ events[2] = EventOf("CommitmentData", call, 2, first)

LEMMA EventsDirect ==
  ASSUME NEW call, NEW first
  PROVE  AreEventsOf(CommitmentEvents(LogsOf("CommitmentData", call, first), "pool"),
                     call, first)
  <1> DEFINE logs == LogsOf("CommitmentData", call, first)
             events == WithEvents("CommitmentData", call, first, <<>>)
  <1>1. Len(logs) = 6
    BY DEF LogsOf
  <1>2. LogsAt(logs, 0, "CommitmentData", call, first)
    BY DEF LogsAt
  <1> HIDE DEF logs
  <1>3. PICK read : GivesEvents(read, logs, 6, "pool")
    <2>1. IsRead(logs, 6, "pool")
      BY <1>1, ReadingExists
    <2> QED
      BY <2>1 DEF IsRead
  <1>4. read[0] = Running(<<>>, <<>>)
    BY <1>3 DEF IsReading, GivesEvents, Running
  <1>5. <<>> \in Stacks /\ 0 \in Nat /\ 6 \in Nat /\ 6 = 0 + 6 /\ 6 <= 6
    BY DEF Stacks
  <1>6. read[6] = Running(<<>>, events)
    <2>1. IsReading(read, logs, 6, "pool")
      BY <1>3 DEF GivesEvents
    <2> QED
      BY <1>2, <1>4, <1>5, <2>1, ReadingCall
  <1>7. CommitmentEvents(logs, "pool") = events
    BY <1>3, <1>6 DEF Running, GivesEvents
  <1> DEFINE S == {EventOf("CommitmentData", call, o, first) : o \in 1 .. 2}
  <1>8. /\ \A o \in 1 .. 2 : EventOf("CommitmentData", call, o, first) \in S
        /\ <<>> \in Seq(S) /\ Len(<<>>) = 0 /\ 0 \in Nat
    OBVIOUS
  <1> HIDE DEF S, events
  <1>9. AreEventsOf(events, call, first)
    <2>1. Extends(events, <<>>, 0, call, first)
      BY <1>8, EventsOfCall DEF events
    <2> QED
      BY <2>1 DEF AreEventsOf, Extends
  <1> QED
    BY <1>7, <1>9 DEF logs

(* Lines of a program that is not the pool leave the events as they are. *)
PassesOver(stack, inner, events, event) ==
  /\ inner \in Stacks
  /\ ReadLog(Running(stack, events), Invoke("mimic"), "pool") = Running(inner, events)
  /\ ReadLog(Running(inner, events), Data(event), "pool") = Running(inner, events)
  /\ ReadLog(Running(inner, events), Exit("mimic"), "pool") = Running(stack, events)

LEMMA ReadsOther ==
  ASSUME NEW stack \in Stacks, NEW events, NEW event
  PROVE  PassesOver(stack, Append(stack, "mimic"), events, event)
  <1> DEFINE S == {"pool", "system", "mimic"}
             inner == Append(stack, "mimic")
  <1>1. inner \in Stacks /\ inner # <<>> /\ Last(inner) = "mimic" /\ Front(inner) = stack
    <2>1. stack \in Seq(S) /\ "mimic" \in S
      BY DEF Stacks
    <2>2. Seq(S) = Stacks
      BY DEF Stacks
    <2> HIDE DEF S
    <2> QED
      BY <2>1, <2>2, StackTop
  <1>2. ReadLog(Running(stack, events), Invoke("mimic"), "pool") = Running(inner, events)
    <2>1. /\ Invoke("mimic").kind = "invoke" /\ ~IsCommitment(Invoke("mimic"))
          /\ Invoke("mimic").program = "mimic"
      BY DEF Invoke, IsCommitment
    <2> QED
      BY <2>1 DEF ReadLog, Running
  <1> HIDE DEF inner
  <1>3. ReadLog(Running(inner, events), Data(event), "pool") = Running(inner, events)
    <2>1. Data(event).kind = "data" /\ IsCommitment(Data(event)) \in BOOLEAN
      BY DEF Data, IsCommitment
    <2>2. Last(inner) # "pool"
      BY <1>1
    <2>3. CASE IsCommitment(Data(event))
      BY <1>1, <2>1, <2>2, <2>3 DEF ReadLog, Running
    <2>4. CASE ~IsCommitment(Data(event))
      BY <1>1, <2>1, <2>2, <2>4 DEF ReadLog, Running
    <2> QED
      BY <2>1, <2>3, <2>4
  <1>4. ReadLog(Running(inner, events), Exit("mimic"), "pool") = Running(stack, events)
    <2>1. /\ Exit("mimic").kind = "exit" /\ ~IsCommitment(Exit("mimic"))
      BY DEF Exit, IsCommitment
    <2> QED
      BY <1>1, <2>1 DEF ReadLog, Running
  <1>5. PassesOver(stack, inner, events, event)
    BY <1>1, <1>2, <1>3, <1>4 DEF PassesOver
  <1> QED
    BY <1>5 DEF inner

LEMMA JoinedAt ==
  ASSUME NEW U, NEW a \in Seq(U), NEW b \in Seq(U), NEW m, Len(a) = m, NEW n, Len(b) = n
  PROVE  a \o b \in Seq(U) /\ IsJoined(a \o b, a, m, b, n)
  BY Joined

LEMMA EventsWrapped ==
  ASSUME NEW call, NEW first
  PROVE  AreEventsOf(CommitmentEvents(
                       <<Invoke("mimic")>> \o LogsOf("CommitmentData", call, first)
                         \o <<Exit("mimic")>>, "pool"),
                     call, first)
  <1> DEFINE six == LogsOf("CommitmentData", call, first)
             seven == <<Invoke("mimic")>> \o six
             logs == seven \o <<Exit("mimic")>>
             events == WithEvents("CommitmentData", call, first, <<>>)
             U == {Invoke("mimic"), Exit("mimic")} \union {six[i] : i \in 1 .. 6}
  <1>1. /\ six \in Seq(U) /\ Len(six) = 6
        /\ <<Invoke("mimic")>> \in Seq(U) /\ Len(<<Invoke("mimic")>>) = 1
        /\ <<Exit("mimic")>> \in Seq(U) /\ Len(<<Exit("mimic")>>) = 1
    <2>1. (\A i \in 1 .. 6 : six[i] \in U) /\ Invoke("mimic") \in U /\ Exit("mimic") \in U
      OBVIOUS
    <2> HIDE DEF U
    <2> QED
      BY <2>1, LogsOfAre
  <1> HIDE DEF U, six
  <1>2. seven \in Seq(U) /\ IsJoined(seven, <<Invoke("mimic")>>, 1, six, 6)
    BY <1>1, JoinedAt
  <1>3. Len(seven) = 7 /\ seven[1] = Invoke("mimic") /\ \A i \in 1 .. 6 : seven[1 + i] = six[i]
    BY <1>2 DEF IsJoined
  <1> HIDE DEF seven
  <1>4. IsJoined(logs, seven, 7, <<Exit("mimic")>>, 1)
    BY <1>1, <1>2, <1>3, JoinedAt
  <1>5. /\ Len(logs) = 8 /\ logs[1] = Invoke("mimic") /\ logs[8] = Exit("mimic")
        /\ \A i \in 1 .. 6 : logs[1 + i] = six[i]
    BY <1>3, <1>4 DEF IsJoined
  <1> HIDE DEF logs
  <1>6. LogsAt(logs, 1, "CommitmentData", call, first)
    BY <1>5 DEF LogsAt, six
  <1>7. PICK read : GivesEvents(read, logs, 8, "pool")
    <2>1. IsRead(logs, 8, "pool")
      BY <1>5, ReadingExists
    <2> QED
      BY <2>1 DEF IsRead
  <1>8. IsReading(read, logs, 8, "pool")
    BY <1>7 DEF GivesEvents
  <1>9. /\ read[0] = Running(<<>>, <<>>)
        /\ read[1] = ReadLog(read[0], Invoke("mimic"), "pool")
        /\ read[8] = ReadLog(read[7], Exit("mimic"), "pool")
    BY <1>5, <1>8 DEF IsReading, Running
  <1> DEFINE inner == Append(<<>>, "mimic")
  <1>10. <<>> \in Stacks
    BY DEF Stacks
  <1>11. /\ inner \in Stacks
         /\ ReadLog(Running(<<>>, <<>>), Invoke("mimic"), "pool") = Running(inner, <<>>)
         /\ ReadLog(Running(inner, events), Exit("mimic"), "pool") = Running(<<>>, events)
    <2> HIDE DEF events
    <2>1. PassesOver(<<>>, Append(<<>>, "mimic"), <<>>, 0)
      BY <1>10, ReadsOther
    <2>2. PassesOver(<<>>, Append(<<>>, "mimic"), events, 0)
      BY <1>10, ReadsOther
    <2> QED
      BY <2>1, <2>2 DEF PassesOver
  <1> HIDE DEF inner
  <1>12. read[1] = Running(inner, <<>>)
    BY <1>9, <1>11
  <1>13. read[7] = Running(inner, events)
    <2>1. 8 \in Nat /\ 1 \in Nat /\ 7 = 1 + 6 /\ 7 <= 8
      OBVIOUS
    <2> QED
      BY <1>6, <1>8, <1>11, <1>12, <2>1, ReadingCall
  <1>14. CommitmentEvents(logs, "pool") = events
    BY <1>7, <1>9, <1>11, <1>13 DEF GivesEvents, Running
  <1> DEFINE S == {EventOf("CommitmentData", call, o, first) : o \in 1 .. 2}
  <1>15. /\ \A o \in 1 .. 2 : EventOf("CommitmentData", call, o, first) \in S
         /\ <<>> \in Seq(S) /\ Len(<<>>) = 0 /\ 0 \in Nat
    OBVIOUS
  <1> HIDE DEF S, events
  <1>16. Extends(events, <<>>, 0, call, first)
    BY <1>15, EventsOfCall DEF events
  <1> QED
    BY <1>14, <1>16 DEF AreEventsOf, Extends, logs, seven, six

LEMMA EventsInitialize ==
  Len(CommitmentEvents(<<Invoke("pool"), Exit("pool")>>, "pool")) = 0
  <1> DEFINE logs == <<Invoke("pool"), Exit("pool")>>
  <1>1. Len(logs) = 2 /\ logs[1] = Invoke("pool") /\ logs[2] = Exit("pool")
    OBVIOUS
  <1> HIDE DEF logs
  <1>2. PICK read : GivesEvents(read, logs, 2, "pool")
    <2>1. IsRead(logs, 2, "pool")
      BY <1>1, ReadingExists
    <2> QED
      BY <2>1 DEF IsRead
  <1>3. /\ read[0] = Running(<<>>, <<>>)
        /\ read[1] = ReadLog(read[0], Invoke("pool"), "pool")
        /\ read[2] = ReadLog(read[1], Exit("pool"), "pool")
    BY <1>1, <1>2 DEF IsReading, GivesEvents, Running
  <1> DEFINE inner == Append(<<>>, "pool")
  <1>4. /\ inner # <<>> /\ Front(inner) = <<>>
    <2>1. <<>> \in Seq({"pool"}) /\ "pool" \in {"pool"}
      OBVIOUS
    <2> QED
      BY <2>1, StackTop
  <1>5. read[1] = Running(inner, <<>>)
    <2>1. /\ Invoke("pool").kind = "invoke" /\ ~IsCommitment(Invoke("pool"))
          /\ Invoke("pool").program = "pool"
      BY DEF Invoke, IsCommitment
    <2> QED
      BY <1>3, <2>1 DEF ReadLog, Running
  <1> HIDE DEF inner
  <1>6. read[2] = Running(<<>>, <<>>)
    <2>1. /\ Exit("pool").kind = "exit" /\ ~IsCommitment(Exit("pool"))
      BY DEF Exit, IsCommitment
    <2> QED
      BY <1>3, <1>4, <1>5, <2>1 DEF ReadLog, Running
  <1>7. CommitmentEvents(logs, "pool") = <<>>
    BY <1>2, <1>6 DEF GivesEvents, Running
  <1> QED
    BY <1>7 DEF logs

AreEventsOfBoth(events, one, two, first, second) ==
  /\ Len(events) = 4
  /\ events[1] = EventOf("CommitmentData", one, 1, first)
  /\ events[2] = EventOf("CommitmentData", one, 2, first)
  /\ events[3] = EventOf("CommitmentData", two, 1, second)
  /\ events[4] = EventOf("CommitmentData", two, 2, second)

(* Between two calls of the pool another program logs an event of the same  *)
(* form, and the pool is called for another token.                          *)
LEMMA EventsBatched ==
  ASSUME NEW one, NEW two, NEW first, NEW second, NEW event
  PROVE  AreEventsOfBoth(
           CommitmentEvents(
             LogsOf("CommitmentData", one, first)
               \o <<Invoke("mimic"), Data(event), Exit("mimic")>>
               \o LogsOf("SplCommitmentData", one, 0)
               \o LogsOf("CommitmentData", two, second), "pool"),
           one, two, first, second)
  <1> DEFINE a == LogsOf("CommitmentData", one, first)
             m == <<Invoke("mimic"), Data(event), Exit("mimic")>>
             b == LogsOf("SplCommitmentData", one, 0)
             c == LogsOf("CommitmentData", two, second)
             am == a \o m
             amb == am \o b
             logs == amb \o c
             U == {a[i] : i \in 1 .. 6} \union {m[i] : i \in 1 .. 3}
                  \union {b[i] : i \in 1 .. 6} \union {c[i] : i \in 1 .. 6}
  <1>1. m[1] = Invoke("mimic") /\ m[2] = Data(event) /\ m[3] = Exit("mimic")
        /\ Len(m) = 3 /\ m = [i \in 1 .. 3 |-> m[i]]
    OBVIOUS
  <1>2. /\ a \in Seq(U) /\ Len(a) = 6 /\ m \in Seq(U) /\ Len(m) = 3
        /\ b \in Seq(U) /\ Len(b) = 6 /\ c \in Seq(U) /\ Len(c) = 6
    <2>1. /\ \A i \in 1 .. 6 : a[i] \in U /\ b[i] \in U /\ c[i] \in U
          /\ \A i \in 1 .. 3 : m[i] \in U
      <3> HIDE DEF a, b, c, m
      <3> QED
        OBVIOUS
    <2> HIDE DEF U
    <2>2. m \in Seq(U) /\ Len(m) = 3
      <3> HIDE DEF m
      <3> QED
        BY <1>1, <2>1
    <2>3. a \in Seq(U) /\ Len(a) = 6 /\ b \in Seq(U) /\ Len(b) = 6
          /\ c \in Seq(U) /\ Len(c) = 6
      BY <2>1, LogsOfAre
    <2> QED
      BY <2>2, <2>3
  <1> HIDE DEF a, b, c, m, U
  <1>3. am \in Seq(U) /\ IsJoined(am, a, 6, m, 3)
    BY <1>2, JoinedAt
  <1> HIDE DEF am
  <1>4. /\ Len(am) = 9 /\ (\A i \in 1 .. 6 : am[i] = a[i])
        /\ am[7] = m[1] /\ am[8] = m[2] /\ am[9] = m[3]
    BY <1>3 DEF IsJoined
  <1>5. amb \in Seq(U) /\ IsJoined(amb, am, 9, b, 6)
    BY <1>2, <1>3, <1>4, JoinedAt
  <1> HIDE DEF amb
  <1>6. /\ Len(amb) = 15 /\ (\A i \in 1 .. 6 : amb[i] = a[i])
        /\ amb[7] = m[1] /\ amb[8] = m[2] /\ amb[9] = m[3]
        /\ \A i \in 1 .. 6 : amb[9 + i] = b[i]
    BY <1>4, <1>5 DEF IsJoined
  <1>7. IsJoined(logs, amb, 15, c, 6)
    BY <1>2, <1>5, <1>6, JoinedAt
  <1> HIDE DEF logs
  <1>8. /\ Len(logs) = 21 /\ (\A i \in 1 .. 15 : logs[i] = amb[i])
        /\ \A i \in 1 .. 6 : logs[15 + i] = c[i]
    BY <1>7 DEF IsJoined
  <1>9. \A i \in 1 .. 6 : logs[0 + i] = a[i] /\ logs[9 + i] = b[i] /\ logs[15 + i] = c[i]
    <2>1. \A i \in 1 .. 6 : 0 + i \in 1 .. 15 /\ 0 + i = i /\ 9 + i \in 1 .. 15
      OBVIOUS
    <2> QED
      BY <1>6, <1>8, <2>1
  <1>10. logs[7] = Invoke("mimic") /\ logs[8] = Data(event) /\ logs[9] = Exit("mimic")
    BY <1>1, <1>6, <1>8
  <1>11. /\ LogsAt(logs, 0, "CommitmentData", one, first)
         /\ LogsAt(logs, 9, "SplCommitmentData", one, 0)
         /\ LogsAt(logs, 15, "CommitmentData", two, second)
    BY <1>9 DEF LogsAt, a, b, c
  <1>12. PICK read : GivesEvents(read, logs, 21, "pool")
    <2>1. IsRead(logs, 21, "pool")
      BY <1>8, ReadingExists
    <2> QED
      BY <2>1 DEF IsRead
  <1>13. IsReading(read, logs, 21, "pool")
    BY <1>12 DEF GivesEvents
  <1>14. /\ read[0] = Running(<<>>, <<>>)
         /\ read[7] = ReadLog(read[6], Invoke("mimic"), "pool")
         /\ read[8] = ReadLog(read[7], Data(event), "pool")
         /\ read[9] = ReadLog(read[8], Exit("mimic"), "pool")
    BY <1>10, <1>13 DEF IsReading, Running
  <1> DEFINE early == WithEvents("CommitmentData", one, first, <<>>)
             events == WithEvents("CommitmentData", two, second, early)
             inner == Append(<<>>, "mimic")
  <1>15. <<>> \in Stacks
    BY DEF Stacks
  <1>16. WithEvents("SplCommitmentData", one, 0, early) = early
    BY DEF WithEvents
  <1> HIDE DEF early, events, inner
  <1>17. read[6] = Running(<<>>, early)
    <2>1. 21 \in Nat /\ 0 \in Nat /\ 6 = 0 + 6 /\ 6 <= 21
      OBVIOUS
    <2> QED
      BY <1>11, <1>13, <1>14, <1>15, <2>1, ReadingCall DEF early
  <1>18. read[9] = Running(<<>>, early)
    <2>1. PassesOver(<<>>, Append(<<>>, "mimic"), early, event)
      BY <1>15, ReadsOther
    <2>2. PassesOver(<<>>, inner, early, event)
      BY <2>1 DEF inner
    <2> QED
      BY <1>14, <1>17, <2>2 DEF PassesOver
  <1>19. read[15] = Running(<<>>, early)
    <2>1. 21 \in Nat /\ 9 \in Nat /\ 15 = 9 + 6 /\ 15 <= 21
      OBVIOUS
    <2>2. read[15] = Running(<<>>, WithEvents("SplCommitmentData", one, 0, early))
      BY <1>11, <1>13, <1>15, <1>18, <2>1, ReadingCall
    <2> QED
      BY <1>16, <2>2
  <1>20. read[21] = Running(<<>>, events)
    <2>1. 21 \in Nat /\ 15 \in Nat /\ 21 = 15 + 6 /\ 21 <= 21
      OBVIOUS
    <2> QED
      BY <1>11, <1>13, <1>15, <1>19, <2>1, ReadingCall DEF events
  <1>21. CommitmentEvents(logs, "pool") = events
    BY <1>12, <1>20 DEF GivesEvents, Running
  <1> DEFINE S == {EventOf("CommitmentData", one, o, first) : o \in 1 .. 2}
                  \union {EventOf("CommitmentData", two, o, second) : o \in 1 .. 2}
  <1>22. /\ \A o \in 1 .. 2 : EventOf("CommitmentData", one, o, first) \in S
         /\ \A o \in 1 .. 2 : EventOf("CommitmentData", two, o, second) \in S
         /\ <<>> \in Seq(S) /\ Len(<<>>) = 0 /\ 0 \in Nat
    OBVIOUS
  <1> HIDE DEF S
  <1>23. early \in Seq(S) /\ Extends(early, <<>>, 0, one, first)
    BY <1>22, EventsOfCall DEF early
  <1>24. Len(early) = 2 /\ 2 \in Nat
    BY <1>23 DEF Extends
  <1>25. Extends(events, early, 2, two, second)
    BY <1>22, <1>23, <1>24, EventsOfCall DEF events
  <1>26. AreEventsOfBoth(events, one, two, first, second)
    BY <1>23, <1>25 DEF AreEventsOfBoth, Extends
  <1> QED
    BY <1>21, <1>26 DEF logs, amb, am, a, b, c, m

-------------------------------------------------------------------------------
(* The calls before a transaction.                                          *)

Before(ts, t) ==
  LET upTo[u \in 1 .. t] == IF u = 1 THEN 0 ELSE upTo[u - 1] + CallsIn(ts[u - 1])
  IN  upTo[t]

CountsUp(upTo, ts, n) ==
  /\ n # 0 => upTo[1] = 0
  /\ \A u \in 1 .. n : u # 1 => upTo[u] = upTo[u - 1] + CallsIn(ts[u - 1])

LEMMA CountingExists ==
  ASSUME NEW ts, NEW n \in Nat \ {0}
  PROVE  \E upTo : CountsUp(upTo, ts, n) /\ Before(ts, n) = upTo[n]
  <1> DEFINE Step(upTo, u) == IF u = 1 THEN 0 ELSE upTo[u - 1] + CallsIn(ts[u - 1])
             Body(m, upTo) == [u \in 1 .. m |-> Step(upTo, u)]
             S == {m \in Nat : \E upTo : upTo = Body(m, upTo)}
  <1>1. 0 \in S
    <2> DEFINE zero == Body(0, <<>>)
    <2>1. zero = Body(0, zero)
      <3>1. 1 .. 0 = {}
        OBVIOUS
      <3> HIDE DEF Step
      <3> QED
        BY <3>1
    <2> HIDE DEF Body, zero
    <2> QED
      BY <2>1
  <1>2. ASSUME NEW m \in Nat, m \in S
        PROVE  m + 1 \in S
    <2>1. PICK f : f = Body(m, f)
      BY <1>2
    <2> DEFINE g == Body(m + 1, f)
    <2>2. \A u \in 1 .. m : f[u] = Step(f, u)
      <3> HIDE DEF Step
      <3> QED
        BY <2>1
    <2>3. \A u \in 1 .. m : g[u] = f[u]
      <3> HIDE DEF Step
      <3> QED
        BY <2>2
    <2>4. \A u \in 1 .. m + 1 : Step(f, u) = Step(g, u)
      <3> HIDE DEF g
      <3>1. \A u \in 1 .. m + 1 : u = 1 \/ u - 1 \in 1 .. m
        OBVIOUS
      <3> QED
        BY <2>3, <3>1
    <2>5. g = Body(m + 1, g)
      <3> HIDE DEF Step
      <3>1. [u \in 1 .. m + 1 |-> Step(f, u)] = [u \in 1 .. m + 1 |-> Step(g, u)]
        <4> HIDE DEF g
        <4> QED
          BY <2>4
      <3> QED
        BY <3>1
    <2> HIDE DEF Body, g
    <2> QED
      BY <2>5
  <1> HIDE DEF S
  <1>3. n \in S
    BY <1>1, <1>2, UpFromZero
  <1>4. \E upTo : upTo = Body(n, upTo)
    BY <1>3 DEF S
  <1> DEFINE upTo == CHOOSE upTo : upTo = Body(n, upTo)
  <1>5. upTo = Body(n, upTo)
    <2> HIDE DEF Body
    <2> QED
      BY <1>4
  <1>6. Before(ts, n) = upTo[n]
    BY DEF Before
  <1> HIDE DEF upTo
  <1>7. \A u \in 1 .. n : upTo[u] = Step(upTo, u)
    <2> HIDE DEF Step
    <2> QED
      BY <1>5
  <1>8. CountsUp(upTo, ts, n)
    BY <1>7 DEF CountsUp
  <1> QED
    BY <1>6, <1>8

SameBefore(ts, us, n) == \A u \in 1 .. n : u # n => ts[u] = us[u]

(* Two counts over the same transactions agree. *)
LEMMA CountsAgree ==
  ASSUME NEW ts, NEW us, NEW n \in Nat, NEW m \in Nat, NEW f, NEW g,
         CountsUp(f, ts, n), CountsUp(g, us, m), n <= m,
         SameBefore(ts, us, n), NEW u \in 1 .. n
  PROVE  f[u] = g[u]
  <1> DEFINE S == {v \in Nat : v + 1 <= n => f[v + 1] = g[v + 1]}
  <1>1. 0 \in S
    BY DEF CountsUp
  <1>2. ASSUME NEW v \in Nat, v \in S
        PROVE  v + 1 \in S
    <2> SUFFICES ASSUME v + 1 + 1 <= n
                 PROVE  f[v + 1 + 1] = g[v + 1 + 1]
      OBVIOUS
    <2>1. v + 1 + 1 \in 1 .. n /\ v + 1 + 1 \in 1 .. m /\ v + 1 + 1 # 1
          /\ v + 1 + 1 - 1 = v + 1 /\ v + 1 <= n /\ v + 1 \in 1 .. n /\ v + 1 # n
      OBVIOUS
    <2>2. f[v + 1] = g[v + 1] /\ ts[v + 1] = us[v + 1]
      BY <1>2, <2>1 DEF SameBefore
    <2>3. f[v + 1 + 1] = f[v + 1] + CallsIn(ts[v + 1])
      BY <2>1 DEF CountsUp
    <2>4. g[v + 1 + 1] = g[v + 1] + CallsIn(us[v + 1])
      BY <2>1 DEF CountsUp
    <2> QED
      BY <2>2, <2>3, <2>4
  <1> HIDE DEF S
  <1>3. u - 1 \in Nat
    OBVIOUS
  <1>4. u - 1 \in S
    BY <1>1, <1>2, <1>3, UpFromZero
  <1>5. u - 1 + 1 = u /\ u <= n
    OBVIOUS
  <1> QED
    BY <1>4, <1>5 DEF S

(* The calls before the first transaction, and before the next one. *)
LEMMA BeforeIs ==
  ASSUME NEW ts
  PROVE  /\ Before(ts, 1) = 0
         /\ \A t \in Nat \ {0} : Before(ts, t + 1) = Before(ts, t) + CallsIn(ts[t])
  <1>1. Before(ts, 1) = 0
    <2>1. PICK f : CountsUp(f, ts, 1) /\ Before(ts, 1) = f[1]
      BY CountingExists
    <2> QED
      BY <2>1 DEF CountsUp
  <1>2. ASSUME NEW t \in Nat \ {0}
        PROVE  Before(ts, t + 1) = Before(ts, t) + CallsIn(ts[t])
    <2>1. PICK f : CountsUp(f, ts, t) /\ Before(ts, t) = f[t]
      BY CountingExists
    <2>2. PICK g : CountsUp(g, ts, t + 1) /\ Before(ts, t + 1) = g[t + 1]
      BY CountingExists
    <2>3. f[t] = g[t]
      <3>1. /\ t \in Nat /\ t + 1 \in Nat /\ t <= t + 1 /\ t \in 1 .. t
            /\ SameBefore(ts, ts, t)
        BY DEF SameBefore
      <3> QED
        BY <2>1, <2>2, <3>1, CountsAgree
    <2>4. g[t + 1] = g[t] + CallsIn(ts[t])
      <3>1. t + 1 \in 1 .. t + 1 /\ t + 1 # 1 /\ t + 1 - 1 = t
        OBVIOUS
      <3> QED
        BY <2>2, <3>1 DEF CountsUp
    <2> QED
      BY <2>1, <2>2, <2>3, <2>4
  <1> QED
    BY <1>1, <1>2

LEMMA BeforeAgrees ==
  ASSUME NEW ts, NEW us, NEW t \in Nat \ {0},
         SameBefore(ts, us, t)
  PROVE  Before(ts, t) = Before(us, t)
  <1>1. PICK f : CountsUp(f, ts, t) /\ Before(ts, t) = f[t]
    BY CountingExists
  <1>2. PICK g : CountsUp(g, us, t) /\ Before(us, t) = g[t]
    BY CountingExists
  <1>3. t \in 1 .. t /\ t <= t /\ t \in Nat
    OBVIOUS
  <1>4. f[t] = g[t]
    BY <1>1, <1>2, <1>3, CountsAgree
  <1> QED
    BY <1>1, <1>2, <1>4

(* Every transaction's calls come before those of later ones. *)
LEMMA BeforeAscends ==
  ASSUME NEW ts, NEW n \in Nat \ {0}, NEW t \in 1 .. n
  PROVE  /\ Before(ts, t) \in Nat /\ CallsIn(ts[t]) \in 0 .. 2
         /\ Before(ts, t + 1) = Before(ts, t) + CallsIn(ts[t])
         /\ Before(ts, t + 1) <= Before(ts, n + 1)
         /\ Before(ts, n + 1) \in Nat
  <1>1. \A u : CallsIn(ts[u]) \in 0 .. 2
    BY DEF CallsIn
  <1> DEFINE S == {k \in Nat : Before(ts, t + 1 + k) \in Nat
                               /\ Before(ts, t + 1) <= Before(ts, t + 1 + k)}
             N == {k \in Nat : Before(ts, k + 1) \in Nat}
  <1>2. \A v \in Nat : v \in N
    <2>1. 0 \in N
      BY BeforeIs
    <2>2. ASSUME NEW v \in Nat, v \in N
          PROVE  v + 1 \in N
      <3>1. Before(ts, v + 1 + 1) = Before(ts, v + 1) + CallsIn(ts[v + 1])
        BY BeforeIs
      <3> QED
        BY <1>1, <2>2, <3>1
    <2> HIDE DEF N
    <2> QED
      BY <2>1, <2>2, UpFromZero
  <1>3. \A v \in Nat \ {0} : Before(ts, v) \in Nat
    <2> SUFFICES ASSUME NEW v \in Nat \ {0}
                 PROVE  Before(ts, v) \in Nat
      OBVIOUS
    <2>1. v - 1 \in N /\ v - 1 + 1 = v
      BY <1>2
    <2> QED
      BY <2>1
  <1>4. \A k \in Nat : k \in S
    <2>1. 0 \in S
      BY <1>3
    <2>2. ASSUME NEW k \in Nat, k \in S
          PROVE  k + 1 \in S
      <3>1. Before(ts, t + 1 + k + 1) = Before(ts, t + 1 + k) + CallsIn(ts[t + 1 + k])
        BY BeforeIs
      <3>2. t + 1 + (k + 1) = t + 1 + k + 1
        OBVIOUS
      <3>3. CallsIn(ts[t + 1 + k]) \in 0 .. 2
        BY <1>1
      <3>4. Before(ts, t + 1) \in Nat
        BY <1>3
      <3> QED
        BY <2>2, <3>1, <3>2, <3>3, <3>4
    <2> HIDE DEF S
    <2> QED
      BY <2>1, <2>2, UpFromZero
  <1>5. n - t \in Nat /\ t + 1 + (n - t) = n + 1
    OBVIOUS
  <1>6. n - t \in S
    BY <1>4, <1>5
  <1>7. Before(ts, t + 1) = Before(ts, t) + CallsIn(ts[t])
    BY BeforeIs
  <1> QED
    BY <1>1, <1>3, <1>5, <1>6, <1>7

Kinds == {"initialize", "direct", "batched", "wrapped"}

(* The chain: the calls are those of its transactions. *)
ChainInv ==
  /\ txs \in Seq(Kinds)
  /\ \E S : calls \in Seq(S)
  /\ Before(txs, Len(txs) + 1) = Len(calls)

(* The chain grows, and what was on it stays. *)
Grows ==
  /\ txs' \in Seq(Kinds) /\ Len(txs) <= Len(txs')
  /\ \A t \in 1 .. Len(txs) : txs'[t] = txs[t]
  /\ \E S : calls \in Seq(S) /\ calls' \in Seq(S)
  /\ Len(calls) <= Len(calls')
  /\ \A c \in 1 .. Len(calls) : calls'[c] = calls[c]

LEMMA CallsBeforeIs == \A t : CallsBefore(t) = Before(txs, t)
  BY DEF CallsBefore, Before

LEMMA SamePart ==
  ASSUME NEW S, NEW s \in Seq(S), NEW longer \in Seq(S),
         Len(s) <= Len(longer), \A i \in 1 .. Len(s) : longer[i] = s[i],
         NEW m \in Nat, NEW k \in Nat, m + k <= Len(s)
  PROVE  SubSeq(longer, m + 1, m + k) = SubSeq(s, m + 1, m + k)
  <1> DEFINE a == SubSeq(s, m + 1, m + k)
             b == SubSeq(longer, m + 1, m + k)
  <1>1. /\ Len(s) \in Nat /\ Len(longer) \in Nat /\ m + k <= Len(longer)
    BY LenProperties
  <1>2. a \in Seq(S) /\ Len(a) = k /\ \A i \in 1 .. k : a[i] = s[m + i]
    <2>1. \A i \in 1 .. k : m + 1 + i - 1 = m + i
      OBVIOUS
    <2>2. \A i \in m + 1 .. m + k : i \in 1 .. Len(s)
      BY <1>1
    <2> QED
      BY <1>1, <2>1, <2>2
  <1>3. b \in Seq(S) /\ Len(b) = k /\ \A i \in 1 .. k : b[i] = longer[m + i]
    <2>1. \A i \in 1 .. k : m + 1 + i - 1 = m + i
      OBVIOUS
    <2>2. \A i \in m + 1 .. m + k : i \in 1 .. Len(longer)
      BY <1>1
    <2> QED
      BY <1>1, <2>1, <2>2
  <1> HIDE DEF a, b
  <1>4. \A i \in 1 .. k : b[i] = a[i]
    <2>1. \A i \in 1 .. k : m + i \in 1 .. Len(s)
      BY <1>1
    <2> QED
      BY <1>2, <1>3, <2>1
  <1>5. b = a
    BY <1>2, <1>3, <1>4, SeqEqual
  <1> QED
    BY <1>5 DEF a, b

(* What the parser sees of a transaction does not change. *)
LEMMA TransactionStays ==
  ASSUME ChainInv, Grows, NEW t \in 1 .. Len(txs)
  PROVE  Transaction(t)' = Transaction(t)
  <1> DEFINE before == CallsBefore(t)
             part == SubSeq(calls, before + 1, before + CallsIn(txs[t]))
  <1>1. txs[t]' = txs[t] /\ Len(txs) \in Nat
    BY DEF Grows, ChainInv
  <1>2. before' = before
    <2>1. SameBefore(txs', txs, t) /\ t \in Nat \ {0}
      BY <1>1 DEF Grows, SameBefore
    <2>2. Before(txs', t) = Before(txs, t)
      BY <2>1, BeforeAgrees
    <2> QED
      BY <2>2 DEF CallsBefore, Before
  <1>3. part' = part
    <2>1. before \in Nat /\ CallsIn(txs[t]) \in Nat /\ before + CallsIn(txs[t]) <= Len(calls)
      <3>1. t \in 1 .. Len(txs) /\ Len(txs) \in Nat \ {0}
        BY <1>1
      <3>2. before = Before(txs, t)
        BY CallsBeforeIs
      <3>3. /\ Before(txs, t) \in Nat /\ CallsIn(txs[t]) \in 0 .. 2
            /\ Before(txs, t + 1) = Before(txs, t) + CallsIn(txs[t])
            /\ Before(txs, t + 1) <= Before(txs, Len(txs) + 1)
        BY <3>1, BeforeAscends
      <3> HIDE DEF before
      <3> QED
        BY <3>2, <3>3 DEF ChainInv
    <2>2. PICK S : calls \in Seq(S) /\ calls' \in Seq(S)
      BY DEF Grows
    <2>3. /\ Len(calls) <= Len(calls') /\ \A c \in 1 .. Len(calls) : calls'[c] = calls[c]
      BY DEF Grows
    <2> DEFINE m == before
               k == CallsIn(txs[t])
    <2>4. SubSeq(calls', m + 1, m + k) = SubSeq(calls, m + 1, m + k)
      <3> HIDE DEF m, k
      <3> QED
        BY <2>1, <2>2, <2>3, SamePart DEF m, k
    <2> HIDE DEF before
    <2> QED
      BY <1>1, <1>2, <2>4
  <1> HIDE DEF before, part
  <1> QED
    BY <1>1, <1>2, <1>3 DEF Transaction, before, part

-------------------------------------------------------------------------------
(* The tables hold what was read of the transactions handled.               *)

OutputsOf(t) == ParsedOutputs(Transaction(t), "pool")

NullifiersOf(t) == ParsedNullifiers(Transaction(t), "pool")

(* The tables hold what was read of the transactions that were handled. *)
StoredInv ==
  /\ outputs \subseteq 1 .. Len(txs) /\ spends \subseteq 1 .. Len(txs)
  /\ table = [outputs |-> UNION {OutputsOf(t) : t \in outputs},
              spent |-> UNION {NullifiersOf(t) : t \in spends}]

TablesInv == ChainInv /\ StoredInv

LEMMA UnchangedGrows ==
  ASSUME ChainInv, UNCHANGED <<txs, calls>>
  PROVE  Grows
  BY DEF ChainInv, Grows

LEMMA GrownChain ==
  ASSUME ChainInv, Grows, StoredInv, UNCHANGED <<outputs, spends, table>>
  PROVE  StoredInv'
  <1>1. \A t \in 1 .. Len(txs) : OutputsOf(t)' = OutputsOf(t) /\ NullifiersOf(t)' = NullifiersOf(t)
    BY TransactionStays DEF OutputsOf, NullifiersOf
  <1>2. outputs \subseteq 1 .. Len(txs) /\ spends \subseteq 1 .. Len(txs)
    BY DEF StoredInv
  <1>3. {OutputsOf(t) : t \in outputs}' = {OutputsOf(t) : t \in outputs}
    <2>1. \A t \in outputs : OutputsOf(t)' = OutputsOf(t)
      BY <1>1, <1>2
    <2> QED
      BY <2>1
  <1>4. {NullifiersOf(t) : t \in spends}' = {NullifiersOf(t) : t \in spends}
    <2>1. \A t \in spends : NullifiersOf(t)' = NullifiersOf(t)
      BY <1>1, <1>2
    <2> QED
      BY <2>1
  <1>5. outputs' \subseteq 1 .. Len(txs') /\ spends' \subseteq 1 .. Len(txs')
    BY <1>2 DEF Grows, ChainInv
  <1> QED
    BY <1>3, <1>4, <1>5 DEF StoredInv

(* A transaction is added with its calls. *)
LEMMA ChainStep ==
  ASSUME ChainInv, NEW S, calls \in Seq(S), NEW made \in Seq(S), NEW shape \in Kinds,
         Len(made) = CallsIn(shape),
         txs' = Append(txs, shape), calls' = calls \o made
  PROVE  Grows /\ ChainInv'
  <1>1. /\ txs \in Seq(Kinds) /\ Len(txs) \in Nat
        /\ Before(txs, Len(txs) + 1) = Len(calls)
    BY DEF ChainInv
  <1>2. /\ txs' \in Seq(Kinds) /\ Len(txs') = Len(txs) + 1
        /\ (\A t \in 1 .. Len(txs) : txs'[t] = txs[t])
        /\ txs'[Len(txs) + 1] = shape
    BY <1>1, AppendProperties
  <1>3. calls' \in Seq(S) /\ IsJoined(calls', calls, Len(calls), made, Len(made))
    BY Joined
  <1>4. Len(calls) \in Nat /\ Len(made) \in Nat
    BY LenProperties
  <1>5. Grows
    BY <1>1, <1>2, <1>3, <1>4 DEF Grows, IsJoined
  <1>6. Before(txs', Len(txs) + 1) = Before(txs, Len(txs) + 1)
    <2>1. SameBefore(txs', txs, Len(txs) + 1) /\ Len(txs) + 1 \in Nat \ {0}
      BY <1>1, <1>2 DEF SameBefore
    <2> QED
      BY <2>1, BeforeAgrees
  <1>7. Before(txs', Len(txs) + 1 + 1) = Before(txs', Len(txs) + 1) + CallsIn(shape)
    <2>1. Len(txs) + 1 \in Nat \ {0}
      BY <1>1
    <2>2. Before(txs', Len(txs) + 1 + 1)
            = Before(txs', Len(txs) + 1) + CallsIn(txs'[Len(txs) + 1])
      BY <2>1, BeforeIs
    <2> QED
      BY <1>2, <2>2
  <1>8. Len(calls') = Len(calls) + CallsIn(shape)
    BY <1>3 DEF IsJoined
  <1>9. Before(txs', Len(txs') + 1) = Len(calls')
    BY <1>1, <1>2, <1>6, <1>7, <1>8
  <1> QED
    BY <1>2, <1>3, <1>5, <1>9 DEF ChainInv

LEMMA InsertKeeps ==
  ASSUME TablesInv, NEW t \in DOMAIN txs, InsertOutputs(t) \/ InsertSpentNullifiers(t)
  PROVE  Grows /\ TablesInv'
  <1>1. UNCHANGED <<txs, calls>>
    BY DEF InsertOutputs, InsertSpentNullifiers
  <1>2. Grows /\ ChainInv'
    BY <1>1, UnchangedGrows DEF TablesInv, ChainInv
  <1>3. \A u \in 1 .. Len(txs) : OutputsOf(u)' = OutputsOf(u) /\ NullifiersOf(u)' = NullifiersOf(u)
    BY <1>2, TransactionStays DEF OutputsOf, NullifiersOf, TablesInv
  <1>4. /\ outputs \subseteq 1 .. Len(txs) /\ spends \subseteq 1 .. Len(txs)
        /\ t \in 1 .. Len(txs) /\ txs' = txs
        /\ table = [outputs |-> UNION {OutputsOf(u) : u \in outputs},
                    spent |-> UNION {NullifiersOf(u) : u \in spends}]
    BY <1>1 DEF TablesInv, StoredInv, ChainInv
  <1>5. PICK more \in SUBSET {t}, over \in SUBSET {t} :
          /\ outputs' = outputs \union more /\ spends' = spends \union over
          /\ table' = [outputs |-> table.outputs \union UNION {OutputsOf(u) : u \in more},
                       spent |-> table.spent \union UNION {NullifiersOf(u) : u \in over}]
    <2>1. CASE InsertSpentNullifiers(t)
      <3>1. outputs' = outputs \union {} /\ spends' = spends \union {t}
        BY <2>1 DEF InsertSpentNullifiers
      <3>2. table' = [table EXCEPT !.spent = @ \union NullifiersOf(t)]
        BY <2>1 DEF InsertSpentNullifiers, NullifiersOf
      <3>3. table' = [outputs |-> table.outputs \union UNION {OutputsOf(u) : u \in {}},
                      spent |-> table.spent \union UNION {NullifiersOf(u) : u \in {t}}]
        BY <1>4, <3>2
      <3> QED
        BY <3>1, <3>3
    <2>2. CASE InsertOutputs(t)
      <3>1. outputs' = outputs \union {t} /\ spends' = spends \union {}
        BY <2>2 DEF InsertOutputs
      <3>2. table' = [table EXCEPT !.outputs = @ \union OutputsOf(t)]
        BY <2>2 DEF InsertOutputs, OutputsOf
      <3>3. table' = [outputs |-> table.outputs \union UNION {OutputsOf(u) : u \in {t}},
                      spent |-> table.spent \union UNION {NullifiersOf(u) : u \in {}}]
        BY <1>4, <3>2
      <3> QED
        BY <3>1, <3>3
    <2> QED
      BY <2>1, <2>2
  <1>6. /\ UNION {OutputsOf(u)' : u \in outputs'}
             = table.outputs \union UNION {OutputsOf(u) : u \in more}
        /\ UNION {NullifiersOf(u)' : u \in spends'}
             = table.spent \union UNION {NullifiersOf(u) : u \in over}
    <2>1. outputs' \subseteq 1 .. Len(txs) /\ spends' \subseteq 1 .. Len(txs)
      BY <1>4, <1>5
    <2>2. {OutputsOf(u)' : u \in outputs'} = {OutputsOf(u) : u \in outputs'}
      BY <1>3, <2>1
    <2>3. {NullifiersOf(u)' : u \in spends'} = {NullifiersOf(u) : u \in spends'}
      BY <1>3, <2>1
    <2>4. {OutputsOf(u) : u \in outputs'}
            = {OutputsOf(u) : u \in outputs} \union {OutputsOf(u) : u \in more}
      BY <1>5
    <2>5. {NullifiersOf(u) : u \in spends'}
            = {NullifiersOf(u) : u \in spends} \union {NullifiersOf(u) : u \in over}
      BY <1>5
    <2> QED
      BY <1>4, <2>2, <2>3, <2>4, <2>5
  <1>7. StoredInv'
    <2>1. outputs' \subseteq 1 .. Len(txs') /\ spends' \subseteq 1 .. Len(txs')
      BY <1>4, <1>5
    <2>2. table' = [outputs |-> UNION {OutputsOf(u) : u \in outputs}',
                    spent |-> UNION {NullifiersOf(u) : u \in spends}']
      BY <1>5, <1>6
    <2> QED
      BY <2>1, <2>2 DEF StoredInv
  <1> QED
    BY <1>2, <1>7 DEF TablesInv

LEMMA InitTables == Init => TablesInv
  <1> SUFFICES ASSUME Init
               PROVE  TablesInv
    OBVIOUS
  <1> DEFINE n == Len(OpeningAmounts)
             direct == [t \in 1 .. n |-> "direct"]
  <1>1. n \in Nat /\ n >= 1 /\ DOMAIN OpeningAmounts = 1 .. n
    BY OpeningAssumption, PoolAssumption
  <1> HIDE DEF n
  <1>2. txs = <<"initialize">> \o direct
    BY <1>1 DEF Init, n
  <1>3. /\ direct \in Seq(Kinds) /\ Len(direct) = n /\ \A t \in 1 .. n : direct[t] = "direct"
        /\ <<"initialize">> \in Seq(Kinds) /\ Len(<<"initialize">>) = 1
    BY <1>1 DEF Kinds
  <1> HIDE DEF direct
  <1>4. txs \in Seq(Kinds) /\ IsJoined(txs, <<"initialize">>, 1, direct, n)
    BY <1>2, <1>3, JoinedAt
  <1>5. /\ txs \in Seq(Kinds) /\ Len(txs) = n + 1
        /\ txs[1] = "initialize" /\ \A t \in 1 .. n : txs[1 + t] = "direct"
    <2>1. txs[1] = <<"initialize">>[1] /\ Len(txs) = 1 + n
          /\ \A t \in 1 .. n : txs[1 + t] = direct[t]
      BY <1>4 DEF IsJoined
    <2>2. <<"initialize">>[1] = "initialize" /\ 1 + n = n + 1
      BY <1>1
    <2> QED
      BY <1>3, <1>4, <2>1, <2>2
  <1>6. /\ calls \in Seq({OldDeposit(t) : t \in 1 .. n}) /\ Len(calls) = n
    BY <1>1 DEF Init
  <1>7. Before(txs, n + 2) = n
    <2> DEFINE S == {k \in Nat : k <= n => Before(txs, k + 2) = k}
    <2>1. 0 \in S
      <3>1. Before(txs, 1) = 0 /\ Before(txs, 1 + 1) = Before(txs, 1) + CallsIn(txs[1])
        BY BeforeIs
      <3>2. CallsIn(txs[1]) = 0
        BY <1>5 DEF CallsIn
      <3> QED
        BY <3>1, <3>2
    <2>2. ASSUME NEW k \in Nat, k \in S
          PROVE  k + 1 \in S
      <3> SUFFICES ASSUME k + 1 <= n
                   PROVE  Before(txs, k + 1 + 2) = k + 1
        OBVIOUS
      <3>1. Before(txs, k + 2) = k
        BY <1>1, <2>2
      <3>2. k + 2 \in Nat \ {0} /\ k + 1 + 2 = k + 2 + 1 /\ k + 2 = 1 + (k + 1)
            /\ k + 1 \in 1 .. n
        BY <1>1
      <3>3. Before(txs, k + 2 + 1) = Before(txs, k + 2) + CallsIn(txs[k + 2])
        BY <3>2, BeforeIs
      <3>4. txs[k + 2] = "direct"
        BY <1>5, <3>2
      <3>5. CallsIn("direct") = 1
        BY DEF CallsIn
      <3> QED
        BY <3>1, <3>2, <3>3, <3>4, <3>5
    <2> HIDE DEF S
    <2>3. n \in S
      BY <1>1, <2>1, <2>2, UpFromZero
    <2> QED
      BY <1>1, <2>3 DEF S
  <1>8. ChainInv
    <2>1. n + 1 + 1 = n + 2
      BY <1>1
    <2> QED
      BY <1>5, <1>6, <1>7, <2>1 DEF ChainInv
  <1>9. StoredInv
    <2>1. outputs = {1, 2} /\ spends = {1, 2} /\ 1 .. 2 = {1, 2}
      BY DEF Init
    <2>2. table = [outputs |-> UNION {OutputsOf(t) : t \in outputs},
                   spent |-> UNION {NullifiersOf(t) : t \in spends}]
      BY <2>1 DEF Init, OutputsOf, NullifiersOf
    <2> QED
      BY <1>1, <1>5, <2>1, <2>2 DEF StoredInv
  <1> QED
    BY <1>8, <1>9 DEF TablesInv

LEMMA OneMore ==
  ASSUME NEW S, NEW s \in Seq(S), NEW e \in S
  PROVE  Append(s, e) = s \o <<e>> /\ <<e>> \in Seq(S) /\ Len(<<e>>) = 1
  OBVIOUS

LEMMA LandTables ==
  ASSUME TablesInv, NEW d \in Devices, Land(d)
  PROVE  Grows /\ TablesInv'
  <1>1. PICK message \in Sent(job[d].tx) :
          calls' = Append(calls, CallOf(Last(message)))
    BY DEF Land
  <1>2. PICK T : calls \in Seq(T)
    BY DEF TablesInv, ChainInv
  <1> DEFINE call == CallOf(Last(message))
             S == T \union {call}
  <1>3. calls \in Seq(S) /\ call \in S
    BY <1>2
  <1> HIDE DEF call, S
  <1>4. calls' = calls \o <<call>> /\ <<call>> \in Seq(S) /\ Len(<<call>>) = 1
    BY <1>1, <1>3, OneMore DEF call
  <1>5. "direct" \in Kinds /\ CallsIn("direct") = 1
    BY DEF Kinds, CallsIn
  <1>6. txs' = Append(txs, "direct") /\ UNCHANGED <<outputs, spends, table>>
    BY DEF Land
  <1>7. Grows /\ ChainInv'
    BY <1>3, <1>4, <1>5, <1>6, ChainStep DEF TablesInv
  <1> QED
    BY <1>6, <1>7, GrownChain DEF TablesInv

LEMMA ForeignTables ==
  ASSUME TablesInv, NEW shape \in Shapes, Foreign(shape)
  PROVE  Grows /\ TablesInv'
  <1> DEFINE first == Len(calls)
             key == NoteKey("other")
             randoms(c) == <<-2 * (first + c), -2 * (first + c) - 1>>
             Deposit(c) ==
               Call(CreateInputSlots(<<>>, Height, randoms(c)),
                    CreateOutputs(key, UtxoPublicKey(UtxoPrivateKey(key)), 1,
                                  2 * (first + c - 1), randoms(c)),
                    [amount |-> 1, fee |-> 0])
             made == [c \in 1 .. CallsIn(shape) |-> Deposit(c)]
  <1>1. /\ calls' = calls \o made /\ txs' = Append(txs, shape)
        /\ UNCHANGED <<outputs, spends, table>>
    BY DEF Foreign
  <1>2. PICK T : calls \in Seq(T)
    BY DEF TablesInv, ChainInv
  <1>3. CallsIn(shape) \in Nat /\ shape \in Kinds
    BY PoolAssumption DEF CallsIn, Kinds
  <1> HIDE DEF Deposit
  <1> DEFINE S == T \union {Deposit(c) : c \in 1 .. CallsIn(shape)}
  <1>4. calls \in Seq(S) /\ \A c \in 1 .. CallsIn(shape) : Deposit(c) \in S
    BY <1>2
  <1> HIDE DEF S
  <1>5. made \in Seq(S) /\ Len(made) = CallsIn(shape)
    BY <1>3, <1>4
  <1> HIDE DEF made
  <1>6. Grows /\ ChainInv'
    BY <1>1, <1>3, <1>4, <1>5, ChainStep DEF TablesInv
  <1> QED
    BY <1>1, <1>6, GrownChain DEF TablesInv

LEMMA NextGrows ==
  ASSUME TablesInv, [Next]_vars
  PROVE  Grows /\ TablesInv'
  <1>1. ASSUME UNCHANGED <<txs, calls, outputs, spends, table>>
        PROVE  Grows /\ TablesInv'
    <2>1. Grows /\ ChainInv'
      BY <1>1, UnchangedGrows DEF TablesInv, ChainInv
    <2> QED
      BY <1>1, <2>1, GrownChain DEF TablesInv
  <1>2. ASSUME NEW t \in DOMAIN txs, InsertOutputs(t) \/ InsertSpentNullifiers(t)
        PROVE  Grows /\ TablesInv'
    BY <1>2, InsertKeeps
  <1>3. ASSUME NEW d \in Devices, NEW record, Become(d, record)
        PROVE  Grows /\ TablesInv'
    BY <1>1, <1>3 DEF Become
  <1>4. ASSUME NEW d \in Devices, NEW recipient \in Payments, Quote(d, recipient)
        PROVE  Grows /\ TablesInv'
    BY <1>3, <1>4 DEF Quote
  <1>5. ASSUME NEW d \in Devices, NEW lamports \in Deposits,
               PrepareDeposit(d, lamports)
        PROVE  Grows /\ TablesInv'
    BY <1>3, <1>5 DEF PrepareDeposit
  <1>6. ASSUME NEW d \in Devices,
               Scan(d) \/ Select(d) \/ GetMerkleProof(d) \/ Prepare(d)
        PROVE  Grows /\ TablesInv'
    BY <1>3, <1>6 DEF Scan, Select, GetMerkleProof, Prepare
  <1>7. ASSUME NEW d \in Devices, Fail(d) \/ Discard(d)
        PROVE  Grows /\ TablesInv'
    BY <1>3, <1>7 DEF Fail, Discard
  <1>8. ASSUME UNCHANGED vars
        PROVE  Grows /\ TablesInv'
    BY <1>1, <1>8 DEF vars
  <1> QED
    BY <1>2, <1>4, <1>5, <1>6, <1>7, <1>8, LandTables, ForeignTables DEF Next

LEMMA NextTables == TablesInv /\ [Next]_vars => TablesInv'
  BY NextGrows

-------------------------------------------------------------------------------
(* The rows of a transaction.                                               *)

(* The event of a leaf, counting from one. *)
IsEventOf(event, i) ==
  /\ event.index = i - 1
  /\ event.commitment = OnChain[i].commitment
  /\ event.encrypted = OnChain[i].encrypted

LEMMA LeafAt ==
  ASSUME ChainInv, NEW c \in 1 .. Len(calls), NEW o \in 1 .. 2
  PROVE  /\ 2 * (c - 1) + o \in 1 .. 2 * Len(calls)
         /\ OnChain[2 * (c - 1) + o] = calls[c].outputs[o]
  <1>1. Len(calls) \in Nat
    BY DEF ChainInv
  <1>2. c \in Nat \ {0} /\ (o = 1 \/ o = 2)
    OBVIOUS
  <1>3. 2 * (c - 1) + o \in 1 .. 2 * Len(calls)
    BY <1>1, <1>2
  <1> DEFINE i == 2 * (c - 1) + o
  <1>4. i \in Int /\ (i + 1) \div 2 = c /\ (i % 2 = 1 <=> o = 1)
    BY <1>2
  <1> HIDE DEF i
  <1>5. OnChain[i] = calls[(i + 1) \div 2].outputs[IF i % 2 = 1 THEN 1 ELSE 2]
    BY <1>3 DEF OnChain, i
  <1>6. OnChain[i] = calls[c].outputs[o]
    BY <1>2, <1>4, <1>5
  <1> QED
    BY <1>3, <1>6 DEF i

(* The events the parser finds in a transaction are its leaves, in order.   *)
LEMMA EventsOfTransaction ==
  ASSUME ChainInv, NEW t \in 1 .. Len(txs)
  PROVE  LET events == CommitmentEvents(Transaction(t).logs, "pool")
         IN  /\ Len(events) = 2 * CallsIn(txs[t])
             /\ \A e \in 1 .. 2 * CallsIn(txs[t]) :
                  IsEventOf(events[e], 2 * Before(txs, t) + e)
  <1> DEFINE before == Before(txs, t)
             count == CallsIn(txs[t])
             part == SubSeq(calls, before + 1, before + count)
             events == CommitmentEvents(Transaction(t).logs, "pool")
  <1>1. /\ before \in Nat /\ count \in Nat /\ before + count <= Len(calls)
        /\ Len(calls) \in Nat /\ txs[t] \in Kinds
    <2>1. Len(txs) \in Nat \ {0} /\ txs[t] \in Kinds /\ Len(calls) \in Nat
      BY DEF ChainInv
    <2> QED
      BY <2>1, BeforeAscends DEF ChainInv
  <1>2. CallsBefore(t) = before
    BY CallsBeforeIs
  <1> HIDE DEF before, count
  <1>3. \A i \in 1 .. count : part[i] = calls[before + i]
    <2>1. PICK S : calls \in Seq(S)
      BY DEF ChainInv
    <2>2. \A i \in 1 .. count : before + 1 + i - 1 = before + i
      BY <1>1
    <2>3. \A i \in before + 1 .. before + count : i \in 1 .. Len(calls)
      BY <1>1
    <2> QED
      BY <1>1, <2>1, <2>2, <2>3
  <1> HIDE DEF part
  <1>4. ASSUME NEW c \in 1 .. count, NEW o \in 1 .. 2, NEW e, e = 2 * (c - 1) + o
        PROVE  IsEventOf(EventOf("CommitmentData", part[c], o, 2 * (before + c - 1)),
                         2 * before + e)
    <2> DEFINE k == before + c
               i == 2 * (k - 1) + o
               event == EventOf("CommitmentData", part[c], o, 2 * (before + c - 1))
    <2>1. k \in 1 .. Len(calls)
      BY <1>1
    <2>2. i = 2 * before + e /\ i - 1 = 2 * (before + c - 1) + o - 1
      BY <1>1, <1>4
    <2>3. part[c] = calls[k]
      BY <1>3
    <2>4. OnChain[i] = calls[k].outputs[o]
      <3> HIDE DEF k
      <3> QED
        BY <2>1, LeafAt
    <2>5. /\ event.index = 2 * (before + c - 1) + o - 1
          /\ event.commitment = part[c].outputs[o].commitment
          /\ event.encrypted = part[c].outputs[o].encrypted
      BY DEF EventOf
    <2> HIDE DEF k, i, event
    <2>6. IsEventOf(event, i)
      BY <2>2, <2>3, <2>4, <2>5 DEF IsEventOf
    <2> QED
      BY <2>2, <2>6 DEF event
  <1>5. CASE txs[t] = "initialize"
    <2>1. Transaction(t).logs = <<Invoke("pool"), Exit("pool")>>
      BY <1>5 DEF Transaction, Message
    <2>2. count = 0
      BY <1>5 DEF count, CallsIn
    <2> QED
      BY <2>1, <2>2, EventsInitialize DEF count
  <1>6. CASE txs[t] = "direct"
    <2>1. count = 1
      BY <1>6 DEF count, CallsIn
    <2>2. Transaction(t).logs = LogsOf("CommitmentData", part[1], 2 * before)
      BY <1>2, <1>6 DEF Transaction, Message, part, count
    <2>3. AreEventsOf(events, part[1], 2 * before)
      BY <2>2, EventsDirect
    <2>4. before + 1 - 1 = before /\ 1 = 2 * (1 - 1) + 1 /\ 2 = 2 * (1 - 1) + 2
          /\ 1 \in 1 .. 2 /\ 2 \in 1 .. 2 /\ 1 \in 1 .. 1
      BY <1>1
    <2>5. /\ IsEventOf(EventOf("CommitmentData", part[1], 1, 2 * before), 2 * before + 1)
          /\ IsEventOf(EventOf("CommitmentData", part[1], 2, 2 * before), 2 * before + 2)
      BY <1>4, <2>1, <2>4
    <2> QED
      BY <2>1, <2>3, <2>5 DEF AreEventsOf, count, before
  <1>7. CASE txs[t] = "wrapped"
    <2>1. count = 1
      BY <1>7 DEF count, CallsIn
    <2>2. Transaction(t).logs = <<Invoke("mimic")>>
                                  \o LogsOf("CommitmentData", part[1], 2 * before)
                                  \o <<Exit("mimic")>>
      BY <1>2, <1>7 DEF Transaction, Message, part, count
    <2>3. AreEventsOf(events, part[1], 2 * before)
      BY <2>2, EventsWrapped
    <2>4. before + 1 - 1 = before /\ 1 = 2 * (1 - 1) + 1 /\ 2 = 2 * (1 - 1) + 2
          /\ 1 \in 1 .. 2 /\ 2 \in 1 .. 2 /\ 1 \in 1 .. 1
      BY <1>1
    <2>5. /\ IsEventOf(EventOf("CommitmentData", part[1], 1, 2 * before), 2 * before + 1)
          /\ IsEventOf(EventOf("CommitmentData", part[1], 2, 2 * before), 2 * before + 2)
      BY <1>4, <2>1, <2>4
    <2> QED
      BY <2>1, <2>3, <2>5 DEF AreEventsOf, count, before
  <1>8. CASE txs[t] = "batched"
    <2>1. count = 2
      BY <1>8 DEF count, CallsIn
    <2>2. PICK event :
            Transaction(t).logs =
              LogsOf("CommitmentData", part[1], 2 * before)
                \o <<Invoke("mimic"), Data(event), Exit("mimic")>>
                \o LogsOf("SplCommitmentData", part[1], 0)
                \o LogsOf("CommitmentData", part[2], 2 * before + 2)
      BY <1>2, <1>8 DEF Transaction, Message, part, count
    <2>3. AreEventsOfBoth(events, part[1], part[2], 2 * before, 2 * before + 2)
      BY <2>2, EventsBatched
    <2>4. /\ 2 * (before + 1 - 1) = 2 * before /\ 2 * (before + 2 - 1) = 2 * before + 2
          /\ 1 = 2 * (1 - 1) + 1 /\ 2 = 2 * (1 - 1) + 2
          /\ 3 = 2 * (2 - 1) + 1 /\ 4 = 2 * (2 - 1) + 2
          /\ 1 \in 1 .. 2 /\ 2 \in 1 .. 2
      BY <1>1
    <2>5. /\ IsEventOf(EventOf("CommitmentData", part[1], 1, 2 * before), 2 * before + 1)
          /\ IsEventOf(EventOf("CommitmentData", part[1], 2, 2 * before), 2 * before + 2)
          /\ IsEventOf(EventOf("CommitmentData", part[2], 1, 2 * before + 2), 2 * before + 3)
          /\ IsEventOf(EventOf("CommitmentData", part[2], 2, 2 * before + 2), 2 * before + 4)
      BY <1>4, <2>1, <2>4
    <2> QED
      BY <2>1, <2>3, <2>5 DEF AreEventsOfBoth, count, before
  <1> QED
    BY <1>1, <1>5, <1>6, <1>7, <1>8 DEF Kinds

(* A row that is the leaf of its index. *)
IsLeafRow(row) ==
  /\ row.index \in 0 .. 2 * Len(calls) - 1
  /\ row.commitment = OnChain[row.index + 1].commitment
  /\ row.encrypted = OnChain[row.index + 1].encrypted

(* Rows of all the indexes from one to another, one each. *)
AreRowsOf(rows, first, next) ==
  /\ \A row \in rows : row.index \in first .. next - 1 /\ IsLeafRow(row)
  /\ \A i \in first .. next - 1 : \E row \in rows : row.index = i
  /\ \A row, other \in rows : row.index = other.index => row = other

(* A transaction's outputs are all stored, or none when it names no         *)
(* instruction of the pool.                                                 *)
LEMMA RowsOfTransaction ==
  ASSUME ChainInv, NEW t \in 1 .. Len(txs)
  PROVE  \/ OutputsOf(t) = {}
            /\ NativeInstructions(Transaction(t), "pool") = <<>>
         \/ AreRowsOf(OutputsOf(t), 2 * Before(txs, t), 2 * Before(txs, t + 1))
  <1> DEFINE native == NativeInstructions(Transaction(t), "pool")
             events == CommitmentEvents(Transaction(t).logs, "pool")
             first == 2 * Before(txs, t)
             count == 2 * CallsIn(txs[t])
             Row(e) == [index |-> events[e].index,
                        commitment |-> events[e].commitment,
                        encrypted |-> events[e].encrypted,
                        instruction |-> OwnerInstruction(native, e)]
  <1>1. /\ first \in Nat /\ count \in Nat /\ first + count <= 2 * Len(calls)
        /\ Len(calls) \in Nat /\ 2 * Before(txs, t + 1) = first + count
    <2>1. Len(txs) \in Nat \ {0} /\ Len(calls) \in Nat
      BY DEF ChainInv
    <2>2. /\ Before(txs, t) \in Nat /\ CallsIn(txs[t]) \in 0 .. 2
          /\ Before(txs, t + 1) = Before(txs, t) + CallsIn(txs[t])
          /\ Before(txs, t + 1) <= Len(calls)
      BY <2>1, BeforeAscends DEF ChainInv
    <2> DEFINE k == Before(txs, t)
               m == CallsIn(txs[t])
               next == Before(txs, t + 1)
               all == Len(calls)
    <2>3. k \in Nat /\ m \in 0 .. 2 /\ next = k + m /\ next <= all /\ all \in Nat
      BY <2>1, <2>2
    <2> HIDE DEF k, m, next, all
    <2>4. /\ 2 * k \in Nat /\ 2 * m \in Nat /\ 2 * k + 2 * m <= 2 * all
          /\ 2 * next = 2 * k + 2 * m
      BY <2>3
    <2> QED
      BY <2>1, <2>4 DEF k, m, next, all
  <1>2. Len(events) = count /\ \A e \in 1 .. count : IsEventOf(events[e], first + e)
    BY EventsOfTransaction
  <1>3. native = <<>> => OutputsOf(t) = {}
    BY DEF OutputsOf, ParsedOutputs
  <1>4. native # <<>> => OutputsOf(t) = {Row(e) : e \in 1 .. count}
    BY <1>2 DEF OutputsOf, ParsedOutputs
  <1> HIDE DEF events, first, count
  <1>5. ASSUME NEW e \in 1 .. count
        PROVE  /\ Row(e).index = first + e - 1
               /\ Row(e).index \in first .. first + count - 1
               /\ IsLeafRow(Row(e))
    <2> DEFINE row == Row(e)
    <2>1. /\ row.index = events[e].index /\ row.commitment = events[e].commitment
          /\ row.encrypted = events[e].encrypted
      OBVIOUS
    <2>2. /\ events[e].index = first + e - 1
          /\ events[e].commitment = OnChain[first + e].commitment
          /\ events[e].encrypted = OnChain[first + e].encrypted
      BY <1>1, <1>2 DEF IsEventOf
    <2> HIDE DEF row
    <2>3. /\ row.index = first + e - 1 /\ row.index + 1 = first + e
          /\ row.index \in first .. first + count - 1
          /\ row.index \in 0 .. 2 * Len(calls) - 1
      BY <1>1, <2>1, <2>2
    <2>4. IsLeafRow(row)
      BY <2>1, <2>2, <2>3 DEF IsLeafRow
    <2> QED
      BY <2>3, <2>4 DEF row
  <1> DEFINE rows == {Row(e) : e \in 1 .. count}
  <1> HIDE DEF Row
  <1>6. AreRowsOf(rows, first, first + count)
    <2>1. \A row \in rows : row.index \in first .. first + count - 1 /\ IsLeafRow(row)
      BY <1>5
    <2>2. ASSUME NEW i \in first .. first + count - 1
          PROVE  \E row \in rows : row.index = i
      <3>1. i - first + 1 \in 1 .. count /\ first + (i - first + 1) - 1 = i
        BY <1>1
      <3>2. Row(i - first + 1) \in rows /\ Row(i - first + 1).index = i
        BY <1>5, <3>1
      <3> QED
        BY <3>2
    <2>3. ASSUME NEW row \in rows, NEW other \in rows, row.index = other.index
          PROVE  row = other
      <3>1. PICK e \in 1 .. count : row = Row(e)
        OBVIOUS
      <3>2. PICK f \in 1 .. count : other = Row(f)
        OBVIOUS
      <3>3. first + e - 1 = first + f - 1
        BY <1>5, <2>3, <3>1, <3>2
      <3>4. e = f
        BY <1>1, <3>3
      <3> QED
        BY <3>1, <3>2, <3>4
    <2> HIDE DEF rows
    <2>4. \A i : i \in first .. (first + count) - 1 <=> i \in first .. first + count - 1
      BY <1>1
    <2> QED
      BY <2>1, <2>2, <2>3, <2>4 DEF AreRowsOf
  <1>7. native # <<>> => AreRowsOf(OutputsOf(t), first, 2 * Before(txs, t + 1))
    BY <1>1, <1>4, <1>6
  <1> QED
    BY <1>3, <1>7 DEF first

LEMMA RowsOfTables ==
  ASSUME TablesInv
  PROVE  \A row \in Rows : IsLeafRow(row)
  <1> SUFFICES ASSUME NEW row \in Rows
               PROVE  IsLeafRow(row)
    OBVIOUS
  <1>1. PICK t \in 1 .. Len(txs) : row \in OutputsOf(t)
    BY DEF TablesInv, StoredInv, Rows
  <1> QED
    BY <1>1, RowsOfTransaction DEF TablesInv, AreRowsOf

(* Every row the indexer stores is the leaf of its index on the chain, for  *)
(* any number of transactions of the four shapes: one that initializes the  *)
(* pool, one call, two calls with another program's look-alike event and a  *)
(* token call between them, and a call made by another program              *)
(* (parseCommitmentEvents).                                                 *)
THEOREM StoredRowsAreLeaves == Spec => []RowsAreLeaves
  <1>1. TablesInv => RowsAreLeaves
    <2> SUFFICES ASSUME TablesInv, NEW row \in Rows
                 PROVE  /\ row.index < Len(OnChain)
                        /\ row.commitment = OnChain[row.index + 1].commitment
      BY DEF RowsAreLeaves
    <2>1. Len(calls) \in Nat /\ Len(OnChain) = 2 * Len(calls)
      BY DEF TablesInv, ChainInv, OnChain
    <2>2. IsLeafRow(row)
      BY RowsOfTables
    <2> QED
      BY <2>1, <2>2 DEF IsLeafRow
  <1> QED
    BY <1>1, InitTables, NextTables, PTL DEF Spec

-------------------------------------------------------------------------------
(* The tree of the stored rows, and the roots the pool had.                 *)

(* One row of the table for each index. *)
LEMMA RowsUnique ==
  ASSUME TablesInv, NEW row \in Rows, NEW other \in Rows, row.index = other.index
  PROVE  row = other
  <1>1. PICK t \in 1 .. Len(txs) : row \in OutputsOf(t)
    BY DEF TablesInv, StoredInv, Rows
  <1>2. PICK u \in 1 .. Len(txs) : other \in OutputsOf(u)
    BY DEF TablesInv, StoredInv, Rows
  <1>3. /\ AreRowsOf(OutputsOf(t), 2 * Before(txs, t), 2 * Before(txs, t + 1))
        /\ AreRowsOf(OutputsOf(u), 2 * Before(txs, u), 2 * Before(txs, u + 1))
    BY <1>1, <1>2, RowsOfTransaction DEF TablesInv
  <1>4. /\ row.index \in 2 * Before(txs, t) .. 2 * Before(txs, t + 1) - 1
        /\ other.index \in 2 * Before(txs, u) .. 2 * Before(txs, u + 1) - 1
    BY <1>1, <1>2, <1>3 DEF AreRowsOf
  <1>5. Len(txs) \in Nat
    BY DEF TablesInv, ChainInv
  <1>6. ASSUME NEW a \in 1 .. Len(txs), NEW b \in 1 .. Len(txs), a < b,
               NEW i, i \in 2 * Before(txs, a) .. 2 * Before(txs, a + 1) - 1,
               i \in 2 * Before(txs, b) .. 2 * Before(txs, b + 1) - 1
        PROVE  FALSE
    <2>1. b - 1 \in Nat \ {0} /\ a \in 1 .. b - 1 /\ b - 1 + 1 = b
      BY <1>5, <1>6
    <2>2. Before(txs, a + 1) <= Before(txs, b - 1 + 1) /\ Before(txs, b - 1 + 1) \in Nat
      BY <2>1, BeforeAscends
    <2>3. Len(txs) \in Nat \ {0}
      BY <1>5
    <2>4. /\ Before(txs, a) \in Nat /\ CallsIn(txs[a]) \in 0 .. 2
          /\ Before(txs, a + 1) = Before(txs, a) + CallsIn(txs[a])
      BY <2>3, BeforeAscends
    <2> DEFINE p == Before(txs, a + 1)
               q == Before(txs, b)
    <2>5. p \in Nat /\ q \in Nat /\ p <= q
      BY <2>1, <2>2, <2>4
    <2>6. i \in Int /\ i <= 2 * p - 1 /\ 2 * q <= i
      BY <1>6
    <2> HIDE DEF p, q
    <2> QED
      BY <2>5, <2>6
  <1>7. t = u
    <2>1. t < u \/ u < t \/ t = u
      BY <1>5
    <2> QED
      BY <1>4, <1>6, <2>1
  <1> QED
    BY <1>1, <1>2, <1>3, <1>7 DEF AreRowsOf

(* Rows with the indexes from zero on, one each. *)
IsNumbered(rows, n) ==
  /\ \A row \in rows : row.index \in 0 .. n - 1
  /\ \A i \in 0 .. n - 1 : \E row \in rows : row.index = i
  /\ \A row, other \in rows : row.index = other.index => row = other

LEMMA CountBelow ==
  ASSUME NEW rows, NEW n \in Nat, IsNumbered(rows, n), NEW m \in 0 .. n
  PROVE  Cardinality({row \in rows : row.index < m}) = m
  <1> DEFINE below == {row \in rows : row.index < m}
             f == [i \in 0 .. m - 1 |-> CHOOSE row \in rows : row.index = i]
  <1>1. ASSUME NEW i \in 0 .. m - 1
        PROVE  f[i] \in below /\ f[i].index = i
    <2>1. i \in 0 .. n - 1 /\ i < m
      OBVIOUS
    <2>2. f[i] \in rows /\ f[i].index = i
      BY <2>1 DEF IsNumbered
    <2> QED
      BY <2>1, <2>2
  <1>2. ASSUME NEW row \in below
        PROVE  \E i \in 0 .. m - 1 : f[i] = row
    <2>1. row \in rows /\ row.index \in 0 .. m - 1
      BY DEF IsNumbered
    <2>2. f[row.index] \in rows /\ f[row.index].index = row.index
      BY <1>1, <2>1
    <2>3. f[row.index] = row
      <3> HIDE DEF f
      <3> QED
        BY <2>1, <2>2 DEF IsNumbered
    <2> QED
      BY <2>1, <2>3
  <1>3. f \in [0 .. m - 1 -> below]
    <2> HIDE DEF below
    <2>1. DOMAIN f = 0 .. m - 1 /\ f = [i \in 0 .. m - 1 |-> f[i]]
      OBVIOUS
    <2> HIDE DEF f
    <2> QED
      BY <1>1, <2>1
  <1> HIDE DEF f, below
  <1>4. f \in Bijection(0 .. m - 1, below)
    <2>1. \A i, j \in 0 .. m - 1 : f[i] = f[j] => i = j
      BY <1>1
    <2> QED
      BY <1>2, <1>3, <2>1 DEF Bijection, Injection, Surjection, IsInjective
  <1>5. ExistsBijection(0 .. m - 1, below)
    BY <1>4 DEF ExistsBijection
  <1>6. IsFiniteSet(0 .. m - 1) /\ Cardinality(0 .. m - 1) = m
    <2>1. 0 \in Int /\ m - 1 \in Int
      OBVIOUS
    <2>2. IsFiniteSet(0 .. m - 1)
          /\ Cardinality(0 .. m - 1) = IF 0 > m - 1 THEN 0 ELSE m - 1 - 0 + 1
      BY <2>1, FS_Interval
    <2> QED
      BY <2>2
  <1> QED
    BY <1>5, <1>6, FS_Bijection DEF below

(* The leaves of the first calls. *)
LeavesOf(k) == [i \in 1 .. 2 * k |-> Leaf(OnChain[i].commitment)]

(* When the table has no hole, the leaves it gives are those of the first   *)
(* calls: the pool had a tree with them.                                    *)
LEMMA NumberedRows ==
  ASSUME TablesInv, Contiguous
  PROVE  \E k \in 0 .. Len(calls) : IsNumbered(Rows, 2 * k)
  <1> DEFINE indexes == {row.index : row \in Rows}
             n == Cardinality(indexes)
             all == Len(calls)
  <1>1. all \in Nat /\ Len(txs) \in Nat
    BY DEF TablesInv, ChainInv
  <1>2. indexes \subseteq 0 .. 2 * all - 1
    BY RowsOfTables DEF IsLeafRow
  <1>3. n \in Nat
    <2>1. IsFiniteSet(0 .. 2 * all - 1)
      <3>1. 0 \in Int /\ 2 * all - 1 \in Int
        BY <1>1
      <3> QED
        BY <3>1, FS_Interval
    <2>2. IsFiniteSet(indexes)
      BY <1>2, <2>1, FS_Subset
    <2> QED
      BY <2>2, FS_CardinalityType
  <1>4. indexes = 0 .. n - 1
    BY DEF Contiguous
  <1> HIDE DEF n
  <1>5. IsNumbered(Rows, n)
    <2>1. \A row \in Rows : row.index \in 0 .. n - 1
      BY <1>4
    <2>2. \A i \in 0 .. n - 1 : \E row \in Rows : row.index = i
      BY <1>4
    <2>3. \A row, other \in Rows : row.index = other.index => row = other
      BY RowsUnique
    <2> QED
      BY <2>1, <2>2, <2>3 DEF IsNumbered
  <1>6. CASE n = 0
    <2>1. 0 \in 0 .. all /\ 2 * 0 = 0
      BY <1>1
    <2> QED
      BY <1>5, <1>6, <2>1
  <1>7. CASE n # 0
    <2>1. n - 1 \in 0 .. n - 1
      BY <1>3, <1>7
    <2>2. PICK row \in Rows : row.index = n - 1
      BY <1>4, <2>1
    <2>3. PICK t \in outputs : row \in OutputsOf(t)
      BY <2>2 DEF TablesInv, StoredInv, Rows
    <2>4. t \in 1 .. Len(txs) /\ OutputsOf(t) \subseteq Rows
      BY <2>3 DEF TablesInv, StoredInv, Rows
    <2> DEFINE b == Before(txs, t)
               k == Before(txs, t + 1)
    <2>5. AreRowsOf(OutputsOf(t), 2 * b, 2 * k)
      BY <2>3, <2>4, RowsOfTransaction DEF TablesInv
    <2>6. b \in Nat /\ k \in Nat /\ k <= all /\ b <= k
      <3>1. Len(txs) \in Nat \ {0}
        BY <1>1, <2>4
      <3>2. /\ Before(txs, t) \in Nat /\ CallsIn(txs[t]) \in 0 .. 2
            /\ Before(txs, t + 1) = Before(txs, t) + CallsIn(txs[t])
            /\ Before(txs, t + 1) <= Before(txs, Len(txs) + 1)
        BY <2>4, <3>1, BeforeAscends
      <3>3. Before(txs, Len(txs) + 1) = all
        BY DEF TablesInv, ChainInv
      <3> HIDE DEF all
      <3> QED
        BY <1>1, <3>2, <3>3
    <2> HIDE DEF b, k, all
    <2>7. n - 1 \in 2 * b .. 2 * k - 1
      BY <2>2, <2>3, <2>5 DEF AreRowsOf
    <2>8. 2 * k - 1 \in 2 * b .. 2 * k - 1
      BY <1>3, <2>6, <2>7
    <2>9. 2 * k - 1 \in indexes
      BY <2>4, <2>5, <2>8 DEF AreRowsOf
    <2>10. 2 * k - 1 \in 0 .. n - 1
      BY <1>4, <2>9
    <2>11. n = 2 * k
      BY <1>3, <2>6, <2>7, <2>10
    <2>12. k \in 0 .. all
      BY <1>1, <2>6
    <2> QED
      BY <1>5, <2>11, <2>12 DEF all
  <1> QED
    BY <1>6, <1>7

LEMMA LeavesAreOnChain ==
  ASSUME TablesInv, NEW k \in Nat, IsNumbered(Rows, 2 * k)
  PROVE  ListOutputsForTree = LeavesOf(k)
  <1> DEFINE n == 2 * k
             Under(row) == Cardinality({other \in Rows : other.index < row.index})
             Of(i) == CHOOSE row \in Rows : Under(row) = i - 1
  <1>1. n \in Nat /\ IsNumbered(Rows, n)
    OBVIOUS
  <1> HIDE DEF n
  <1>2. Cardinality(Rows) = n
    <2>1. n \in 0 .. n
      BY <1>1
    <2>2. Cardinality({row \in Rows : row.index < n}) = n
      BY <1>1, <2>1, CountBelow
    <2>3. {row \in Rows : row.index < n} = Rows
      BY <1>1 DEF IsNumbered
    <2> QED
      BY <2>2, <2>3
  <1>3. ASSUME NEW row \in Rows
        PROVE  Under(row) = row.index
    <2>1. row.index \in 0 .. n
      BY <1>1 DEF IsNumbered
    <2> QED
      BY <1>1, <2>1, CountBelow
  <1>4. ASSUME NEW i \in 1 .. n
        PROVE  Leaf(Of(i).commitment) = Leaf(OnChain[i].commitment)
    <2>1. i - 1 \in 0 .. n - 1 /\ i - 1 + 1 = i
      BY <1>1
    <2>2. \E row \in Rows : Under(row) = i - 1
      BY <1>1, <1>3, <2>1 DEF IsNumbered
    <2>3. Of(i) \in Rows /\ Under(Of(i)) = i - 1
      <3> HIDE DEF Under
      <3> QED
        BY <2>2
    <2> HIDE DEF Of
    <2>4. Of(i).index = i - 1
      BY <1>3, <2>3
    <2>5. Of(i).commitment = OnChain[i].commitment
      BY <2>1, <2>3, <2>4, RowsOfTables DEF IsLeafRow
    <2> QED
      BY <2>5
  <1>5. ListOutputsForTree = [i \in 1 .. Cardinality(Rows) |-> Leaf(Of(i).commitment)]
    BY DEF ListOutputsForTree
  <1>6. LeavesOf(k) = [i \in 1 .. n |-> Leaf(OnChain[i].commitment)]
    BY DEF LeavesOf, n
  <1> HIDE DEF Of
  <1> QED
    BY <1>2, <1>4, <1>5, <1>6

(* The roots the pool had. *)
RootAfter(k) == Root(Height, LeavesOf(k))

WasRoot(root) == \E k \in 0 .. Len(calls) : root = RootAfter(k)

LEMMA RootsAre ==
  ASSUME ChainInv
  PROVE  /\ DOMAIN Roots = 0 .. Len(calls)
         /\ \A k \in 0 .. Len(calls) : Roots[k] = RootAfter(k)
  <1> DEFINE all == OnChain
             leaves == [i \in DOMAIN all |-> Leaf(all[i].commitment)]
             n == 2 * Len(calls)
  <1>1. Len(calls) \in Nat /\ n \in Nat
    BY DEF ChainInv
  <1>2. DOMAIN all = 1 .. n
    BY DEF OnChain
  <1>3. Roots = [k \in 0 .. Len(calls) |-> FullRoot(Height, SubSeq(leaves, 1, 2 * k))]
    BY DEF Roots
  <1> HIDE DEF all
  <1>4. /\ leaves \in Seq({Leaf(all[i].commitment) : i \in 1 .. n}) /\ Len(leaves) = n
        /\ \A i \in 1 .. n : leaves[i] = Leaf(all[i].commitment)
    <2> HIDE DEF n
    <2> QED
      BY <1>1, <1>2
  <1> HIDE DEF leaves
  <1>5. ASSUME NEW k \in 0 .. Len(calls)
        PROVE  FullRoot(Height, SubSeq(leaves, 1, 2 * k)) = RootAfter(k)
    <2> DEFINE m == 2 * k
               S == {Leaf(all[i].commitment) : i \in 1 .. n}
               part == SubSeq(leaves, 1, m)
               first == LeavesOf(k)
    <2>1. m \in Nat /\ m <= n
      BY <1>1
    <2>2. first = [i \in 1 .. m |-> Leaf(all[i].commitment)]
      BY DEF LeavesOf, all
    <2> HIDE DEF first, n, m
    <2>3. /\ part \in Seq(S) /\ Len(part) = m
          /\ \A i \in 1 .. m : part[i] = leaves[i]
      <3>1. \A i \in 1 .. m : 1 + i - 1 = i
        BY <2>1
      <3>2. \A i \in 1 .. m : i \in 1 .. n
        BY <1>1, <2>1
      <3> QED
        BY <1>1, <1>4, <2>1, <3>1, <3>2
    <2>4. /\ first \in Seq(S) /\ Len(first) = m
          /\ \A i \in 1 .. m : first[i] = Leaf(all[i].commitment)
      <3>1. \A i \in 1 .. m : Leaf(all[i].commitment) \in S
        BY <1>1, <2>1
      <3> HIDE DEF S
      <3> QED
        BY <2>1, <2>2, <3>1
    <2>5. \A i \in 1 .. m : part[i] = first[i]
      <3>1. \A i \in 1 .. m : i \in 1 .. n
        BY <1>1, <2>1
      <3> QED
        BY <1>4, <2>3, <2>4, <3>1
    <2> HIDE DEF part
    <2>6. part = first
      BY <2>3, <2>4, <2>5, SeqEqual
    <2>7. Root(Height, first) = FullRoot(Height, first)
      BY <2>1, <2>4, RootsAgree, PoolAssumption
    <2> QED
      BY <2>6, <2>7 DEF part, first, m, RootAfter
  <1> QED
    BY <1>3, <1>5

LEMMA LeavesStay ==
  ASSUME ChainInv, Grows, NEW k \in 0 .. Len(calls)
  PROVE  LeavesOf(k)' = LeavesOf(k)
  <1> DEFINE n == 2 * Len(calls)
  <1>1. Len(calls) \in Nat /\ Len(calls') \in Nat /\ Len(calls) <= Len(calls')
    BY LenProperties DEF ChainInv, Grows
  <1>2. ASSUME NEW i \in 1 .. 2 * k
        PROVE  OnChain[i]' = OnChain[i]
    <2>1. /\ i \in 1 .. 2 * Len(calls) /\ i \in 1 .. 2 * Len(calls')
          /\ (i + 1) \div 2 \in 1 .. Len(calls)
      BY <1>1
    <2>2. OnChain[i] = calls[(i + 1) \div 2].outputs[IF i % 2 = 1 THEN 1 ELSE 2]
      BY <2>1 DEF OnChain
    <2>3. OnChain'[i] = calls'[(i + 1) \div 2].outputs[IF i % 2 = 1 THEN 1 ELSE 2]
      BY <2>1 DEF OnChain
    <2>4. calls'[(i + 1) \div 2] = calls[(i + 1) \div 2]
      BY <2>1 DEF Grows
    <2> QED
      BY <2>2, <2>3, <2>4
  <1>3. \A i \in 1 .. 2 * k : Leaf(OnChain[i].commitment)' = Leaf(OnChain[i].commitment)
    BY <1>2
  <1> QED
    BY <1>3 DEF LeavesOf

LEMMA RootsStay ==
  ASSUME ChainInv, Grows, NEW root, WasRoot(root)
  PROVE  WasRoot(root)'
  <1>1. PICK k \in 0 .. Len(calls) : root = RootAfter(k)
    BY DEF WasRoot
  <1>2. k \in 0 .. Len(calls')
    <2>1. Len(calls) \in Nat /\ Len(calls') \in Nat /\ Len(calls) <= Len(calls')
      BY LenProperties DEF ChainInv, Grows
    <2> QED
      BY <2>1
  <1>3. RootAfter(k)' = RootAfter(k)
    <2>1. LeavesOf(k)' = LeavesOf(k)
      BY LeavesStay
    <2> QED
      BY <2>1 DEF RootAfter
  <1> QED
    BY <1>1, <1>2, <1>3 DEF WasRoot

LEMMA TableRoot ==
  ASSUME TablesInv, Contiguous
  PROVE  WasRoot(MerkleState(ListOutputsForTree).root)
  <1>1. PICK k \in 0 .. Len(calls) : IsNumbered(Rows, 2 * k)
    BY NumberedRows
  <1>2. k \in Nat
    BY DEF TablesInv, ChainInv
  <1>3. ListOutputsForTree = LeavesOf(k)
    BY <1>1, <1>2, LeavesAreOnChain
  <1> QED
    BY <1>3 DEF MerkleState, RootAfter, WasRoot

-------------------------------------------------------------------------------
(* What a device prepares, and the instruction that says it.                *)

(* The material of an operation: its parts. *)
IsMaterialOf(material, root, slots, outs, ext, recipient) ==
  LET proof == material.proof
      encrypted == <<outs[1].encrypted, outs[2].encrypted>>
      public == [root |-> root,
                 publicAmount |-> EncodePublicAmount(ext, FieldSize),
                 extDataHash |-> HashExtData(recipient, ext, encrypted, "treasury"),
                 inputNullifiers |-> <<slots[1].nullifier, slots[2].nullifier>>,
                 outputCommitments |-> <<outs[1].commitment, outs[2].commitment>>]
  IN  /\ DOMAIN material = {"nullifiers", "proof", "extData", "encryptedOutput1",
                            "encryptedOutput2"}
      /\ DOMAIN proof = {"proofA", "proofB", "proofC", "root", "publicAmount",
                         "extDataHash", "inputNullifiers", "outputCommitments"}
      /\ Proven(proof) = SnarkInput(public, slots, outs)
      /\ proof.root = root
      /\ proof.publicAmount = public.publicAmount
      /\ proof.extDataHash = public.extDataHash
      /\ proof.inputNullifiers = public.inputNullifiers
      /\ proof.outputCommitments = public.outputCommitments
      /\ material.nullifiers = DeriveNullifierAccounts(public.inputNullifiers)
      /\ material.extData = ext
      /\ material.encryptedOutput1 = outs[1].encrypted
      /\ material.encryptedOutput2 = outs[2].encrypted

LEMMA ProofOfMaterial ==
  ASSUME NEW root, NEW slots, NEW outs, NEW ext, NEW recipient
  PROVE  IsMaterialOf(ProofMaterial(root, slots, outs, ext, recipient, "treasury",
                                    FieldSize),
                      root, slots, outs, ext, recipient)
  <1> DEFINE encrypted == <<outs[1].encrypted, outs[2].encrypted>>
             public == [root |-> root,
                    publicAmount |-> EncodePublicAmount(ext, FieldSize),
                    extDataHash |-> HashExtData(recipient, ext, encrypted,
                                                "treasury"),
                    inputNullifiers |-> <<slots[1].nullifier, slots[2].nullifier>>,
                    outputCommitments |-> <<outs[1].commitment,
                                            outs[2].commitment>>]
             signals == SnarkInput(public, slots, outs)
             material == ProofMaterial(root, slots, outs, ext, recipient, "treasury",
                                       FieldSize)
             made == FormatProof(signals)
             proof == [proofA |-> made.proofA, proofB |-> made.proofB,
                       proofC |-> made.proofC,
                       root |-> public.root, publicAmount |-> public.publicAmount,
                       extDataHash |-> public.extDataHash,
                       inputNullifiers |-> public.inputNullifiers,
                       outputCommitments |-> public.outputCommitments]
  <1>1. material = [nullifiers |-> DeriveNullifierAccounts(public.inputNullifiers),
                    proof |-> proof, extData |-> ext,
                    encryptedOutput1 |-> encrypted[1], encryptedOutput2 |-> encrypted[2]]
    BY DEF ProofMaterial
  <1>2. public.root = root
    OBVIOUS
  <1> HIDE DEF public, signals
  <1>3. made.proofA = <<"pi_a", signals>>
    BY DEF FormatProof
  <1> HIDE DEF made
  <1>5. /\ DOMAIN proof = {"proofA", "proofB", "proofC", "root", "publicAmount",
                                "extDataHash", "inputNullifiers", "outputCommitments"}
        /\ proof.proofA = <<"pi_a", signals>>
        /\ proof.root = public.root
        /\ proof.publicAmount = public.publicAmount
        /\ proof.extDataHash = public.extDataHash
        /\ proof.inputNullifiers = public.inputNullifiers
        /\ proof.outputCommitments = public.outputCommitments
    BY <1>3
  <1> HIDE DEF proof
  <1>6. Proven(proof) = signals
    BY <1>5 DEF Proven
  <1> HIDE DEF material
  <1> QED
    BY <1>1, <1>2, <1>5, <1>6 DEF material, public, signals, IsMaterialOf

(* What the program reads of an instruction that was built for it. *)
IsBuiltFrom(instruction, input, program) ==
  LET parsed == ParseTransactInstruction(instruction)
      data == parsed.data
      account == parsed.accounts
  IN  /\ instruction.programAddress = program
      /\ ReadFields(instruction.data, <<8>>)[1] = "transact"
      /\ account.treeAccount = TreeAccountPda(program)
      /\ account.treeTokenAccount = TreeTokenAccountPda(program)
      /\ account.globalConfig = GlobalConfigPda(program)
      /\ account.nullifier0 = input.nullifiers[1]
      /\ account.nullifier1 = input.nullifiers[2]
      /\ account.nullifier2 = input.nullifiers[3]
      /\ account.nullifier3 = input.nullifiers[4]
      /\ account.recipient = input.recipient
      /\ account.feeRecipient = input.feeRecipient
      /\ data.proof.proofA = input.proof.proofA
      /\ data.proof.root = input.proof.root
      /\ data.proof.publicAmount = input.proof.publicAmount
      /\ data.proof.extDataHash = input.proof.extDataHash
      /\ data.proof.inputNullifiers = 
           <<input.proof.inputNullifiers[1], input.proof.inputNullifiers[2]>>
      /\ data.proof.outputCommitments = 
           <<input.proof.outputCommitments[1], input.proof.outputCommitments[2]>>
      /\ data.extData = [amount |-> input.extData.amount, fee |-> input.extData.fee]
      /\ data.encryptedOutput1 = input.encryptedOutput1
      /\ data.encryptedOutput2 = input.encryptedOutput2

LEMMA BuiltInstruction ==
  ASSUME NEW input, NEW program
  PROVE  IsBuiltFrom(BuildTransactInstruction(input, program), input, program)
  <1> DEFINE args ==
        [treeAccount |-> TreeAccountPda(program),
         treeTokenAccount |-> TreeTokenAccountPda(program),
         globalConfig |-> GlobalConfigPda(program),
         nullifier0 |-> input.nullifiers[1], nullifier1 |-> input.nullifiers[2],
         nullifier2 |-> input.nullifiers[3], nullifier3 |-> input.nullifiers[4],
         recipient |-> input.recipient,
         feeRecipientAccount |-> input.feeRecipient, signer |-> input.signer,
         proof |-> input.proof, extData |-> input.extData,
         encryptedOutput1 |-> input.encryptedOutput1,
         encryptedOutput2 |-> input.encryptedOutput2]
             instruction == BuildTransactInstruction(input, program)
             data == EncodeTransactData(args)
  <1>1. instruction = GetTransactInstruction(args, program)
    BY DEF BuildTransactInstruction, FindPoolAddresses
  <1>2. /\ args.treeAccount = TreeAccountPda(program)
        /\ args.treeTokenAccount = TreeTokenAccountPda(program)
        /\ args.globalConfig = GlobalConfigPda(program)
        /\ args.nullifier0 = input.nullifiers[1] /\ args.nullifier1 = input.nullifiers[2]
        /\ args.nullifier2 = input.nullifiers[3] /\ args.nullifier3 = input.nullifiers[4]
        /\ args.recipient = input.recipient
        /\ args.feeRecipientAccount = input.feeRecipient
        /\ args.proof = input.proof /\ args.extData = input.extData
        /\ args.encryptedOutput1 = input.encryptedOutput1
        /\ args.encryptedOutput2 = input.encryptedOutput2
    OBVIOUS
  <1> HIDE DEF args, instruction
  <1>3. /\ instruction.programAddress = program /\ instruction.data = data
        /\ instruction.accounts[1] = args.treeAccount
        /\ instruction.accounts[2] = args.nullifier0
        /\ instruction.accounts[3] = args.nullifier1
        /\ instruction.accounts[4] = args.nullifier2
        /\ instruction.accounts[5] = args.nullifier3
        /\ instruction.accounts[6] = args.treeTokenAccount
        /\ instruction.accounts[7] = args.globalConfig
        /\ instruction.accounts[8] = args.recipient
        /\ instruction.accounts[9] = args.feeRecipientAccount
    BY <1>1 DEF GetTransactInstruction
  <1>4. ReadFields(data, <<8>>)[1] = "transact"
    <2>1. <<8>> = Part(TransactSizes, 0, 1)
      BY DEF TransactSizes, Part
    <2>2. ReadFields(data, Part(TransactSizes, 0, 1)) = Part(TransactValues(args), 0, 1)
      BY ReadsTransact
    <2>3. Part(TransactValues(args), 0, 1)[1] = "transact"
      BY DEF Part, TransactValues
    <2> QED
      BY <2>1, <2>2, <2>3
  <1> DEFINE parsed == ParseTransactInstruction(instruction)
             read == DecodeTransactData(data)
  <1>5. /\ parsed.data = read
        /\ parsed.accounts.treeAccount = instruction.accounts[1]
        /\ parsed.accounts.nullifier0 = instruction.accounts[2]
        /\ parsed.accounts.nullifier1 = instruction.accounts[3]
        /\ parsed.accounts.nullifier2 = instruction.accounts[4]
        /\ parsed.accounts.nullifier3 = instruction.accounts[5]
        /\ parsed.accounts.treeTokenAccount = instruction.accounts[6]
        /\ parsed.accounts.globalConfig = instruction.accounts[7]
        /\ parsed.accounts.recipient = instruction.accounts[8]
        /\ parsed.accounts.feeRecipient = instruction.accounts[9]
    BY <1>3 DEF ParseTransactInstruction
  <1>6. /\ read.proof.proofA = args.proof.proofA
        /\ read.proof.root = args.proof.root
        /\ read.proof.publicAmount = args.proof.publicAmount
        /\ read.proof.extDataHash = args.proof.extDataHash
        /\ read.proof.inputNullifiers = <<args.proof.inputNullifiers[1],
                                          args.proof.inputNullifiers[2]>>
        /\ read.proof.outputCommitments = <<args.proof.outputCommitments[1],
                                            args.proof.outputCommitments[2]>>
        /\ read.extData = [amount |-> args.extData.amount, fee |-> args.extData.fee]
        /\ read.encryptedOutput1 = args.encryptedOutput1
        /\ read.encryptedOutput2 = args.encryptedOutput2
    <2>1. read = [discriminator |-> "transact",
            proof |-> [proofA |-> args.proof.proofA, proofB |-> args.proof.proofB,
                       proofC |-> args.proof.proofC, root |-> args.proof.root,
                       publicAmount |-> args.proof.publicAmount,
                       extDataHash |-> args.proof.extDataHash,
                       inputNullifiers |-> <<args.proof.inputNullifiers[1],
                                             args.proof.inputNullifiers[2]>>,
                       outputCommitments |-> <<args.proof.outputCommitments[1],
                                               args.proof.outputCommitments[2]>>],
            extData |-> [amount |-> args.extData.amount, fee |-> args.extData.fee],
            encryptedOutput1 |-> args.encryptedOutput1,
            encryptedOutput2 |-> args.encryptedOutput2]
      BY InstructionsSayWhatWasWritten
    <2> HIDE DEF read
    <2> QED
      BY <2>1
  <1> HIDE DEF parsed, read, data
  <1> QED
    BY <1>2, <1>3, <1>4, <1>5, <1>6 DEF parsed, read, data, instruction, IsBuiltFrom

LEMMA LastOfTwo ==
  ASSUME NEW a, NEW b
  PROVE  Last(<<a>> \o <<b>>) = b
  <1> DEFINE S == {a, b}
             both == <<a>> \o <<b>>
  <1>1. <<a>> \in Seq(S) /\ <<b>> \in Seq(S) /\ Len(<<a>>) = 1 /\ Len(<<b>>) = 1
        /\ <<b>>[1] = b
    OBVIOUS
  <1>2. both \in Seq(S) /\ IsJoined(both, <<a>>, 1, <<b>>, 1)
    BY <1>1, Joined
  <1> HIDE DEF both
  <1>3. Len(both) = 2 /\ both[2] = b
    <2>1. 1 \in 1 .. 1 /\ 1 + 1 = 2
      OBVIOUS
    <2> QED
      BY <1>1, <1>2, <2>1 DEF IsJoined
  <1> QED
    BY <1>3 DEF Last, both

(* An instruction of the pool that says what was prepared. *)
IsInstructionOf(instruction, tx) ==
  LET parsed == ParseTransactInstruction(instruction)
      data == parsed.data
      account == parsed.accounts
      material == tx.material
      proof == material.proof
  IN  /\ instruction.programAddress = "pool"
      /\ ReadFields(instruction.data, <<8>>)[1] = "transact"
      /\ account.treeAccount = TreeAccountPda("pool")
      /\ account.treeTokenAccount = TreeTokenAccountPda("pool")
      /\ account.globalConfig = GlobalConfigPda("pool")
      /\ account.nullifier0 = material.nullifiers[1]
      /\ account.nullifier1 = material.nullifiers[2]
      /\ account.nullifier2 = material.nullifiers[3]
      /\ account.nullifier3 = material.nullifiers[4]
      /\ account.recipient = tx.recipient
      /\ account.feeRecipient = "treasury"
      /\ data.proof.proofA = proof.proofA
      /\ data.proof.root = proof.root
      /\ data.proof.publicAmount = proof.publicAmount
      /\ data.proof.extDataHash = proof.extDataHash
      /\ data.proof.inputNullifiers = <<proof.inputNullifiers[1], proof.inputNullifiers[2]>>
      /\ data.proof.outputCommitments =
           <<proof.outputCommitments[1], proof.outputCommitments[2]>>
      /\ data.extData = [amount |-> material.extData.amount, fee |-> material.extData.fee]
      /\ data.encryptedOutput1 = material.encryptedOutput1
      /\ data.encryptedOutput2 = material.encryptedOutput2

LEMMA InstructionOf ==
  ASSUME NEW input, NEW tx,
         input.recipient = tx.recipient, input.feeRecipient = "treasury",
         input.nullifiers = tx.material.nullifiers,
         input.proof.proofA = tx.material.proof.proofA,
         input.proof.root = tx.material.proof.root,
         input.proof.publicAmount = tx.material.proof.publicAmount,
         input.proof.extDataHash = tx.material.proof.extDataHash,
         input.proof.inputNullifiers[1] = tx.material.proof.inputNullifiers[1],
         input.proof.inputNullifiers[2] = tx.material.proof.inputNullifiers[2],
         input.proof.outputCommitments[1] = tx.material.proof.outputCommitments[1],
         input.proof.outputCommitments[2] = tx.material.proof.outputCommitments[2],
         input.extData = tx.material.extData,
         input.encryptedOutput1 = tx.material.encryptedOutput1,
         input.encryptedOutput2 = tx.material.encryptedOutput2
  PROVE  IsInstructionOf(BuildTransactInstruction(input, "pool"), tx)
  <1> DEFINE instruction == BuildTransactInstruction(input, "pool")
  <1>1. IsBuiltFrom(instruction, input, "pool")
    BY BuiltInstruction
  <1> HIDE DEF instruction
  <1>2. IsInstructionOf(instruction, tx)
    BY <1>1 DEF IsInstructionOf, IsBuiltFrom
  <1> QED
    BY <1>2 DEF instruction

(* Whether it is relayed or signed by the wallet. *)
LEMMA SentInstruction ==
  ASSUME NEW tx, tx.kind = "deposit" => tx.recipient = tx.owner,
         NEW message \in Sent(tx)
  PROVE  IsInstructionOf(Last(message), tx)
  <1> DEFINE m == tx.material
             signed == [signer |-> "me", recipient |-> tx.recipient,
                        feeRecipient |-> "treasury",
                        nullifiers |-> m.nullifiers, proof |-> m.proof,
                        extData |-> m.extData,
                        encryptedOutput1 |-> m.encryptedOutput1,
                        encryptedOutput2 |-> m.encryptedOutput2]
             request == RequestOf(tx)
             values == [i \in DOMAIN request.proof |-> request.proof[i].value]
             relayed == [signer |-> "relayer", recipient |-> request.recipient,
                         feeRecipient |-> "treasury", nullifiers |-> request.nullifiers,
                         proof |-> ProofOfFields(values),
                         extData |-> request.extData,
                         encryptedOutput1 |-> request.encryptedOutput1.value,
                         encryptedOutput2 |-> request.encryptedOutput2.value]
  <1>1. \/ Last(message) = BuildTransactInstruction(signed, "pool")
        \/ Last(message) = BuildTransactInstruction(relayed, "pool")
    <2> DEFINE limit(units) == [programAddress |-> "compute_budget", accounts |-> <<>>,
                                data |-> <<Bytes(1, "SetComputeUnitLimit"),
                                           Bytes(4, units)>>]
    <2>1. \A units : BaseTransactionMessage(units) = <<limit(units)>>
      BY DEF BaseTransactionMessage
    <2> HIDE DEF limit
    <2>2. CASE tx.kind = "deposit"
      <3>1. message \in PrepareDepositMessage("me", tx, "treasury", "pool")
        BY <2>2 DEF Sent
      <3>2. message = <<limit(DefaultComputeUnits)>>
                        \o <<SignedInstruction("me", tx.owner, "treasury", m, "pool")>>
        BY <2>1, <3>1 DEF PrepareDepositMessage
      <3>3. Last(message) = SignedInstruction("me", tx.owner, "treasury", m, "pool")
        BY <3>2, LastOfTwo
      <3>4. tx.recipient = tx.owner
        BY <2>2
      <3> QED
        BY <3>3, <3>4 DEF SignedInstruction
    <2>3. CASE message \in PrepareTransferMessage("me", tx, "treasury", "pool")
      <3>1. message = <<limit(DefaultComputeUnits)>>
                        \o <<SignedInstruction("me", tx.recipient, "treasury", m, "pool")>>
        BY <2>1, <2>3 DEF PrepareTransferMessage
      <3>2. Last(message) = SignedInstruction("me", tx.recipient, "treasury", m, "pool")
        BY <3>1, LastOfTwo
      <3> QED
        BY <3>2 DEF SignedInstruction
    <2>4. CASE message = BuildTransactionMessage(request, "pool", "treasury")
      <3>1. message = <<limit(RelayerComputeUnits)>>
                        \o <<RelayedInstruction(request, "pool", "treasury")>>
        BY <2>1, <2>4 DEF BuildTransactionMessage
      <3>2. Last(message) = RelayedInstruction(request, "pool", "treasury")
        BY <3>1, LastOfTwo
      <3> QED
        BY <3>2 DEF RelayedInstruction
    <2> QED
      BY <2>2, <2>3, <2>4 DEF Sent
  <1>2. /\ request.recipient = tx.recipient /\ request.nullifiers = m.nullifiers
        /\ request.proof = EncodeProof(m.proof) /\ request.extData = m.extData
        /\ request.encryptedOutput1.value = m.encryptedOutput1
        /\ request.encryptedOutput2.value = m.encryptedOutput2
    BY DEF RequestOf, RelayTransferRequest, Bytes
  <1> HIDE DEF request
  <1>3. /\ values[1] = m.proof.proofA /\ values[4] = m.proof.root
        /\ values[5] = m.proof.publicAmount /\ values[6] = m.proof.extDataHash
        /\ values[7] = m.proof.inputNullifiers[1]
        /\ values[8] = m.proof.inputNullifiers[2]
        /\ values[9] = m.proof.outputCommitments[1]
        /\ values[10] = m.proof.outputCommitments[2]
    <2> DEFINE p == m.proof
               written == <<p.proofA, p.proofB, p.proofC, p.root,
                  p.publicAmount, p.extDataHash,
                  p.inputNullifiers[1], p.inputNullifiers[2],
                  p.outputCommitments[1], p.outputCommitments[2]>>
    <2>1. EncodeProof(p) = [i \in 1 .. 10 |-> Bytes(ProofSizes[i], written[i])]
      BY DEF EncodeProof
    <2>2. /\ written[1] = p.proofA /\ written[4] = p.root
          /\ written[5] = p.publicAmount /\ written[6] = p.extDataHash
          /\ written[7] = p.inputNullifiers[1]
          /\ written[8] = p.inputNullifiers[2]
          /\ written[9] = p.outputCommitments[1]
          /\ written[10] = p.outputCommitments[2]
      OBVIOUS
    <2> HIDE DEF p, written
    <2>3. \A i \in 1 .. 10 : values[i] = written[i]
      BY <1>2, <2>1 DEF Bytes, p
    <2> QED
      BY <2>2, <2>3 DEF p
  <1> HIDE DEF values
  <1>4. IsInstructionOf(BuildTransactInstruction(relayed, "pool"), tx)
    <2> DEFINE p == ProofOfFields(values)
    <2>1. /\ p.proofA = m.proof.proofA /\ p.root = m.proof.root
          /\ p.publicAmount = m.proof.publicAmount /\ p.extDataHash = m.proof.extDataHash
          /\ p.inputNullifiers[1] = m.proof.inputNullifiers[1]
          /\ p.inputNullifiers[2] = m.proof.inputNullifiers[2]
          /\ p.outputCommitments[1] = m.proof.outputCommitments[1]
          /\ p.outputCommitments[2] = m.proof.outputCommitments[2]
      BY <1>3 DEF ProofOfFields
    <2> HIDE DEF p
    <2>2. /\ relayed.recipient = tx.recipient /\ relayed.feeRecipient = "treasury"
          /\ relayed.nullifiers = m.nullifiers /\ relayed.proof = p
          /\ relayed.extData = m.extData
          /\ relayed.encryptedOutput1 = m.encryptedOutput1
          /\ relayed.encryptedOutput2 = m.encryptedOutput2
      BY <1>2 DEF p
    <2> HIDE DEF relayed, m
    <2> QED
      BY <2>1, <2>2, InstructionOf DEF m
  <1>5. IsInstructionOf(BuildTransactInstruction(signed, "pool"), tx)
    <2>1. /\ signed.recipient = tx.recipient /\ signed.feeRecipient = "treasury"
          /\ signed.nullifiers = m.nullifiers /\ signed.proof = m.proof
          /\ signed.extData = m.extData
          /\ signed.encryptedOutput1 = m.encryptedOutput1
          /\ signed.encryptedOutput2 = m.encryptedOutput2
      OBVIOUS
    <2> HIDE DEF signed, m
    <2> QED
      BY <2>1, InstructionOf DEF m
  <1> QED
    BY <1>1, <1>4, <1>5

(* Remainders. *)
LEMMA RemainderUnique ==
  ASSUME NEW F \in Nat \ {0}, NEW a \in Int, NEW b \in Int,
         NEW r \in 0 .. F - 1, NEW s \in 0 .. F - 1, F * a + r = F * b + s
  PROVE  r = s
  <1> DEFINE d == a - b
  <1>1. d \in Int /\ F * d = s - r
    <2>1. F * (a - b) = F * a - F * b
      OBVIOUS
    <2>2. F * a \in Int /\ F * b \in Int /\ r \in Int /\ s \in Int
      OBVIOUS
    <2> DEFINE fa == F * a
               fb == F * b
    <2>3. fa - fb = s - r
      <3>1. fa \in Int /\ fb \in Int /\ fa + r = fb + s
        BY <2>2
      <3> HIDE DEF fa, fb
      <3> QED
        BY <2>2, <3>1
    <2> QED
      BY <2>1, <2>3
  <1> HIDE DEF d
  <1>2. CASE d = 0
    BY <1>1, <1>2
  <1>3. CASE d >= 1
    <2>1. F * d >= F
      BY <1>1, <1>3
    <2> QED
      BY <1>1, <2>1
  <1>4. CASE d <= -1
    <2>1. F * d <= -F
      BY <1>1, <1>4
    <2> QED
      BY <1>1, <2>1
  <1> QED
    BY <1>1, <1>2, <1>3, <1>4

(* A public amount that is the difference of two sums balances them.        *)
LEMMA RemaindersAdd ==
  ASSUME NEW F \in Nat \ {0}, NEW in \in Int, NEW out \in Int
  PROVE  (in + ((out - in) % F)) % F = out % F
  <1> DEFINE p == (out - in) % F
             q == (out - in) \div F
             x == in + p
             r == x % F
             a == x \div F
             s == out % F
             b == out \div F
  <1>1. p \in 0 .. F - 1 /\ q \in Int /\ out - in = F * q + p
    <2> DEFINE y == out - in
    <2>1. y \in Int
      OBVIOUS
    <2> HIDE DEF y
    <2>2. y % F \in 0 .. F - 1 /\ y \div F \in Int /\ y = F * (y \div F) + (y % F)
      BY <2>1
    <2> QED
      BY <2>2 DEF y
  <1>2. s \in 0 .. F - 1 /\ b \in Int /\ out = F * b + s
    OBVIOUS
  <1> HIDE DEF p, q
  <1>3. x \in Int
    BY <1>1
  <1> HIDE DEF x
  <1>4. r \in 0 .. F - 1 /\ a \in Int /\ x = F * a + r
    BY <1>3
  <1> HIDE DEF r, a, s, b
  <1>5. F * (a + q) + r = F * b + s
    <2>1. F * (a + q) = F * a + F * q
      BY <1>1, <1>4
    <2> DEFINE fa == F * a
               fq == F * q
               fb == F * b
    <2>2. fa \in Int /\ fq \in Int /\ fb \in Int
      BY <1>1, <1>2, <1>4
    <2>3. x = fa + r /\ out = fb + s /\ out - in = fq + p /\ x = in + p
      BY <1>1, <1>2, <1>4 DEF x
    <2> HIDE DEF fa, fq, fb
    <2>4. fa + fq + r = fb + s
      <3>1. r \in Int /\ s \in Int /\ p \in Int
        BY <1>1, <1>2, <1>4
      <3> QED
        BY <1>3, <2>2, <2>3, <3>1
    <2> QED
      BY <2>1, <2>4 DEF fa, fq, fb
  <1>6. a + q \in Int
    BY <1>1, <1>4
  <1>7. r = s
    BY <1>2, <1>4, <1>5, <1>6, RemainderUnique
  <1> QED
    BY <1>7 DEF r, s, x, p

-------------------------------------------------------------------------------
(* An instruction that passes.                                              *)

Mine == UtxoPublicKey(UtxoPrivateKey(Key))

(* What the material of a proof holds beside its signals. *)
IsTied(material, recipient) ==
  LET proof == material.proof
  IN  /\ material.nullifiers = DeriveNullifierAccounts(proof.inputNullifiers)
      /\ proof.publicAmount = EncodePublicAmount(material.extData, FieldSize)
      /\ proof.extDataHash =
           HashExtData(recipient, material.extData,
                       <<material.encryptedOutput1, material.encryptedOutput2>>,
                       "treasury")
      /\ Verifies(proof, FieldSize)

(* An instruction that says it is one the program accepts, but for a root   *)
(* it has forgotten, a nullifier that is used and a full tree.              *)
LEMMA WellFormed ==
  ASSUME NEW tx, IsTied(tx.material, tx.recipient),
         NEW instruction, IsInstructionOf(instruction, tx)
  PROVE  IsWellFormed(instruction, "pool", FieldSize)
  <1> DEFINE transact == ParseTransactInstruction(instruction)
             data == transact.data
             account == transact.accounts
             material == tx.material
             proof == material.proof
             parsed == [kind |-> "transact", programAddress |-> transact.programAddress,
                        accounts |-> account, data |-> data]
  <1>1. IdentifyInstruction(instruction, "pool") = "transact"
    BY DEF IsInstructionOf, IdentifyInstruction, IdentifyZkcashInstruction
  <1>2. parsed \in ParseInstruction(instruction, "pool")
    BY <1>1 DEF ParseInstruction
  <1>3. /\ parsed.kind = "transact" /\ parsed.accounts = account /\ parsed.data = data
    OBVIOUS
  <1> HIDE DEF parsed
  <1>4. /\ account.treeAccount = TreeAccountPda("pool")
        /\ account.treeTokenAccount = TreeTokenAccountPda("pool")
        /\ account.globalConfig = GlobalConfigPda("pool")
        /\ account.nullifier0 = material.nullifiers[1]
        /\ account.nullifier1 = material.nullifiers[2]
        /\ account.nullifier2 = material.nullifiers[3]
        /\ account.nullifier3 = material.nullifiers[4]
        /\ account.recipient = tx.recipient /\ account.feeRecipient = "treasury"
        /\ data.proof.proofA = proof.proofA /\ data.proof.root = proof.root
        /\ data.proof.publicAmount = proof.publicAmount
        /\ data.proof.extDataHash = proof.extDataHash
        /\ data.proof.inputNullifiers = <<proof.inputNullifiers[1], proof.inputNullifiers[2]>>
        /\ data.proof.outputCommitments =
             <<proof.outputCommitments[1], proof.outputCommitments[2]>>
        /\ data.extData = [amount |-> material.extData.amount, fee |-> material.extData.fee]
        /\ data.encryptedOutput1 = material.encryptedOutput1
        /\ data.encryptedOutput2 = material.encryptedOutput2
    BY DEF IsInstructionOf
  <1>5. NullifierAccountsOf(instruction) = DeriveNullifierAccounts(data.proof.inputNullifiers)
    <2>1. NullifierAccountsOf(instruction) =
            <<material.nullifiers[1], material.nullifiers[2], material.nullifiers[3],
              material.nullifiers[4]>>
      BY <1>4 DEF NullifierAccountsOf
    <2>2. material.nullifiers = DeriveNullifierAccounts(proof.inputNullifiers)
      BY DEF IsTied
    <2> DEFINE in == proof.inputNullifiers
    <2>3. data.proof.inputNullifiers[1] = in[1] /\ data.proof.inputNullifiers[2] = in[2]
      BY <1>4
    <2> HIDE DEF data, in, material
    <2> QED
      BY <2>1, <2>2, <2>3 DEF DeriveNullifierAccounts, in
  <1> HIDE DEF data, account
  <1>6. data.proof.publicAmount = EncodePublicAmount(data.extData, FieldSize)
    BY <1>4 DEF IsTied, EncodePublicAmount
  <1>7. data.proof.extDataHash =
          HashExtData(account.recipient, data.extData,
                      <<data.encryptedOutput1, data.encryptedOutput2>>,
                      account.feeRecipient)
    BY <1>4 DEF IsTied, HashExtData
  <1>8. Verifies(data.proof, FieldSize)
    <2>1. Proven(data.proof) = Proven(proof)
      BY <1>4 DEF Proven
    <2>2. PublicSignals(data.proof) = PublicSignals(proof)
      BY <1>4 DEF PublicSignals
    <2>3. Verifies(proof, FieldSize)
      BY DEF IsTied
    <2> QED
      BY <2>1, <2>2, <2>3 DEF Verifies
  <1> QED
    BY <1>2, <1>3, <1>4, <1>5, <1>6, <1>7, <1>8 DEF IsWellFormed, data, account

(* An output as the material of a proof holds it. *)
OutputOf(material, o) ==
  LET signals == Proven(material.proof)
  IN  [amount |-> signals.outAmount[o], publicKey |-> signals.outPubkey[o],
       blinding |-> signals.outBlinding[o],
       commitment |-> material.proof.outputCommitments[o],
       encrypted |-> IF o = 1 THEN material.encryptedOutput1
                              ELSE material.encryptedOutput2]

LEMMA CallIs ==
  ASSUME NEW tx, NEW instruction, IsInstructionOf(instruction, tx)
  PROVE  LET call == CallOf(instruction)
             proof == tx.material.proof
         IN  /\ call.nullifiers = <<proof.inputNullifiers[1], proof.inputNullifiers[2]>>
             /\ call.outputs = <<OutputOf(tx.material, 1), OutputOf(tx.material, 2)>>
             /\ call.ext = [amount |-> tx.material.extData.amount,
                            fee |-> tx.material.extData.fee]
  <1> DEFINE data == ParseTransactInstruction(instruction).data
             material == tx.material
             proof == material.proof
             call == CallOf(instruction)
             signals == Proven(proof)
             Output(o, encrypted) ==
               [amount |-> signals.outAmount[o], publicKey |-> signals.outPubkey[o],
                blinding |-> signals.outBlinding[o],
                commitment |-> data.proof.outputCommitments[o], encrypted |-> encrypted]
  <1>1. /\ data.proof.proofA = proof.proofA
        /\ data.proof.inputNullifiers = <<proof.inputNullifiers[1], proof.inputNullifiers[2]>>
        /\ data.proof.outputCommitments =
             <<proof.outputCommitments[1], proof.outputCommitments[2]>>
        /\ data.extData = [amount |-> material.extData.amount, fee |-> material.extData.fee]
        /\ data.encryptedOutput1 = material.encryptedOutput1
        /\ data.encryptedOutput2 = material.encryptedOutput2
    BY DEF IsInstructionOf
  <1>2. Proven(data.proof) = signals
    BY <1>1 DEF Proven
  <1>3. call = [nullifiers |-> data.proof.inputNullifiers,
                outputs |-> <<Output(1, data.encryptedOutput1),
                              Output(2, data.encryptedOutput2)>>,
                ext |-> data.extData]
    BY <1>2 DEF CallOf
  <1> HIDE DEF call, data, signals
  <1>4. /\ Output(1, data.encryptedOutput1) = OutputOf(material, 1)
        /\ Output(2, data.encryptedOutput2) = OutputOf(material, 2)
    BY <1>1 DEF OutputOf, signals
  <1> HIDE DEF Output
  <1> QED
    BY <1>1, <1>3, <1>4 DEF call

(* An output as its creator made it: its commitment, and what its owner     *)
(* reads.                                                                   *)
OutputOK(output) ==
  /\ output.amount \in Nat
  /\ output.commitment = CommitmentOf(output.amount, output.publicKey, output.blinding)
  /\ output.publicKey = UtxoPublicKey(UtxoPrivateKey(output.encrypted.key))
  /\ output.encrypted.version \in {"v2", "v3"}
  /\ output.encrypted.payload.amount = output.amount
  /\ output.encrypted.payload.blinding = output.blinding
  /\ output.encrypted.payload.mint = NativeToken

AreCreated(outs, key, amount, randoms) ==
  /\ \A o \in 1 .. 2 : /\ OutputOK(outs[o]) /\ outs[o].encrypted.key = key
                       /\ outs[o].blinding = randoms[o]
  /\ outs[1].amount = amount /\ outs[2].amount = 0

LEMMA CreatedOutputs ==
  ASSUME NEW key, NEW amount \in Nat, NEW nextIndex, NEW randoms
  PROVE  AreCreated(CreateOutputs(key, UtxoPublicKey(UtxoPrivateKey(key)), amount,
                                  nextIndex, randoms),
                    key, amount, randoms)
  <1> DEFINE publicKey == UtxoPublicKey(UtxoPrivateKey(key))
             Encrypted(kept, turn) == EncryptOutput("v3", key, kept, randoms[turn],
                                                    nextIndex + turn - 1)
             Output(kept, turn) ==
               [amount |-> kept, publicKey |-> publicKey, blinding |-> randoms[turn],
                commitment |-> CommitmentOf(kept, publicKey, randoms[turn]),
                encrypted |-> Encrypted(kept, turn)]
             outs == CreateOutputs(key, publicKey, amount, nextIndex, randoms)
  <1>1. outs[1] = Output(amount, 1) /\ outs[2] = Output(0, 2)
    BY DEF CreateOutputs
  <1>2. ASSUME NEW kept \in Nat, NEW turn
        PROVE  /\ OutputOK(Output(kept, turn))
               /\ Output(kept, turn).encrypted.key = key
               /\ Output(kept, turn).blinding = randoms[turn]
               /\ Output(kept, turn).amount = kept
    <2>1. /\ Encrypted(kept, turn).version = "v3" /\ Encrypted(kept, turn).key = key
          /\ Encrypted(kept, turn).payload.amount = kept
          /\ Encrypted(kept, turn).payload.blinding = randoms[turn]
          /\ Encrypted(kept, turn).payload.mint = NativeToken
      BY DEF EncryptOutput, EncodePayload
    <2> DEFINE output == Output(kept, turn)
    <2>2. /\ output.amount = kept /\ output.publicKey = publicKey
          /\ output.blinding = randoms[turn]
          /\ output.commitment = CommitmentOf(kept, publicKey, randoms[turn])
          /\ output.encrypted = Encrypted(kept, turn)
      OBVIOUS
    <2> HIDE DEF output, Encrypted
    <2>3. OutputOK(output)
      BY <2>1, <2>2 DEF OutputOK
    <2> QED
      BY <2>1, <2>2, <2>3 DEF output
  <1> HIDE DEF Output, outs
  <1> QED
    BY <1>1, <1>2 DEF AreCreated, outs

(* An input slot that satisfies its part of the circuit under a root. *)
SlotOK(slot, root) ==
  LET commitment == CommitmentOf(slot.amount, UtxoPublicKey(slot.privateKey),
                                 slot.blinding)
  IN  /\ slot.amount \in Nat /\ slot.pathIndex \in Nat /\ DOMAIN slot.path = 1 .. Height
      /\ slot.nullifier = NullifierOf(slot.privateKey, commitment, slot.pathIndex)
      /\ \/ slot.amount = 0
         \/ Fold(Leaf(commitment), slot.pathIndex, slot.path) = root

LEMMA DummySlotOK ==
  ASSUME NEW random, NEW root
  PROVE  SlotOK(CreateDummyInputSlot(Height, random), root)
  <1> DEFINE slot == CreateDummyInputSlot(Height, random)
  <1>1. /\ slot.amount = 0 /\ slot.privateKey = random /\ slot.blinding = random
        /\ slot.pathIndex = 0 /\ DOMAIN slot.path = 1 .. Height
        /\ slot.nullifier = NullifierOf(random,
                              CommitmentOf(0, UtxoPublicKey(random), random), 0)
    BY DEF CreateDummyInputSlot
  <1> HIDE DEF slot
  <1>2. SlotOK(slot, root)
    BY <1>1 DEF SlotOK
  <1> QED
    BY <1>2 DEF slot

(* A note with a path that leads from its leaf to a root. *)
ProvedNote(note, root) ==
  LET commitment == CommitmentOf(note.amount, Mine, note.blinding)
  IN  /\ IsCircuitInputNote(note, Height)
      /\ note.privateKey = UtxoPrivateKey(Key) /\ note.publicKey = Mine
      /\ note.nullifier = NullifierOf(UtxoPrivateKey(Key), commitment, note.index)
      /\ Fold(Leaf(commitment), note.index, note.path) = root

LEMMA NoteSlotOK ==
  ASSUME NEW note, NEW root, ProvedNote(note, root)
  PROVE  /\ SlotOK(CreateInputSlot(note), root)
         /\ CreateInputSlot(note).nullifier = note.nullifier
  <1> DEFINE slot == CreateInputSlot(note)
  <1>1. /\ slot.amount = note.amount /\ slot.privateKey = note.privateKey
        /\ slot.blinding = note.blinding /\ slot.nullifier = note.nullifier
        /\ slot.pathIndex = note.index /\ slot.path = note.path
    BY DEF CreateInputSlot
  <1> HIDE DEF slot
  <1>2. /\ note.amount \in Nat /\ note.index \in Nat /\ DOMAIN note.path = 1 .. Height
        /\ note.privateKey = UtxoPrivateKey(Key)
        /\ UtxoPublicKey(note.privateKey) = Mine
        /\ note.nullifier = NullifierOf(note.privateKey,
                              CommitmentOf(note.amount, Mine, note.blinding), note.index)
        /\ Fold(Leaf(CommitmentOf(note.amount, Mine, note.blinding)), note.index,
                note.path) = root
    BY DEF ProvedNote, IsCircuitInputNote, PositiveLamports, Mine
  <1>3. SlotOK(slot, root)
    BY <1>1, <1>2 DEF SlotOK
  <1> QED
    BY <1>1, <1>3 DEF slot

MaterialOK(material, recipient) ==
  /\ IsProofMaterial(material)
  /\ AreCircuitSignals(Proven(material.proof), Height)
  /\ DOMAIN Proven(material.proof).outBlinding = 1 .. 2
  /\ IsTied(material, recipient)
  /\ \A o \in 1 .. 2 : /\ OutputOK(OutputOf(material, o))
                       /\ OutputOf(material, o).encrypted.key = Key

OutputsAre(material, outs) ==
  \A o \in 1 .. 2 :
    /\ OutputOf(material, o).amount = outs[o].amount
    /\ OutputOf(material, o).blinding = outs[o].blinding
    /\ Proven(material.proof).outBlinding[o] = outs[o].blinding

LEMMA MaterialShape ==
  ASSUME NEW root, NEW slots, NEW outs, NEW ext, NEW recipient, NEW material,
         IsMaterialOf(material, root, slots, outs, ext, recipient),
         ext.amount \in Int, ext.fee \in Nat
  PROVE  IsProofMaterial(material)
  <1>1. /\ DOMAIN material = {"nullifiers", "proof", "extData", "encryptedOutput1",
                              "encryptedOutput2"}
        /\ DOMAIN material.proof =
             {"proofA", "proofB", "proofC", "root", "publicAmount",
              "extDataHash", "inputNullifiers", "outputCommitments"}
        /\ material.nullifiers =
             DeriveNullifierAccounts(<<slots[1].nullifier, slots[2].nullifier>>)
        /\ material.proof.inputNullifiers = <<slots[1].nullifier, slots[2].nullifier>>
        /\ material.proof.outputCommitments = <<outs[1].commitment, outs[2].commitment>>
        /\ material.extData = ext
    BY DEF IsMaterialOf
  <1>2. /\ HasFields(material, {"nullifiers", "proof", "extData", "encryptedOutput1",
                                "encryptedOutput2"})
        /\ HasFields(material.proof,
                     {"proofA", "proofB", "proofC", "root", "publicAmount",
                      "extDataHash", "inputNullifiers", "outputCommitments"})
    BY <1>1 DEF HasFields
  <1>3. Len(material.nullifiers) = 4
    BY <1>1 DEF DeriveNullifierAccounts
  <1>4. Len(material.proof.inputNullifiers) = 2 /\ Len(material.proof.outputCommitments) = 2
    BY <1>1
  <1>5. material.extData.amount \in Int /\ material.extData.fee \in Nat
    BY <1>1
  <1> QED
    BY <1>2, <1>3, <1>4, <1>5, Zenon DEF IsProofMaterial

LEMMA MaterialIsOK ==
  ASSUME NEW root, NEW slots, NEW outs, NEW ext, NEW recipient, NEW material,
         IsMaterialOf(material, root, slots, outs, ext, recipient),
         SlotOK(slots[1], root), SlotOK(slots[2], root),
         slots[1].nullifier # slots[2].nullifier,
         OutputOK(outs[1]), OutputOK(outs[2]),
         outs[1].encrypted.key = Key, outs[2].encrypted.key = Key,
         ext.amount \in Int, ext.fee \in Nat,
         AmountsBalance(Proven(material.proof), FieldSize)
  PROVE  MaterialOK(material, recipient) /\ OutputsAre(material, outs)
  <1> DEFINE proof == material.proof
             signals == Proven(proof)
             amount == EncodePublicAmount(ext, FieldSize)
             hash == HashExtData(recipient, ext,
                                 <<outs[1].encrypted, outs[2].encrypted>>, "treasury")
             public == [root |-> root, publicAmount |-> amount, extDataHash |-> hash,
                        inputNullifiers |-> <<slots[1].nullifier, slots[2].nullifier>>,
                        outputCommitments |-> <<outs[1].commitment,
                                                outs[2].commitment>>]
  <1>1. /\ DOMAIN material = {"nullifiers", "proof", "extData", "encryptedOutput1",
                              "encryptedOutput2"}
        /\ DOMAIN proof = {"proofA", "proofB", "proofC", "root", "publicAmount",
                           "extDataHash", "inputNullifiers", "outputCommitments"}
        /\ signals = SnarkInput(public, slots, outs)
        /\ proof.root = root /\ proof.publicAmount = amount /\ proof.extDataHash = hash
        /\ proof.inputNullifiers = <<slots[1].nullifier, slots[2].nullifier>>
        /\ proof.outputCommitments = <<outs[1].commitment, outs[2].commitment>>
        /\ material.nullifiers =
             DeriveNullifierAccounts(<<slots[1].nullifier, slots[2].nullifier>>)
        /\ material.extData = ext
        /\ material.encryptedOutput1 = outs[1].encrypted
        /\ material.encryptedOutput2 = outs[2].encrypted
    BY DEF IsMaterialOf
  <1> HIDE DEF amount, hash, signals
  <1>2. /\ signals.root = root /\ signals.publicAmount = amount
        /\ signals.extDataHash = hash
        /\ \A s \in 1 .. 2 :
             /\ signals.inputNullifier[s] = slots[s].nullifier
             /\ signals.inAmount[s] = slots[s].amount
             /\ signals.inPrivateKey[s] = slots[s].privateKey
             /\ signals.inBlinding[s] = slots[s].blinding
             /\ signals.inPathIndices[s] = slots[s].pathIndex
             /\ signals.inPathElements[s] = slots[s].path
        /\ DOMAIN signals.outBlinding = 1 .. 2
        /\ \A o \in 1 .. 2 :
             /\ signals.outputCommitment[o] = outs[o].commitment
             /\ signals.outAmount[o] = outs[o].amount
             /\ signals.outPubkey[o] = outs[o].publicKey
             /\ signals.outBlinding[o] = outs[o].blinding
    <2>1. public.root = root /\ public.publicAmount = amount /\ public.extDataHash = hash
      OBVIOUS
    <2> HIDE DEF public
    <2>2. signals = SnarkInput(public, slots, outs)
      BY <1>1 DEF public
    <2>3. /\ signals.root = root /\ signals.publicAmount = amount
          /\ signals.extDataHash = hash
      BY <2>1, <2>2 DEF SnarkInput
    <2>4. /\ signals.inputNullifier = <<slots[1].nullifier, slots[2].nullifier>>
          /\ signals.inAmount = <<slots[1].amount, slots[2].amount>>
          /\ signals.inPrivateKey = <<slots[1].privateKey, slots[2].privateKey>>
          /\ signals.inBlinding = <<slots[1].blinding, slots[2].blinding>>
          /\ signals.inPathIndices = <<slots[1].pathIndex, slots[2].pathIndex>>
          /\ signals.inPathElements = <<slots[1].path, slots[2].path>>
      BY <2>2 DEF SnarkInput
    <2>5. /\ signals.outputCommitment = <<outs[1].commitment, outs[2].commitment>>
          /\ signals.outAmount = <<outs[1].amount, outs[2].amount>>
          /\ signals.outPubkey = <<outs[1].publicKey, outs[2].publicKey>>
          /\ signals.outBlinding = <<outs[1].blinding, outs[2].blinding>>
      BY <2>2 DEF SnarkInput
    <2>7. \A s \in 1 .. 2 : s = 1 \/ s = 2
      OBVIOUS
    <2>8. \A s \in 1 .. 2 :
             /\ signals.inputNullifier[s] = slots[s].nullifier
             /\ signals.inAmount[s] = slots[s].amount
             /\ signals.inPrivateKey[s] = slots[s].privateKey
             /\ signals.inBlinding[s] = slots[s].blinding
             /\ signals.inPathIndices[s] = slots[s].pathIndex
             /\ signals.inPathElements[s] = slots[s].path
      BY <2>4, <2>7
    <2>9. /\ DOMAIN signals.outBlinding = 1 .. 2
          /\ \A o \in 1 .. 2 :
             /\ signals.outputCommitment[o] = outs[o].commitment
             /\ signals.outAmount[o] = outs[o].amount
             /\ signals.outPubkey[o] = outs[o].publicKey
             /\ signals.outBlinding[o] = outs[o].blinding
      BY <2>5, <2>7
    <2> QED
      BY <2>3, <2>8, <2>9
  <1>3. /\ slots[1].amount \in Nat /\ slots[2].amount \in Nat
        /\ outs[1].amount \in Nat /\ outs[2].amount \in Nat
    BY DEF SlotOK, OutputOK
  <1>4. IsProofMaterial(material)
    BY MaterialShape
  <1>5. AreCircuitSignals(signals, Height)
    <2>1. ASSUME NEW s \in 1 .. 2
          PROVE  /\ slots[s].amount \in Nat /\ slots[s].pathIndex \in Nat
                 /\ DOMAIN slots[s].path = 1 .. Height /\ outs[s].amount \in Nat
      <3>1. SlotOK(slots[s], root) /\ OutputOK(outs[s])
        OBVIOUS
      <3> QED
        BY <3>1 DEF SlotOK, OutputOK
    <2> QED
      BY <1>2, <2>1 DEF AreCircuitSignals, Lamports
  <1>6. Verifies(proof, FieldSize)
    <2>1. ShownBy(signals) = PublicSignals(proof)
      <3>1. /\ signals.inputNullifier[1] = slots[1].nullifier
            /\ signals.inputNullifier[2] = slots[2].nullifier
            /\ signals.outputCommitment[1] = outs[1].commitment
            /\ signals.outputCommitment[2] = outs[2].commitment
        BY <1>2
      <3>2. /\ proof.inputNullifiers[1] = slots[1].nullifier
            /\ proof.inputNullifiers[2] = slots[2].nullifier
            /\ proof.outputCommitments[1] = outs[1].commitment
            /\ proof.outputCommitments[2] = outs[2].commitment
        BY <1>1
      <3>3. /\ signals.root = proof.root /\ signals.publicAmount = proof.publicAmount
            /\ signals.extDataHash = proof.extDataHash
        BY <1>1, <1>2
      <3> HIDE DEF proof
      <3> QED
        BY <3>1, <3>2, <3>3 DEF ShownBy, PublicSignals
    <2>2. ASSUME NEW s \in 1 .. 2
          PROVE  LET commitment == CommitmentOf(signals.inAmount[s],
                                      UtxoPublicKey(signals.inPrivateKey[s]),
                                      signals.inBlinding[s])
                 IN  /\ signals.inputNullifier[s] =
                          NullifierOf(signals.inPrivateKey[s], commitment,
                                      signals.inPathIndices[s])
                     /\ \/ signals.inAmount[s] = 0
                        \/ Fold(Leaf(commitment), signals.inPathIndices[s],
                                signals.inPathElements[s]) = signals.root
      <3>1. SlotOK(slots[s], root)
        OBVIOUS
      <3> QED
        BY <1>2, <3>1 DEF SlotOK
    <2>3. \A o \in 1 .. 2 :
            signals.outputCommitment[o] =
              CommitmentOf(signals.outAmount[o], signals.outPubkey[o],
                           signals.outBlinding[o])
      <3> SUFFICES ASSUME NEW o \in 1 .. 2
                   PROVE  signals.outputCommitment[o] =
                            CommitmentOf(signals.outAmount[o], signals.outPubkey[o],
                                         signals.outBlinding[o])
        OBVIOUS
      <3>1. OutputOK(outs[o])
        OBVIOUS
      <3> QED
        BY <1>2, <3>1 DEF OutputOK
    <2>4. signals.inputNullifier[1] # signals.inputNullifier[2]
      BY <1>2
    <2>5. ModField(signals.inAmount[1] + signals.inAmount[2] + signals.publicAmount,
                   FieldSize) =
            ModField(signals.outAmount[1] + signals.outAmount[2], FieldSize)
      <3> DEFINE in == slots[1].amount + slots[2].amount
                 out == outs[1].amount + outs[2].amount
      <3>1. in \in Int /\ out \in Int
        BY <1>3
      <3>2. signals.publicAmount = (out - in) % FieldSize
        <4> DEFINE i1 == slots[1].amount
                   i2 == slots[2].amount
                   o1 == outs[1].amount
                   o2 == outs[2].amount
        <4>1. /\ i1 \in Nat /\ i2 \in Nat /\ o1 \in Nat /\ o2 \in Nat
              /\ signals.inAmount[1] = i1 /\ signals.inAmount[2] = i2
              /\ signals.outAmount[1] = o1 /\ signals.outAmount[2] = o2
          BY <1>2, <1>3
        <4>2. AmountsBalance(signals, FieldSize)
          BY DEF signals
        <4> HIDE DEF i1, i2, o1, o2
        <4>3. o1 + o2 - (i1 + i2) = (o1 + o2) - (i1 + i2)
          BY <4>1
        <4>4. signals.publicAmount = ((o1 + o2) - (i1 + i2)) % FieldSize
          BY <4>1, <4>2, <4>3 DEF AmountsBalance, ModField
        <4> QED
          BY <4>4 DEF i1, i2, o1, o2
      <3>3. (in + ((out - in) % FieldSize)) % FieldSize = out % FieldSize
        <4> HIDE DEF in, out
        <4> QED
          BY <3>1, PoolAssumption, RemaindersAdd
      <3>4. signals.inAmount[1] + signals.inAmount[2] + signals.publicAmount
              = in + signals.publicAmount
        BY <1>2
      <3>5. signals.outAmount[1] + signals.outAmount[2] = out
        BY <1>2
      <3> HIDE DEF in, out
      <3> QED
        BY <3>2, <3>3, <3>4, <3>5 DEF ModField
    <2>6. Satisfied(signals, FieldSize)
      BY <2>2, <2>3, <2>4, <2>5 DEF Satisfied
    <2> QED
      BY <2>1, <2>6 DEF Verifies, signals
  <1>7. IsTied(material, recipient)
    BY <1>1, <1>6 DEF IsTied, amount, hash
  <1>8. ASSUME NEW o \in 1 .. 2
        PROVE  /\ OutputOK(OutputOf(material, o))
               /\ OutputOf(material, o).encrypted.key = Key
               /\ OutputOf(material, o).amount = outs[o].amount
               /\ OutputOf(material, o).blinding = outs[o].blinding
               /\ signals.outBlinding[o] = outs[o].blinding
    <2> DEFINE made == OutputOf(material, o)
    <2>1. /\ made.amount = outs[o].amount /\ made.publicKey = outs[o].publicKey
          /\ made.blinding = outs[o].blinding
          /\ made.commitment = outs[o].commitment
          /\ made.encrypted = outs[o].encrypted
      <3>1. proof.outputCommitments[o] = outs[o].commitment
        BY <1>1
      <3>2. (IF o = 1 THEN material.encryptedOutput1 ELSE material.encryptedOutput2)
              = outs[o].encrypted
        BY <1>1
      <3> QED
        BY <1>2, <3>1, <3>2 DEF OutputOf, signals
    <2>2. OutputOK(outs[o]) /\ outs[o].encrypted.key = Key
      OBVIOUS
    <2> HIDE DEF made
    <2>3. OutputOK(made)
      BY <2>1, <2>2 DEF OutputOK
    <2> QED
      BY <1>2, <2>1, <2>2, <2>3 DEF made
  <1> QED
    BY <1>2, <1>4, <1>5, <1>7, <1>8 DEF MaterialOK, OutputsAre, signals

-------------------------------------------------------------------------------
(* What a device holds at each stage.                                       *)

(* What a device holds at each stage. *)
SelectedNote(note) ==
  /\ IsSpendableNote(note)
  /\ note.privateKey = UtxoPrivateKey(Key) /\ note.publicKey = Mine
  /\ note.commitment = CommitmentOf(note.amount, Mine, note.blinding)

AreTwo(notes) == Len(notes) \in 1 .. 2 /\ DOMAIN notes = 1 .. Len(notes)

SelectionOK(notes) ==
  /\ AreTwo(notes)
  /\ \A i \in 1 .. Len(notes) : SelectedNote(notes[i])
  /\ Len(notes) = 2 => notes[1].commitment # notes[2].commitment

ProvedOK(notes, root) ==
  /\ AreTwo(notes)
  /\ \A i \in 1 .. Len(notes) : ProvedNote(notes[i], root)
  /\ Len(notes) = 2 => notes[1].nullifier # notes[2].nullifier

PreparedOK(tx) ==
  /\ HasFields(tx, {"kind", "owner", "recipient", "quote", "material"})
  /\ tx.kind \in {"deposit", "transfer"}
  /\ tx.kind = "deposit" =>
       tx.recipient = tx.owner /\ IsDepositQuote(tx.quote, DepositBps)
  /\ tx.kind = "transfer" => IsTransferQuote(tx.quote)
  /\ MaterialOK(tx.material, tx.recipient)

WorkOK(work) ==
  \/ work.stage = "idle"
  \/ work.stage = "scanned" /\ work.backup \in Nat /\ work.balance \in Nat
  \/ work.stage = "quoted" /\ work.backup \in Nat /\ IsTransferQuote(work.quote)
  \/ /\ work.stage = "selected" /\ IsTransferQuote(work.quote)
     /\ SelectionOK(work.notes)
  \/ /\ work.stage = "proved" /\ IsTransferQuote(work.quote)
     /\ IsMerkleState(work.state) /\ ProvedOK(work.notes, work.state.root)
  \/ work.stage = "prepared" /\ PreparedOK(work.tx)

(* The root it has been given is one the pool had. *)
RootOK(work) ==
  /\ work.stage = "proved" => WasRoot(work.state.root)
  /\ work.stage = "prepared" => WasRoot(work.tx.material.proof.root)

IsPrepared(d) == job[d].stage = "prepared"

Randoms(d) == Proven(job[d].tx.material.proof).outBlinding

Leaves == 1 .. 2 * Len(calls)

IsOurs(output) == output.encrypted.key = Key

(* Every leaf is as its creator made it. *)
LeavesOK == \A i \in Leaves : OutputOK(OnChain[i])

(* The wallet's leaves and what its devices have prepared have different    *)
(* random numbers.                                                          *)
LeavesDiffer ==
  \A i, j \in Leaves :
    IsOurs(OnChain[i]) /\ IsOurs(OnChain[j]) /\ OnChain[i].blinding = OnChain[j].blinding
    => i = j

AreFresh(pair) ==
  /\ pair[1] # pair[2]
  /\ \A o \in 1 .. 2 : \A i \in Leaves :
       IsOurs(OnChain[i]) => OnChain[i].blinding # pair[o]

AreApart(pair, other) == \A o, p \in 1 .. 2 : pair[o] # other[p]

RandomsDiffer ==
  /\ \A d \in Devices : IsPrepared(d) => AreFresh(Randoms(d))
  /\ \A d, e \in Devices :
       d # e /\ IsPrepared(d) /\ IsPrepared(e) => AreApart(Randoms(d), Randoms(e))

BoundsInv ==
  /\ Len(txs) <= MaxTxs /\ HasRoom(0)
  /\ \A t \in 1 .. Len(txs) : txs[t] \in Shapes \union {"initialize", "direct"}

WorkInv ==
  /\ job = [d \in Devices |-> job[d]]
  /\ \A d \in Devices : WorkOK(job[d]) /\ RootOK(job[d])

JobInv ==
  /\ TablesInv /\ BoundsInv /\ LeavesOK /\ LeavesDiffer /\ RandomsDiffer /\ WorkInv

-------------------------------------------------------------------------------
(* Quotes, notes and picks.                                                 *)

(* A quote passes its schema. *)
LEMMA QuoteOK ==
  ASSUME NEW recipient \in Payments, NEW funds \in Nat
  PROVE  IsTransferQuote(TransferQuote(recipient, funds, WithdrawBps, RentFee))
  <1> DEFINE gross == GrossWithdrawal(recipient, WithdrawBps, RentFee)
             quote == TransferQuote(recipient, funds, WithdrawBps, RentFee)
             fee == WithdrawalFee(gross, WithdrawBps, RentFee)
  <1>1. /\ recipient \in Nat \ {0} /\ WithdrawBps \in 0 .. Denominator - 1
        /\ RentFee \in Nat
    BY PoolAssumption
  <1>2. QuoteIsValid(quote)
    BY <1>1, QuotesAreValid
  <1>3. gross \in recipient .. ((recipient + RentFee + 1) * Denominator)
    BY <1>1, GrossExists DEF GrossWithdrawal
  <1>4. gross \in Nat \ {0}
    <2> DEFINE top == (recipient + RentFee + 1) * Denominator
    <2>1. top \in Nat
      BY <1>1, EnoughIsInBound
    <2> HIDE DEF gross, top
    <2> QED
      BY <1>1, <1>3, <2>1 DEF top
  <1>5. fee \in Nat
    <2> HIDE DEF gross
    <2>1. gross \in Nat /\ WithdrawBps \in Nat
      BY <1>1, <1>4 DEF Denominator
    <2>2. gross * WithdrawBps \in Nat
      BY <2>1
    <2> QED
      BY <1>1, <2>2 DEF WithdrawalFee, Denominator
  <1>6. quote = [recipient |-> recipient, balance |-> funds, gross |-> gross,
                 fee |-> fee, shield |-> Shortfall(gross, funds)]
    BY DEF TransferQuote
  <1>7. Shortfall(gross, funds) \in Nat
    BY <1>4 DEF Shortfall
  <1> HIDE DEF gross, quote, fee
  <1> QED
    BY <1>1, <1>2, <1>4, <1>5, <1>6, <1>7
       DEF IsTransferQuote, HasFields, Lamports, PositiveLamports, quote

LEMMA DepositQuoteOK ==
  ASSUME NEW lamports \in Deposits, CanDeposit(lamports, DepositBps)
  PROVE  /\ IsDepositQuote(DepositQuote(lamports, DepositBps), DepositBps)
         /\ DepositQuote(lamports, DepositBps).fee \in Nat
  <1> DEFINE fee == DepositFee(lamports, DepositBps)
             quote == DepositQuote(lamports, DepositBps)
  <1>1. lamports \in Nat /\ DepositBps \in Nat
    BY PoolAssumption DEF Denominator
  <1>2. fee \in Nat
    <2>1. lamports * DepositBps \in Nat
      BY <1>1
    <2> QED
      BY <2>1 DEF DepositFee, Denominator
  <1>3. fee < lamports
    BY DEF CanDeposit
  <1>4. quote = [deposit |-> lamports, fee |-> fee, output |-> lamports - fee]
    BY DEF DepositQuote
  <1> HIDE DEF quote
  <1>5. quote.fee = DepositFee(quote.deposit, DepositBps)
    BY <1>4
  <1> HIDE DEF fee
  <1>6. IsDepositQuote(quote, DepositBps)
    BY <1>1, <1>2, <1>3, <1>4, <1>5 DEF IsDepositQuote, HasFields, PositiveLamports
  <1> QED
    BY <1>2, <1>4, <1>6 DEF quote

(* The note that the wallet reads of its i-th leaf. *)
LeafNote(i) == CreateDecryptedOwnedNote(Key, OnChain[i].encrypted.payload, i - 1)

IsLeafNote(note, i) ==
  /\ i \in Leaves /\ IsOurs(OnChain[i]) /\ note = LeafNote(i)
  /\ SelectedNote(note)
  /\ note.index = i - 1 /\ note.amount = OnChain[i].amount
  /\ note.blinding = OnChain[i].blinding

LEMMA OwnedNote ==
  ASSUME TablesInv, LeavesOK, NEW backup, NEW note \in ListOwnedNotes(backup)
  PROVE  \E i \in Leaves : IsLeafNote(note, i)
  <1>1. note \in OwnedNotes(backup)
    BY DEF ListOwnedNotes
  <1>2. PICK row \in Rows : note \in DecryptOwnedNote(Key, row.encrypted, row.index)
    BY <1>1 DEF OwnedNotes
  <1>3. IsLeafRow(row)
    BY RowsOfTables
  <1> DEFINE i == row.index + 1
  <1>4. i \in Leaves /\ row.index = i - 1 /\ i \in Int
    <2>1. Len(calls) \in Nat
      BY DEF TablesInv, ChainInv
    <2> QED
      BY <1>3, <2>1 DEF IsLeafRow, Leaves
  <1>5. row.encrypted = OnChain[i].encrypted
    BY <1>3 DEF IsLeafRow
  <1> HIDE DEF i
  <1> DEFINE leaf == OnChain[i]
             payload == leaf.encrypted.payload
  <1>6. /\ Opens(Key, leaf.encrypted) /\ IsNote(payload)
        /\ note = CreateDecryptedOwnedNote(Key, payload, i - 1)
    BY <1>2, <1>4, <1>5 DEF DecryptOwnedNote
  <1>7. IsOurs(leaf) /\ note = LeafNote(i) /\ payload.amount > 0
    BY <1>6 DEF Opens, IsNote, LeafNote, IsOurs
  <1>8. OutputOK(leaf)
    BY <1>4 DEF LeavesOK
  <1> HIDE DEF leaf
  <1>9. /\ payload.amount = leaf.amount /\ payload.blinding = leaf.blinding
        /\ leaf.amount \in Nat
    BY <1>8 DEF OutputOK
  <1> HIDE DEF payload
  <1>10. note = [commitment |-> CommitmentOf(payload.amount, Mine, payload.blinding),
                 amount |-> payload.amount, index |-> i - 1,
                 blinding |-> payload.blinding,
                 privateKey |-> UtxoPrivateKey(Key), publicKey |-> Mine,
                 nullifier |-> NullifierOf(UtxoPrivateKey(Key),
                   CommitmentOf(payload.amount, Mine, payload.blinding), i - 1)]
    BY <1>6 DEF CreateDecryptedOwnedNote, Mine
  <1>11. /\ note.commitment = CommitmentOf(payload.amount, Mine, payload.blinding)
         /\ note.amount = payload.amount /\ note.index = i - 1
         /\ note.blinding = payload.blinding
         /\ note.privateKey = UtxoPrivateKey(Key) /\ note.publicKey = Mine
         /\ DOMAIN note = {"commitment", "amount", "index", "blinding", "privateKey",
                           "publicKey", "nullifier"}
    BY <1>10
  <1>12. note.index \in Nat
    BY <1>4, <1>11 DEF Leaves
  <1>13. SelectedNote(note)
    BY <1>7, <1>9, <1>11, <1>12
       DEF SelectedNote, IsSpendableNote, HasFields, PositiveLamports
  <1>14. /\ note.index = i - 1 /\ note.amount = OnChain[i].amount
         /\ note.blinding = OnChain[i].blinding
    BY <1>9, <1>11 DEF leaf
  <1>15. IsOurs(OnChain[i])
    BY <1>7 DEF leaf
  <1> QED
    BY <1>4, <1>7, <1>13, <1>14, <1>15 DEF IsLeafNote

(* Two notes of the wallet have two commitments. *)
LEMMA NotesDiffer ==
  ASSUME TablesInv, LeavesOK, LeavesDiffer, NEW backup,
         NEW note \in ListOwnedNotes(backup), NEW other \in ListOwnedNotes(backup),
         note.commitment = other.commitment
  PROVE  note = other
  <1>1. PICK i \in Leaves : IsLeafNote(note, i)
    BY OwnedNote
  <1>2. PICK j \in Leaves : IsLeafNote(other, j)
    BY OwnedNote
  <1>3. CommitmentOf(note.amount, Mine, note.blinding)
          = CommitmentOf(other.amount, Mine, other.blinding)
    BY <1>1, <1>2 DEF IsLeafNote, SelectedNote
  <1>4. note.blinding = other.blinding
    BY <1>3 DEF CommitmentOf, Poseidon
  <1>5. i = j
    BY <1>1, <1>2, <1>4 DEF IsLeafNote, LeavesDiffer
  <1> QED
    BY <1>1, <1>2, <1>5 DEF IsLeafNote

LEMMA LeafCount ==
  ASSUME TablesInv
  PROVE  /\ Len(calls) \in Nat /\ 2 * Len(calls) \in Nat
         /\ IsFiniteSet(Leaves)
  <1>1. Len(calls) \in Nat /\ 2 * Len(calls) \in Nat
    BY DEF TablesInv, ChainInv
  <1>2. IsFiniteSet(1 .. 2 * Len(calls))
    BY <1>1, FS_Interval
  <1> QED
    BY <1>1, <1>2 DEF Leaves

LEMMA RangeFinite ==
  ASSUME NEW f, IsFiniteSet(DOMAIN f)
  PROVE  IsFiniteSet({f[x] : x \in DOMAIN f})
  <1> DEFINE S == DOMAIN f
             T == {f[x] : x \in DOMAIN f}
             g == [x \in S |-> f[x]]
  <1>1. g \in [S -> T] /\ \A t \in T : \E x \in S : g[x] = t
    OBVIOUS
  <1>2. g \in Surjection(S, T)
    BY <1>1 DEF Surjection
  <1> HIDE DEF g
  <1> QED
    BY <1>2, FS_Surjection

LEMMA NotesFinite ==
  ASSUME TablesInv, LeavesOK, NEW backup
  PROVE  IsFiniteSet(ListOwnedNotes(backup))
  <1> DEFINE notes == ListOwnedNotes(backup)
             all == [i \in Leaves |-> LeafNote(i)]
             images == {all[i] : i \in DOMAIN all}
  <1>1. IsFiniteSet(images)
    <2>1. IsFiniteSet(DOMAIN all)
      BY LeafCount
    <2> HIDE DEF all
    <2> QED
      BY <2>1, RangeFinite
  <1>2. notes \subseteq images
    BY OwnedNote DEF IsLeafNote
  <1> HIDE DEF notes, images
  <1>3. IsFiniteSet(notes)
    BY <1>1, <1>2, FS_Subset
  <1> QED
    BY <1>3 DEF notes

(* A balance is a sum of amounts. *)
LEMMA TotalIsNat ==
  ASSUME NEW notes, IsFiniteSet(notes), \A note \in notes : note.amount \in Nat
  PROVE  Total(notes) \in Nat
  <1> DEFINE Pick(left) == CHOOSE note \in left : TRUE
             Step(f, left) == IF left = {} THEN 0
                              ELSE Pick(left).amount + f[left \ {Pick(left)}]
             Body(f, lefts) == [left \in lefts |-> Step(f, left)]
             Small(n) == {left \in SUBSET notes : Cardinality(left) <= n}
             S == {n \in Nat : \E f : f = Body(f, Small(n))}
  <1>1. \A left \in SUBSET notes :
          /\ IsFiniteSet(left) /\ Cardinality(left) \in Nat
          /\ Cardinality(left) <= Cardinality(notes)
          /\ Cardinality(left) = 0 => left = {}
    BY FS_Subset, FS_CardinalityType, FS_EmptySet
  <1>2. Cardinality(notes) \in Nat
    BY FS_CardinalityType
  <1>3. ASSUME NEW n \in Nat, NEW left \in Small(n + 1), left # {}
        PROVE  left \ {Pick(left)} \in Small(n) /\ Pick(left) \in notes
    <2>1. Pick(left) \in left
      BY <1>3
    <2> HIDE DEF Pick
    <2>2. Cardinality(left \ {Pick(left)}) = Cardinality(left) - 1
      BY <1>1, <2>1, FS_RemoveElement
    <2> QED
      BY <1>1, <2>1, <2>2
  <1> HIDE DEF Pick
  <1>4. 0 \in S
    <2> DEFINE zero == [left \in Small(0) |-> 0]
    <2>1. \A left \in Small(0) : left = {}
      BY <1>1
    <2>2. \A left \in Small(0) : Step(zero, left) = 0
      BY <2>1
    <2> HIDE DEF Step
    <2>3. zero = Body(zero, Small(0))
      BY <2>2
    <2> HIDE DEF zero, Body
    <2> QED
      BY <2>3
  <1>5. ASSUME NEW n \in Nat, n \in S
        PROVE  n + 1 \in S
    <2>1. PICK f : f = Body(f, Small(n))
      BY <1>5
    <2> DEFINE g == Body(f, Small(n + 1))
    <2>2. \A left \in Small(n) : left \in Small(n + 1)
      BY <1>1
    <2>3. \A left \in Small(n) : g[left] = f[left]
      <3> HIDE DEF Step, Small
      <3> QED
        BY <2>1, <2>2
    <2>4. \A left \in Small(n + 1) : Step(f, left) = Step(g, left)
      <3> HIDE DEF g, Small
      <3> QED
        BY <1>3, <2>3
    <2>5. g = Body(g, Small(n + 1))
      <3> HIDE DEF Step, Small
      <3>1. [left \in Small(n + 1) |-> Step(f, left)]
              = [left \in Small(n + 1) |-> Step(g, left)]
        <4> HIDE DEF g
        <4> QED
          BY <2>4
      <3> QED
        BY <3>1
    <2> HIDE DEF Body, g, Small
    <2> QED
      BY <2>5
  <1> HIDE DEF S
  <1>6. Cardinality(notes) \in S
    BY <1>2, <1>4, <1>5, UpFromZero
  <1>7. Small(Cardinality(notes)) = SUBSET notes
    BY <1>1
  <1> DEFINE f == CHOOSE f : f = Body(f, SUBSET notes)
  <1>8. f = Body(f, SUBSET notes)
    <2>1. \E g : g = Body(g, Small(Cardinality(notes)))
      <3> HIDE DEF Body, Small
      <3> QED
        BY <1>6 DEF S
    <2>2. \E g : g = Body(g, SUBSET notes)
      <3> HIDE DEF Body, Small
      <3> QED
        BY <1>7, <2>1
    <2> HIDE DEF Body
    <2> QED
      BY <2>2
  <1>9. Total(notes) = f[notes]
    BY DEF Total, Pick
  <1> HIDE DEF f
  <1>10. \A left \in SUBSET notes : f[left] = Step(f, left)
    <2> HIDE DEF Step
    <2> QED
      BY <1>8
  <1> DEFINE T == {n \in Nat : \A left \in Small(n) : f[left] \in Nat}
  <1>11. 0 \in T
    <2>1. \A left \in Small(0) : left = {}
      BY <1>1
    <2>2. {} \in SUBSET notes
      OBVIOUS
    <2>3. f[{}] = 0
      BY <1>10, <2>2
    <2>4. \A left \in Small(0) : f[left] \in Nat
      <3> SUFFICES ASSUME NEW left \in Small(0)
                   PROVE  f[left] \in Nat
        OBVIOUS
      <3>1. left = {}
        BY <2>1
      <3> QED
        BY <2>3, <3>1
    <2> HIDE DEF Small
    <2> QED
      BY <2>4
  <1>12. ASSUME NEW n \in Nat, n \in T
         PROVE  n + 1 \in T
    <2> SUFFICES ASSUME NEW left \in Small(n + 1)
                 PROVE  f[left] \in Nat
      OBVIOUS
    <2>1. left \in SUBSET notes
      OBVIOUS
    <2>2. left # {} => f[left \ {Pick(left)}] \in Nat /\ Pick(left).amount \in Nat
      <3> HIDE DEF Small
      <3> QED
        BY <1>3, <1>12
    <2> HIDE DEF Small
    <2>3. f[left] = Step(f, left)
      BY <1>10, <2>1
    <2>4. CASE left = {}
      BY <2>3, <2>4
    <2>5. CASE left # {}
      <3> DEFINE a == Pick(left).amount
                 b == f[left \ {Pick(left)}]
      <3>1. f[left] = a + b /\ a \in Nat /\ b \in Nat
        BY <2>2, <2>3, <2>5
      <3> HIDE DEF a, b
      <3> QED
        BY <3>1
    <2> QED
      BY <2>4, <2>5
  <1> HIDE DEF T
  <1>13. Cardinality(notes) \in T
    BY <1>2, <1>11, <1>12, UpFromZero
  <1>14. notes \in Small(Cardinality(notes))
    BY <1>7
  <1> HIDE DEF Small
  <1> QED
    BY <1>9, <1>13, <1>14 DEF T

LEMMA BalanceIsNat ==
  ASSUME TablesInv, LeavesOK, NEW backup
  PROVE  Total(ListOwnedNotes(backup)) \in Nat
  <1>1. \A note \in ListOwnedNotes(backup) : note.amount \in Nat
    BY OwnedNote DEF IsLeafNote, SelectedNote, IsSpendableNote, PositiveLamports
  <1>2. IsFiniteSet(ListOwnedNotes(backup))
    BY NotesFinite
  <1> DEFINE notes == ListOwnedNotes(backup)
  <1> HIDE DEF notes
  <1>3. Total(notes) \in Nat
    BY <1>1, <1>2, TotalIsNat DEF notes
  <1> QED
    BY <1>3 DEF notes

(* The amounts on the chain have a bound. *)
LEMMA AmountsBounded ==
  ASSUME TablesInv, LeavesOK
  PROVE  \E bound \in Nat : \A i \in Leaves : OnChain[i].amount <= bound
  <1> DEFINE S == {n \in Nat : n <= 2 * Len(calls) =>
                     \E bound \in Nat : \A i \in 1 .. n : OnChain[i].amount <= bound}
  <1>1. 2 * Len(calls) \in Nat
    BY LeafCount
  <1>2. \A i \in Leaves : OnChain[i].amount \in Nat
    BY DEF LeavesOK, OutputOK
  <1>3. 0 \in S
    OBVIOUS
  <1>4. ASSUME NEW n \in Nat, n \in S
        PROVE  n + 1 \in S
    <2> HIDE DEF S
    <2>0. n + 1 \in Nat
      OBVIOUS
    <2> SUFFICES ASSUME n + 1 <= 2 * Len(calls)
                 PROVE  \E bound \in Nat : \A i \in 1 .. n + 1 : OnChain[i].amount <= bound
      BY Zenon, <2>0 DEF S
    <2>1. PICK bound \in Nat : \A i \in 1 .. n : OnChain[i].amount <= bound
      <3>1. n <= 2 * Len(calls)
        BY <1>1
      <3> QED
        BY <1>4, <3>1 DEF S
    <2> DEFINE more == bound + OnChain[n + 1].amount
    <2>2. \A i \in 1 .. n + 1 : i \in Leaves /\ (i = n + 1 \/ i \in 1 .. n)
      BY <1>1 DEF Leaves
    <2>3. n + 1 \in 1 .. n + 1
      OBVIOUS
    <2>4. more \in Nat /\ bound <= more /\ OnChain[n + 1].amount <= more
      BY <1>2, <2>2, <2>3
    <2> HIDE DEF more
    <2>5. \A i \in 1 .. n + 1 : OnChain[i].amount <= more
      <3> SUFFICES ASSUME NEW i \in 1 .. n + 1
                   PROVE  OnChain[i].amount <= more
        OBVIOUS
      <3>1. OnChain[i].amount \in Nat
        BY <1>2, <2>2
      <3>2. CASE i = n + 1
        BY <2>4, <3>2
      <3>3. CASE i \in 1 .. n
        BY <2>1, <2>4, <3>1, <3>3
      <3> QED
        BY <2>2, <3>2, <3>3
    <2> QED
      BY <2>4, <2>5
  <1> HIDE DEF S
  <1>5. 2 * Len(calls) \in S
    BY <1>1, <1>3, <1>4, UpFromZero
  <1> QED
    BY <1>1, <1>5 DEF S, Leaves

LEMMA PicksAreComplete ==
  ASSUME TablesInv, LeavesOK, NEW backup, NEW target \in Nat
  PROVE  PicksWell(ListOwnedNotes(backup), target)
  <1> DEFINE notes == ListOwnedNotes(backup)
  <1>1. PICK bound \in Nat : \A i \in Leaves : OnChain[i].amount <= bound
    BY AmountsBounded
  <1>2. \A note \in notes : note.amount \in 0 .. bound
    <2> SUFFICES ASSUME NEW note \in notes
                 PROVE  note.amount \in 0 .. bound
      OBVIOUS
    <2>1. PICK i \in Leaves : IsLeafNote(note, i)
      BY OwnedNote
    <2>2. note.amount = OnChain[i].amount /\ note.amount \in Nat
      BY <2>1 DEF IsLeafNote, SelectedNote, IsSpendableNote, PositiveLamports
    <2> QED
      BY <1>1, <2>2
  <1> HIDE DEF notes
  <1>3. PicksWell(notes, target)
    BY <1>2, PickingIsComplete
  <1> QED
    BY <1>3 DEF notes

-------------------------------------------------------------------------------
(* Proofs of notes, random numbers and materials.                           *)

(* What is selected is one note of the wallet, or two. *)
LEMMA SelectOK ==
  ASSUME TablesInv, LeavesOK, LeavesDiffer, NEW backup, NEW target,
         NEW notes \in PickNotes(ListOwnedNotes(backup), target)
  PROVE  SelectionOK(notes)
  <1> DEFINE N == ListOwnedNotes(backup)
  <1>1. \A note \in N : SelectedNote(note)
    BY OwnedNote DEF IsLeafNote
  <1>2. \A note, other \in N : note.commitment = other.commitment => note = other
    BY NotesDiffer
  <1> HIDE DEF N
  <1>3. \/ \E note \in N : notes = <<note>>
        \/ \E first, second \in N : first # second /\ notes = <<first, second>>
    BY DEF PickNotes, Largest, N
  <1>4. CASE \E note \in N : notes = <<note>>
    BY <1>1, <1>4 DEF SelectionOK, AreTwo
  <1>5. CASE \E first, second \in N : first # second /\ notes = <<first, second>>
    <2>1. PICK first \in N, second \in N : first # second /\ notes = <<first, second>>
      BY <1>5
    <2>2. /\ Len(notes) = 2 /\ DOMAIN notes = 1 .. 2
          /\ notes[1] = first /\ notes[2] = second
      BY <2>1
    <2>3. \A i \in 1 .. 2 : i = 1 \/ i = 2
      OBVIOUS
    <2>4. \A i \in 1 .. 2 : SelectedNote(notes[i])
      BY <1>1, <2>2, <2>3
    <2>5. notes[1].commitment # notes[2].commitment
      BY <1>2, <2>1, <2>2
    <2> QED
      BY <2>2, <2>4, <2>5 DEF SelectionOK, AreTwo
  <1> QED
    BY <1>3, <1>4, <1>5

(* A leaf's proof has its index and a path that leads to the root.          *)
IsProofOf(proof, leaves, commitment) ==
  /\ proof.index \in 0 .. Len(leaves) - 1
  /\ leaves[proof.index + 1] = Leaf(commitment)
  /\ DOMAIN proof.path = 1 .. Height
  /\ Fold(Leaf(commitment), proof.index, proof.path) = Root(Height, leaves)

LEMMA ProofOfLeaf ==
  ASSUME NEW leaves, NEW n \in Nat, Len(leaves) = n, n <= Capacity(Height),
         NEW commitment, \E i \in 1 .. n : leaves[i] = Leaf(commitment)
  PROVE  IsProofOf(ProofOf(Height, leaves, commitment), leaves, commitment)
  <1> DEFINE S == {i \in 0 .. n - 1 : leaves[i + 1] = Leaf(commitment)}
             proof == ProofOf(Height, leaves, commitment)
             index == CHOOSE i \in 0 .. Len(leaves) - 1 :
                        /\ leaves[i + 1] = Leaf(commitment)
                        /\ \A j \in i + 1 .. Len(leaves) - 1 :
                             leaves[j + 1] # Leaf(commitment)
  <1>1. S \subseteq Nat /\ S # {} /\ \A i \in S : i <= n
    <2>1. PICK i \in 1 .. n : leaves[i] = Leaf(commitment)
      OBVIOUS
    <2>2. i - 1 \in 0 .. n - 1 /\ i - 1 + 1 = i
      OBVIOUS
    <2>3. i - 1 \in S
      BY <2>1, <2>2
    <2>4. \A j \in S : j \in 0 .. n - 1
      OBVIOUS
    <2> HIDE DEF S
    <2> QED
      BY <2>3, <2>4
  <1> HIDE DEF S
  <1>2. PICK greatest \in S : \A other \in S : other <= greatest
    BY <1>1, GreatestNatural
  <1>3. /\ greatest \in 0 .. Len(leaves) - 1 /\ leaves[greatest + 1] = Leaf(commitment)
        /\ \A j \in greatest + 1 .. Len(leaves) - 1 : leaves[j + 1] # Leaf(commitment)
    <2>1. greatest \in 0 .. n - 1 /\ leaves[greatest + 1] = Leaf(commitment)
      BY DEF S
    <2>2. ASSUME NEW j \in greatest + 1 .. n - 1
          PROVE  leaves[j + 1] # Leaf(commitment)
      <3>1. j \in 0 .. n - 1 /\ ~ j <= greatest
        BY <2>1
      <3> QED
        BY <1>2, <3>1 DEF S
    <2> QED
      BY <2>1, <2>2
  <1>4. index \in 0 .. Len(leaves) - 1 /\ leaves[index + 1] = Leaf(commitment)
    BY <1>3
  <1>5. proof = [index |-> index, path |-> Path(Height, leaves, index)]
    BY DEF ProofOf
  <1> HIDE DEF index, proof
  <1>6. proof.index = index /\ proof.path = Path(Height, leaves, index)
    BY <1>5
  <1>7. DOMAIN proof.path = 1 .. Height
    BY <1>6 DEF Path
  <1>8. /\ Height \in Nat /\ index \in Nat /\ index < Capacity(Height)
        /\ index < Len(leaves) /\ Len(leaves) \in Nat
    <2>1. Height \in Nat
      BY PoolAssumption
    <2>2. Capacity(Height) \in Nat
      BY <2>1, CapacityDoubles
    <2> QED
      BY <1>4, <2>1, <2>2
  <1>9. Fold(leaves[index + 1], index, Path(Height, leaves, index)) = Root(Height, leaves)
    BY <1>8, PathsLeadToTheRoot
  <1> QED
    BY <1>4, <1>6, <1>7, <1>9 DEF IsProofOf, proof

(* The leaves of the table, when it has no hole, fit in the tree. *)
LEMMA TableLeaves ==
  ASSUME TablesInv, BoundsInv, Contiguous
  PROVE  \E n \in Nat : /\ Len(ListOutputsForTree) = n /\ n <= Capacity(Height)
                        /\ DOMAIN ListOutputsForTree = 1 .. n
  <1>1. PICK k \in 0 .. Len(calls) : IsNumbered(Rows, 2 * k)
    BY NumberedRows
  <1>2. Len(calls) \in Nat
    BY LeafCount
  <1>3. ListOutputsForTree = LeavesOf(k)
    BY <1>1, <1>2, LeavesAreOnChain
  <1>4. Capacity(Height) \in Nat
    BY PoolAssumption, CapacityDoubles
  <1>5. Len(calls) <= Capacity(Height) \div 2
    BY <1>2 DEF BoundsInv, HasRoom
  <1> DEFINE n == 2 * k
  <1>6. n \in Nat /\ n <= Capacity(Height)
    <2> DEFINE c == Capacity(Height)
    <2> HIDE DEF c
    <2>1. c \in Nat /\ Len(calls) <= c \div 2
      BY <1>4, <1>5 DEF c
    <2> QED
      BY <1>2, <2>1 DEF c
  <1>7. LeavesOf(k) = [i \in 1 .. n |-> Leaf(OnChain[i].commitment)]
    BY DEF LeavesOf
  <1> HIDE DEF n
  <1>8. Len(LeavesOf(k)) = n /\ DOMAIN LeavesOf(k) = 1 .. n
    BY <1>6, <1>7
  <1> QED
    BY <1>3, <1>6, <1>8

(* A note that was selected, bound to the proof of its leaf. *)
LEMMA BoundNote ==
  ASSUME NEW note, SelectedNote(note), NEW leaves, Len(leaves) \in Nat, NEW proof,
         IsProofOf(proof, leaves, note.commitment)
  PROVE  /\ ProvedNote(BindToMerkleProof(note, proof), Root(Height, leaves))
         /\ BindToMerkleProof(note, proof).nullifier
              = NullifierOf(UtxoPrivateKey(Key), note.commitment, proof.index)
  <1> DEFINE bound == RederiveUtxoWitness(note, proof.index)
             circuit == BindToMerkleProof(note, proof)
             nullifier == NullifierOf(UtxoPrivateKey(Key), note.commitment, proof.index)
  <1>1. /\ DOMAIN note = {"commitment", "amount", "index", "blinding", "privateKey",
                          "publicKey", "nullifier"}
        /\ note.amount \in Nat \ {0} /\ note.privateKey = UtxoPrivateKey(Key)
        /\ note.publicKey = Mine
        /\ note.commitment = CommitmentOf(note.amount, Mine, note.blinding)
    BY DEF SelectedNote, IsSpendableNote, HasFields, PositiveLamports
  <1>2. /\ bound.amount = note.amount /\ bound.privateKey = note.privateKey
        /\ bound.publicKey = note.publicKey /\ bound.blinding = note.blinding
        /\ bound.index = proof.index /\ bound.nullifier = nullifier
    BY <1>1 DEF RederiveUtxoWitness
  <1>3. circuit = [amount |-> bound.amount, privateKey |-> bound.privateKey,
                   publicKey |-> bound.publicKey, blinding |-> bound.blinding,
                   nullifier |-> bound.nullifier, index |-> bound.index,
                   path |-> proof.path]
    BY DEF BindToMerkleProof
  <1> HIDE DEF circuit, bound, nullifier
  <1>4. /\ DOMAIN circuit = {"amount", "privateKey", "publicKey", "blinding",
                             "nullifier", "index", "path"}
        /\ circuit.amount = note.amount /\ circuit.privateKey = note.privateKey
        /\ circuit.publicKey = note.publicKey /\ circuit.blinding = note.blinding
        /\ circuit.index = proof.index /\ circuit.nullifier = nullifier
        /\ circuit.path = proof.path
    BY <1>2, <1>3
  <1>5. proof.index \in Nat /\ DOMAIN proof.path = 1 .. Height
    BY DEF IsProofOf
  <1>6. Fold(Leaf(note.commitment), proof.index, proof.path) = Root(Height, leaves)
    BY DEF IsProofOf
  <1>7. IsCircuitInputNote(circuit, Height)
    BY <1>1, <1>4, <1>5 DEF IsCircuitInputNote, HasFields, PositiveLamports
  <1>8. ProvedNote(circuit, Root(Height, leaves))
    BY <1>1, <1>4, <1>6, <1>7 DEF ProvedNote, nullifier
  <1> QED
    BY <1>4, <1>8 DEF circuit, nullifier

LEMMA ProofsOK ==
  ASSUME TablesInv, BoundsInv, Contiguous, NEW notes, SelectionOK(notes),
         NEW leaves, leaves = ListOutputsForTree, ValidateMerkleProof(notes, leaves)
  PROVE  /\ IsMerkleState(MerkleState(leaves))
         /\ ProvedOK([i \in DOMAIN notes |->
                        BindToMerkleProof(notes[i],
                          ProofOf(Height, leaves, notes[i].commitment))],
                     MerkleState(leaves).root)
  <1> DEFINE proof(i) == ProofOf(Height, leaves, notes[i].commitment)
             bound == [i \in DOMAIN notes |-> BindToMerkleProof(notes[i], proof(i))]
             m == Len(notes)
  <1>1. PICK n \in Nat : /\ Len(leaves) = n /\ n <= Capacity(Height)
                         /\ DOMAIN leaves = 1 .. n
    BY TableLeaves
  <1>2. IsMerkleState(MerkleState(leaves)) /\ MerkleState(leaves).root = Root(Height, leaves)
    BY <1>1 DEF MerkleState, IsMerkleState, HasFields
  <1>3. m \in 1 .. 2 /\ DOMAIN notes = 1 .. m
    BY DEF SelectionOK, AreTwo
  <1>4. ASSUME NEW i \in 1 .. m
        PROVE  IsProofOf(proof(i), leaves, notes[i].commitment)
    <2>1. Leaf(notes[i].commitment) \in ToSet(leaves)
      BY <1>3 DEF ValidateMerkleProof
    <2>2. \E j \in 1 .. n : leaves[j] = Leaf(notes[i].commitment)
      BY <1>1, <2>1 DEF ToSet
    <2> QED
      BY <1>1, <2>2, ProofOfLeaf
  <1> HIDE DEF proof
  <1>5. /\ Len(bound) = m /\ DOMAIN bound = 1 .. m
        /\ \A i \in 1 .. m : bound[i] = BindToMerkleProof(notes[i], proof(i))
    BY <1>3
  <1>6. ASSUME NEW i \in 1 .. m
        PROVE  /\ ProvedNote(bound[i], Root(Height, leaves))
               /\ bound[i].nullifier = NullifierOf(UtxoPrivateKey(Key),
                                         notes[i].commitment, proof(i).index)
    <2>1. SelectedNote(notes[i])
      BY DEF SelectionOK
    <2> QED
      BY <1>1, <1>4, <1>5, <2>1, BoundNote
  <1>7. m = 2 => bound[1].nullifier # bound[2].nullifier
    <2> SUFFICES ASSUME m = 2
                 PROVE  bound[1].nullifier # bound[2].nullifier
      OBVIOUS
    <2>1. notes[1].commitment # notes[2].commitment
      BY DEF SelectionOK
    <2>2. /\ bound[1].nullifier[2] = notes[1].commitment
          /\ bound[2].nullifier[2] = notes[2].commitment
      BY <1>6 DEF NullifierOf, Poseidon
    <2> QED
      BY <2>1, <2>2
  <1> HIDE DEF bound
  <1>8. ProvedOK(bound, Root(Height, leaves))
    BY <1>3, <1>5, <1>6, <1>7 DEF ProvedOK, AreTwo
  <1> QED
    BY <1>2, <1>8 DEF bound, proof

(* A random number that is not taken yet. *)
LEMMA UnusedExists ==
  ASSUME NEW taken, IsFiniteSet(taken)
  PROVE  (CHOOSE n \in 1 .. Cardinality(taken) + 1 :
            n \notin taken /\ \A m \in 1 .. n - 1 : m \in taken) \notin taken
  <1> DEFINE c == Cardinality(taken)
             S == {n \in 1 .. c + 1 : n \notin taken}
  <1>1. c \in Nat
    BY FS_CardinalityType
  <1> HIDE DEF c
  <1>2. S # {}
    <2> SUFFICES ASSUME 1 .. c + 1 \subseteq taken
                 PROVE  FALSE
      BY <1>1
    <2>1. Cardinality(1 .. c + 1) <= c
      BY FS_Subset DEF c
    <2>2. Cardinality(1 .. c + 1) = c + 1
      <3> DEFINE b == c + 1
      <3>1. b \in Int /\ 1 \in Int /\ b >= 1
        BY <1>1
      <3> HIDE DEF b
      <3>2. Cardinality(1 .. b) = IF 1 > b THEN 0 ELSE b - 1 + 1
        BY <3>1, FS_Interval
      <3>3. Cardinality(1 .. b) = b
        BY <3>1, <3>2
      <3> QED
        BY <3>3 DEF b
    <2> QED
      BY <1>1, <2>1, <2>2
  <1>3. S \subseteq Nat
    BY <1>1
  <1>4. PICK least \in S : \A other \in S : least <= other
    BY <1>2, <1>3, LeastNatural
  <1>5. \A m \in 1 .. least - 1 : m \in taken
    <2>1. \A m \in 1 .. least - 1 : m \in 1 .. c + 1 /\ ~ least <= m
      BY <1>1, <1>4
    <2> QED
      BY <1>4, <2>1
  <1>6. \E n \in 1 .. c + 1 : n \notin taken /\ \A m \in 1 .. n - 1 : m \in taken
    BY <1>4, <1>5
  <1> QED
    BY <1>6 DEF c

(* The wallet's random numbers are nobody's. *)
LEMMA FreshAre ==
  ASSUME TablesInv, WorkInv
  PROVE  /\ AreFresh(FreshRandoms)
         /\ \A d \in Devices : IsPrepared(d) => AreApart(FreshRandoms, Randoms(d))
  <1> DEFINE prepared == {d \in Devices : job[d].stage = "prepared"}
             chain == {output.blinding : output \in ToSet(OnChain)}
             sets == {ToSet(Randoms(d)) : d \in prepared}
             used == chain \union UNION sets
             Unused(taken) == CHOOSE n \in 1 .. Cardinality(taken) + 1 :
                              n \notin taken /\ \A m \in 1 .. n - 1 : m \in taken
             first == Unused(used)
             second == Unused(used \union {first})
  <1>1. FreshRandoms = <<first, second>>
    BY DEF FreshRandoms, Randoms
  <1>2. IsFiniteSet(chain) /\ \A i \in Leaves : OnChain[i].blinding \in chain
    <2> DEFINE all == OnChain
               f == [i \in Leaves |-> all[i].blinding]
    <2>1. DOMAIN all = Leaves
      BY DEF OnChain, Leaves
    <2>2. chain = {f[i] : i \in DOMAIN f}
      <3>1. ToSet(all) = {all[i] : i \in Leaves}
        BY <2>1 DEF ToSet
      <3> HIDE DEF all
      <3> QED
        BY <3>1 DEF all
    <2>3. IsFiniteSet(DOMAIN f)
      BY LeafCount
    <2>4. \A i \in Leaves : f[i] = OnChain[i].blinding
      OBVIOUS
    <2> HIDE DEF f
    <2>5. \A i \in Leaves : i \in DOMAIN f
      BY DEF f
    <2> HIDE DEF chain
    <2> QED
      BY <2>2, <2>3, <2>4, <2>5, RangeFinite
  <1>3. ASSUME NEW d \in prepared
        PROVE  DOMAIN Randoms(d) = 1 .. 2
    <2>1. WorkOK(job[d]) /\ job[d].stage = "prepared"
      BY DEF WorkInv
    <2>2. PreparedOK(job[d].tx)
      BY <2>1 DEF WorkOK
    <2> QED
      BY <2>2 DEF PreparedOK, MaterialOK, Randoms
  <1>4. \A T \in sets : IsFiniteSet(T)
    <2> SUFFICES ASSUME NEW d \in prepared
                 PROVE  IsFiniteSet(ToSet(Randoms(d)))
      OBVIOUS
    <2> DEFINE r == Randoms(d)
    <2>1. DOMAIN r = 1 .. 2
      BY <1>3
    <2>2. ToSet(r) = {r[i] : i \in DOMAIN r}
      BY DEF ToSet
    <2>3. IsFiniteSet(DOMAIN r)
      <3>1. 1 \in Int /\ 2 \in Int
        OBVIOUS
      <3>2. IsFiniteSet(1 .. 2)
        BY <3>1, FS_Interval
      <3> QED
        BY <2>1, <3>2
    <2> HIDE DEF r
    <2>4. IsFiniteSet(ToSet(r))
      BY <2>2, <2>3, RangeFinite
    <2> QED
      BY <2>4 DEF r
  <1>5. IsFiniteSet(sets)
    <2>1. IsFiniteSet(prepared)
      BY PoolAssumption, FS_Subset
    <2> DEFINE f == [d \in prepared |-> ToSet(Randoms(d))]
    <2>2. IsFiniteSet(DOMAIN f) /\ sets = {f[d] : d \in DOMAIN f}
      BY <2>1
    <2> HIDE DEF f, sets
    <2> QED
      BY <2>2, RangeFinite
  <1>6. IsFiniteSet(used)
    <2> HIDE DEF chain, sets
    <2> QED
      BY <1>2, <1>4, <1>5, FS_UNION, FS_Union
  <1>7. first \notin used
    BY <1>6, UnusedExists
  <1>8. second \notin used /\ second # first
    <2>1. IsFiniteSet(used \union {first})
      <3> HIDE DEF used, first
      <3> QED
        BY <1>6, FS_AddElement
    <2>2. second \notin used \union {first}
      BY <2>1, UnusedExists
    <2> QED
      BY <2>2
  <1>9. ASSUME NEW d \in prepared, NEW p \in 1 .. 2
        PROVE  Randoms(d)[p] \in used
    <2>1. Randoms(d)[p] \in ToSet(Randoms(d))
      BY <1>3 DEF ToSet
    <2> HIDE DEF chain
    <2> QED
      BY <2>1
  <1>10. \A i \in Leaves : OnChain[i].blinding \in used
    BY <1>2
  <1> HIDE DEF first, second, used
  <1>11. \A o \in 1 .. 2 : FreshRandoms[o] \notin used
    BY <1>1, <1>7, <1>8
  <1>12. FreshRandoms[1] # FreshRandoms[2]
    BY <1>1, <1>8
  <1> QED
    BY <1>9, <1>10, <1>11, <1>12 DEF AreFresh, AreApart, IsPrepared

(* The slots of proved notes, and of none. *)
SlotsOK(slots, root) ==
  /\ SlotOK(slots[1], root) /\ SlotOK(slots[2], root)
  /\ slots[1].nullifier # slots[2].nullifier

LEMMA DummyNullifierOf ==
  ASSUME NEW random
  PROVE  CreateDummyInputSlot(Height, random).nullifier[1] = random
  <1> DEFINE slot == CreateDummyInputSlot(Height, random)
  <1>1. slot.nullifier = NullifierOf(random, CommitmentOf(0, UtxoPublicKey(random), random), 0)
    BY DEF CreateDummyInputSlot
  <1> HIDE DEF slot
  <1>2. slot.nullifier[1] = random
    BY <1>1 DEF NullifierOf, Poseidon
  <1> QED
    BY <1>2 DEF slot

LEMMA NoteSlots ==
  ASSUME NEW notes, NEW root, ProvedOK(notes, root), NEW randoms
  PROVE  SlotsOK(CreateInputSlots(notes, Height, randoms), root)
  <1> DEFINE slots == CreateInputSlots(notes, Height, randoms)
             random(s) == <<"dummy", randoms[s]>>
  <1>1. /\ slots[1] = IF 1 <= Len(notes) THEN CreateInputSlot(notes[1])
                      ELSE CreateDummyInputSlot(Height, random(1))
        /\ slots[2] = IF 2 <= Len(notes) THEN CreateInputSlot(notes[2])
                      ELSE CreateDummyInputSlot(Height, random(2))
    BY DEF CreateInputSlots
  <1>2. Len(notes) \in 1 .. 2
    BY DEF ProvedOK, AreTwo
  <1>3. ProvedNote(notes[1], root) /\ (Len(notes) = 2 => ProvedNote(notes[2], root))
    BY <1>2 DEF ProvedOK
  <1>4. slots[1] = CreateInputSlot(notes[1])
    BY <1>1, <1>2
  <1> HIDE DEF slots, random
  <1>5. SlotOK(slots[1], root) /\ slots[1].nullifier = notes[1].nullifier
    BY <1>3, <1>4, NoteSlotOK
  <1>6. CASE Len(notes) = 2
    <2>1. slots[2] = CreateInputSlot(notes[2])
      BY <1>1, <1>6
    <2>2. SlotOK(slots[2], root) /\ slots[2].nullifier = notes[2].nullifier
      BY <1>3, <1>6, <2>1, NoteSlotOK
    <2> QED
      BY <1>5, <1>6, <2>2 DEF ProvedOK, SlotsOK, slots
  <1>7. CASE Len(notes) = 1
    <2>1. slots[2] = CreateDummyInputSlot(Height, random(2))
      BY <1>1, <1>7
    <2>2. SlotOK(slots[2], root)
      BY <2>1, DummySlotOK
    <2>3. slots[2].nullifier[1] = random(2)
      BY <2>1, DummyNullifierOf
    <2>4. slots[1].nullifier[1] = UtxoPrivateKey(Key)
      BY <1>3, <1>5 DEF ProvedNote, NullifierOf, Poseidon
    <2>5. random(2) # UtxoPrivateKey(Key)
      <3>1. Len(random(2)) = 2 /\ Len(UtxoPrivateKey(Key)) = 1
        BY DEF random, UtxoPrivateKey
      <3> QED
        BY <3>1
    <2> QED
      BY <1>5, <2>2, <2>3, <2>4, <2>5 DEF SlotsOK, slots
  <1> QED
    BY <1>2, <1>6, <1>7

LEMMA DummySlots ==
  ASSUME NEW root, NEW randoms, randoms[1] # randoms[2]
  PROVE  SlotsOK(CreateInputSlots(<<>>, Height, randoms), root)
  <1> DEFINE slots == CreateInputSlots(<<>>, Height, randoms)
             random(s) == <<"dummy", randoms[s]>>
  <1>1. \A s \in 1 .. 2 : slots[s] = CreateDummyInputSlot(Height, random(s))
    BY DEF CreateInputSlots
  <1>2. random(1) # random(2)
    OBVIOUS
  <1> HIDE DEF slots, random
  <1>3. SlotOK(slots[1], root) /\ SlotOK(slots[2], root)
    BY <1>1, DummySlotOK
  <1>4. slots[1].nullifier[1] = random(1) /\ slots[2].nullifier[1] = random(2)
    BY <1>1, DummyNullifierOf
  <1> QED
    BY <1>2, <1>3, <1>4 DEF SlotsOK, slots

(* What the preparations share. *)
MadeFrom(material, root, recipient, randoms) ==
  /\ MaterialOK(material, recipient)
  /\ material.proof.root = root
  /\ \A o \in 1 .. 2 : Proven(material.proof).outBlinding[o] = randoms[o]

LEMMA MadeMaterial ==
  ASSUME NEW root, NEW slots, SlotsOK(slots, root), NEW amount \in Nat,
         NEW nextIndex, NEW randoms, NEW ext, ext.amount \in Int, ext.fee \in Nat,
         NEW recipient, NEW outs, outs = CreateOutputs(Key, Mine, amount, nextIndex, randoms),
         NEW material,
         material = ProofMaterial(root, slots, outs, ext, recipient, "treasury", FieldSize),
         AmountsBalance(Proven(material.proof), FieldSize)
  PROVE  MadeFrom(material, root, recipient, randoms)
  <1>1. AreCreated(outs, Key, amount, randoms)
    BY CreatedOutputs DEF Mine
  <1>2. IsMaterialOf(material, root, slots, outs, ext, recipient)
    BY ProofOfMaterial
  <1>3. /\ SlotOK(slots[1], root) /\ SlotOK(slots[2], root)
        /\ slots[1].nullifier # slots[2].nullifier
    BY DEF SlotsOK
  <1>4. /\ OutputOK(outs[1]) /\ OutputOK(outs[2])
        /\ outs[1].encrypted.key = Key /\ outs[2].encrypted.key = Key
        /\ \A o \in 1 .. 2 : outs[o].blinding = randoms[o]
    BY <1>1 DEF AreCreated
  <1>5. MaterialOK(material, recipient) /\ OutputsAre(material, outs)
    BY <1>2, <1>3, <1>4, MaterialIsOK
  <1>6. material.proof.root = root
    BY <1>2 DEF IsMaterialOf
  <1> QED
    BY <1>4, <1>5, <1>6 DEF MadeFrom, OutputsAre

LEMMA TransferOK ==
  ASSUME NEW quote, IsTransferQuote(quote), NEW notes, NEW state,
         ProvedOK(notes, state.root), CoversQuote(notes, quote), NEW randoms,
         NEW material,
         material = TransferMaterial(TransferRequest(quote), notes, state, randoms),
         AmountsBalance(Proven(material.proof), FieldSize)
  PROVE  /\ PreparedOK(PreparedTransfer(TransferRequest(quote), material))
         /\ MadeFrom(material, state.root, "recipient", randoms)
  <1> DEFINE change == TotalOf(notes) - quote.gross
             slots == CreateInputSlots(notes, Height, randoms)
             outs == CreateOutputs(Key, Mine, change, state.nextIndex, randoms)
             ext == [amount |-> -quote.recipient, fee |-> quote.fee]
             request == TransferRequest(quote)
             tx == PreparedTransfer(request, material)
  <1>1. /\ request.owner = "me" /\ request.recipient = "recipient"
        /\ request.quote = quote
    BY DEF TransferRequest
  <1> HIDE DEF request
  <1>2. notes[1].publicKey = Mine
    BY DEF ProvedOK, AreTwo, ProvedNote
  <1>3. material = ProofMaterial(state.root, slots, outs, ext, "recipient", "treasury",
                                 FieldSize)
    BY <1>1, <1>2 DEF TransferMaterial, request
  <1>4. change \in Nat
    <2>1. TotalOf(notes) \in Nat
      <3>1. /\ Len(notes) \in 1 .. 2 /\ notes[1].amount \in Nat
            /\ Len(notes) = 2 => notes[2].amount \in Nat
        BY DEF ProvedOK, AreTwo, ProvedNote, IsCircuitInputNote, PositiveLamports
      <3> QED
        BY <3>1 DEF TotalOf
    <2>2. quote.gross \in Nat /\ TotalOf(notes) >= quote.gross
      BY DEF IsTransferQuote, PositiveLamports, CoversQuote
    <2> DEFINE total == TotalOf(notes)
               gross == quote.gross
    <2> HIDE DEF total, gross
    <2> QED
      BY <2>1, <2>2 DEF total, gross
  <1>5. ext.amount \in Int /\ ext.fee \in Nat
    BY DEF IsTransferQuote, PositiveLamports, Lamports
  <1>6. SlotsOK(slots, state.root)
    BY NoteSlots
  <1> HIDE DEF change, slots, ext
  <1>7. MadeFrom(material, state.root, "recipient", randoms)
    BY <1>3, <1>4, <1>5, <1>6, MadeMaterial
  <1>8. tx = [kind |-> "transfer", owner |-> "me", recipient |-> "recipient",
              quote |-> quote, material |-> material]
    BY <1>1 DEF PreparedTransfer
  <1> HIDE DEF tx
  <1>9. /\ DOMAIN tx = {"kind", "owner", "recipient", "quote", "material"}
        /\ tx.kind = "transfer" /\ tx.quote = quote /\ tx.material = material
        /\ tx.recipient = "recipient"
    BY <1>8
  <1>10. MaterialOK(tx.material, tx.recipient)
    BY <1>7, <1>9 DEF MadeFrom
  <1>11. PreparedOK(tx)
    BY <1>9, <1>10 DEF PreparedOK, HasFields
  <1> QED
    BY <1>7, <1>11 DEF tx, request

LEMMA DepositOK ==
  ASSUME NEW lamports \in Deposits, CanDeposit(lamports, DepositBps), NEW state,
         NEW randoms, randoms[1] # randoms[2], NEW request, NEW material,
         request = DepositRequest(DepositQuote(lamports, DepositBps)),
         material = DepositMaterial(request, state, randoms),
         AmountsBalance(Proven(material.proof), FieldSize)
  PROVE  /\ PreparedOK(PreparedDeposit(request, material))
         /\ MadeFrom(material, state.root, "me", randoms)
  <1> DEFINE quote == DepositQuote(lamports, DepositBps)
             slots == CreateInputSlots(<<>>, Height, randoms)
             outs == CreateOutputs(Key, Mine, quote.output, state.nextIndex, randoms)
             ext == [amount |-> quote.deposit, fee |-> quote.fee]
             tx == PreparedDeposit(request, material)
  <1>1. request.owner = "me" /\ request.quote = quote
    BY DEF DepositRequest
  <1>2. IsDepositQuote(quote, DepositBps) /\ quote.fee \in Nat
    BY DepositQuoteOK
  <1> HIDE DEF quote
  <1>3. material = ProofMaterial(state.root, slots, outs, ext, "me", "treasury", FieldSize)
    BY <1>1 DEF DepositMaterial, Mine
  <1>4. quote.output \in Nat /\ ext.amount \in Int /\ ext.fee \in Nat
    BY <1>2 DEF IsDepositQuote, PositiveLamports
  <1>5. SlotsOK(slots, state.root)
    BY DummySlots
  <1> HIDE DEF slots, ext
  <1>6. MadeFrom(material, state.root, "me", randoms)
    BY <1>3, <1>4, <1>5, MadeMaterial
  <1>7. tx = [kind |-> "deposit", owner |-> "me", recipient |-> "me",
              quote |-> quote, material |-> material]
    BY <1>1 DEF PreparedDeposit
  <1> HIDE DEF tx
  <1>8. /\ DOMAIN tx = {"kind", "owner", "recipient", "quote", "material"}
        /\ tx.kind = "deposit" /\ tx.quote = quote /\ tx.material = material
        /\ tx.recipient = "me" /\ tx.owner = "me"
    BY <1>7
  <1>9. MaterialOK(tx.material, tx.recipient)
    BY <1>6, <1>8 DEF MadeFrom
  <1>10. PreparedOK(tx)
    BY <1>2, <1>8, <1>9 DEF PreparedOK, HasFields
  <1> QED
    BY <1>6, <1>10 DEF tx

-------------------------------------------------------------------------------
(* The steps of the devices and of the chain.                               *)

LEMMA LeafStays ==
  ASSUME ChainInv, Grows, NEW i \in Leaves
  PROVE  i \in Leaves' /\ OnChain'[i] = OnChain[i]
  <1>1. Len(calls) \in Nat /\ Len(calls') \in Nat /\ Len(calls) <= Len(calls')
    BY LenProperties DEF ChainInv, Grows
  <1>2. /\ i \in 1 .. 2 * Len(calls) /\ i \in 1 .. 2 * Len(calls')
        /\ (i + 1) \div 2 \in 1 .. Len(calls)
    BY <1>1 DEF Leaves
  <1>3. OnChain[i] = calls[(i + 1) \div 2].outputs[IF i % 2 = 1 THEN 1 ELSE 2]
    BY <1>2 DEF OnChain
  <1>4. OnChain'[i] = calls'[(i + 1) \div 2].outputs[IF i % 2 = 1 THEN 1 ELSE 2]
    BY <1>2 DEF OnChain
  <1>5. calls'[(i + 1) \div 2] = calls[(i + 1) \div 2]
    BY <1>2 DEF Grows
  <1> QED
    BY <1>2, <1>3, <1>4, <1>5 DEF Leaves

LEMMA ChainSame ==
  ASSUME UNCHANGED calls
  PROVE  OnChain' = OnChain /\ Leaves' = Leaves
  BY DEF OnChain, Leaves

LEMMA RootRemains ==
  ASSUME ChainInv, Grows
  PROVE  \A work : RootOK(work) => RootOK(work)'
  <1> SUFFICES ASSUME NEW work, RootOK(work)
               PROVE  RootOK(work)'
    OBVIOUS
  <1>1. work.stage = "proved" => WasRoot(work.state.root)'
    BY RootsStay DEF RootOK
  <1>2. work.stage = "prepared" => WasRoot(work.tx.material.proof.root)'
    BY RootsStay DEF RootOK
  <1> QED
    BY <1>1, <1>2 DEF RootOK

(* What a device holds stays right as the chain grows. *)
LEMMA JobStep ==
  ASSUME ChainInv, Grows, WorkInv, NEW d \in Devices, NEW record,
         job' = [job EXCEPT ![d] = record],
         WorkOK(record), RootOK(record)
  PROVE  /\ WorkInv'
         /\ job'[d] = record /\ \A e \in Devices : e # d => job'[e] = job[e]
  <1>1. /\ job' = [e \in Devices |-> job'[e]] /\ job'[d] = record
        /\ \A e \in Devices : e # d => job'[e] = job[e]
    BY DEF WorkInv
  <1>2. \A e \in Devices : WorkOK(job'[e]) /\ RootOK(job'[e])
    BY <1>1 DEF WorkInv
  <1>3. ASSUME NEW e \in Devices
        PROVE  (WorkOK(job[e]) /\ RootOK(job[e]))'
    <2>1. PICK work : work = job'[e]
      OBVIOUS
    <2>2. WorkOK(work) /\ RootOK(work)
      BY <1>2, <2>1
    <2>3. RootOK(work)'
      BY <2>2, RootRemains
    <2>4. RootOK(job[e])'
      BY <2>1, <2>3 DEF RootOK, WasRoot
    <2>5. WorkOK(job[e])'
      BY <2>1, <2>2
    <2> QED
      BY <2>4, <2>5
  <1> QED
    BY <1>1, <1>3 DEF WorkInv

(* A device goes on to a stage where nothing is prepared. *)
LEMMA StageStep ==
  ASSUME JobInv, Grows, TablesInv', NEW d \in Devices, NEW record, Become(d, record),
         record.stage # "prepared", WorkOK(record), RootOK(record)
  PROVE  JobInv'
  <1>1. UNCHANGED <<txs, calls, outputs, spends, table>> /\ job' = [job EXCEPT ![d] = record]
    BY DEF Become
  <1>2. /\ WorkInv' /\ job'[d] = record
        /\ \A e \in Devices : e # d => job'[e] = job[e]
    BY <1>1, JobStep DEF JobInv, TablesInv
  <1>3. OnChain' = OnChain /\ Leaves' = Leaves
    BY <1>1, ChainSame
  <1>4. BoundsInv' /\ LeavesOK' /\ LeavesDiffer'
    BY <1>1, <1>3 DEF JobInv, BoundsInv, LeavesOK, LeavesDiffer, HasRoom
  <1>5. \A e \in Devices : IsPrepared(e)' => e # d /\ IsPrepared(e) /\ Randoms(e)' = Randoms(e)
    BY <1>2 DEF IsPrepared, Randoms
  <1>6. RandomsDiffer'
    <2>1. \A e \in Devices : IsPrepared(e)' => AreFresh(Randoms(e))'
      BY <1>3, <1>5 DEF JobInv, RandomsDiffer, AreFresh
    <2>2. \A e, f \in Devices :
            e # f /\ IsPrepared(e)' /\ IsPrepared(f)' => AreApart(Randoms(e), Randoms(f))'
      BY <1>5 DEF JobInv, RandomsDiffer, AreApart
    <2> QED
      BY <2>1, <2>2 DEF RandomsDiffer
  <1> QED
    BY <1>2, <1>4, <1>6 DEF JobInv

(* A device has prepared a transaction. *)
LEMMA PreparedStep ==
  ASSUME JobInv, Grows, TablesInv', NEW d \in Devices, NEW record, Become(d, record),
         record.stage = "prepared", WorkOK(record), RootOK(record),
         \A o \in 1 .. 2 :
           Proven(record.tx.material.proof).outBlinding[o] = FreshRandoms[o]
  PROVE  JobInv'
  <1>1. UNCHANGED <<txs, calls, outputs, spends, table>> /\ job' = [job EXCEPT ![d] = record]
    BY DEF Become
  <1>2. /\ WorkInv' /\ job'[d] = record
        /\ \A e \in Devices : e # d => job'[e] = job[e]
    BY <1>1, JobStep DEF JobInv, TablesInv
  <1>3. OnChain' = OnChain /\ Leaves' = Leaves
    BY <1>1, ChainSame
  <1>4. BoundsInv' /\ LeavesOK' /\ LeavesDiffer'
    BY <1>1, <1>3 DEF JobInv, BoundsInv, LeavesOK, LeavesDiffer, HasRoom
  <1>5. /\ AreFresh(FreshRandoms)
        /\ \A e \in Devices : IsPrepared(e) => AreApart(FreshRandoms, Randoms(e))
    BY FreshAre DEF JobInv
  <1> DEFINE random(e) == Randoms(e)'
             fresh == FreshRandoms
  <1>6. \A o \in 1 .. 2 : random(d)[o] = fresh[o]
    BY <1>2 DEF Randoms
  <1>7. \A e \in Devices : e # d /\ IsPrepared(e)' => IsPrepared(e) /\ random(e) = Randoms(e)
    BY <1>2 DEF IsPrepared, Randoms
  <1>8. \A pair : AreFresh(pair)' <=> AreFresh(pair)
    BY <1>3 DEF AreFresh
  <1> HIDE DEF random, fresh
  <1>9. AreFresh(random(d))
    BY <1>5, <1>6 DEF AreFresh, fresh
  <1>10. \A e \in Devices : IsPrepared(e)' => AreFresh(random(e))
    BY <1>7, <1>9 DEF JobInv, RandomsDiffer
  <1>11. \A e \in Devices : e # d /\ IsPrepared(e)' =>
           AreApart(random(d), random(e)) /\ AreApart(random(e), random(d))
    BY <1>5, <1>6, <1>7 DEF AreApart, fresh
  <1>12. \A e, f \in Devices :
           e # f /\ IsPrepared(e)' /\ IsPrepared(f)' => AreApart(random(e), random(f))
    <2> SUFFICES ASSUME NEW e \in Devices, NEW f \in Devices, e # f,
                        IsPrepared(e)', IsPrepared(f)'
                 PROVE  AreApart(random(e), random(f))
      OBVIOUS
    <2>1. CASE e = d
      BY <1>11, <2>1
    <2>2. CASE f = d
      BY <1>11, <2>2
    <2>3. CASE e # d /\ f # d
      BY <1>7, <2>3 DEF JobInv, RandomsDiffer
    <2> QED
      BY <2>1, <2>2, <2>3
  <1>13. RandomsDiffer'
    <2>1. \A e \in Devices : IsPrepared(e)' => AreFresh(Randoms(e))'
      BY <1>3, <1>10 DEF AreFresh, random
    <2>2. \A e, f \in Devices :
            e # f /\ IsPrepared(e)' /\ IsPrepared(f)' => AreApart(Randoms(e), Randoms(f))'
      BY <1>12 DEF AreApart, random
    <2> QED
      BY <2>1, <2>2 DEF RandomsDiffer
  <1> QED
    BY <1>2, <1>4, <1>13 DEF JobInv

(* The steps of a device. *)
LEMMA RowCount ==
  ASSUME TablesInv, Contiguous
  PROVE  Cardinality(Rows) \in Nat
  <1>1. PICK k \in 0 .. Len(calls) : IsNumbered(Rows, 2 * k)
    BY NumberedRows
  <1> DEFINE n == 2 * k
             rows == Rows
  <1>2. n \in Nat /\ IsNumbered(rows, n)
    BY <1>1, LeafCount
  <1> HIDE DEF n, rows
  <1>3. rows = {row \in rows : row.index < n}
    BY <1>2 DEF IsNumbered
  <1>4. Cardinality({row \in rows : row.index < n}) = n
    BY <1>2, CountBelow
  <1> QED
    BY <1>2, <1>3, <1>4 DEF rows

LEMMA NoStep ==
  ASSUME JobInv, Grows, TablesInv', UNCHANGED <<txs, calls, job>>
  PROVE  JobInv'
  <1>1. OnChain' = OnChain /\ Leaves' = Leaves
    BY ChainSame
  <1>2. BoundsInv' /\ LeavesOK' /\ LeavesDiffer'
    BY <1>1 DEF JobInv, BoundsInv, LeavesOK, LeavesDiffer, HasRoom
  <1>3. RandomsDiffer'
    BY <1>1 DEF JobInv, RandomsDiffer, IsPrepared, Randoms, AreFresh, AreApart
  <1>4. \A d \in Devices : WorkOK(job[d])' /\ RootOK(job[d])'
    <2> SUFFICES ASSUME NEW d \in Devices
                 PROVE  WorkOK(job[d])' /\ RootOK(job[d])'
      OBVIOUS
    <2>1. WorkOK(job[d]) /\ RootOK(job[d])
      BY DEF JobInv, WorkInv
    <2>2. PICK work : work = job[d]
      OBVIOUS
    <2>3. RootOK(work)'
      BY <2>1, <2>2, RootRemains DEF JobInv, TablesInv
    <2> QED
      BY <2>1, <2>2, <2>3 DEF RootOK, WasRoot
  <1>5. WorkInv'
    BY <1>4 DEF JobInv, WorkInv
  <1> QED
    BY <1>2, <1>3, <1>5 DEF JobInv

LEMMA InsertKeepsJobs ==
  ASSUME JobInv, Grows, TablesInv', NEW t \in DOMAIN txs,
         InsertOutputs(t) \/ InsertSpentNullifiers(t)
  PROVE  JobInv'
  <1>1. UNCHANGED <<txs, calls, job>>
    BY DEF InsertOutputs, InsertSpentNullifiers
  <1> QED
    BY <1>1, NoStep

LEMMA WorkOf ==
  ASSUME JobInv, NEW d \in Devices
  PROVE  WorkOK(job[d]) /\ RootOK(job[d]) /\ TablesInv /\ BoundsInv
         /\ LeavesOK /\ LeavesDiffer /\ WorkInv
  BY DEF JobInv, WorkInv

LEMMA ScanKeeps ==
  ASSUME JobInv, Grows, TablesInv', NEW d \in Devices, Scan(d)
  PROVE  JobInv'
  <1> DEFINE backup == Cardinality(Rows)
             balance == Total(ListOwnedNotes(backup))
             record == [stage |-> "scanned", backup |-> backup, balance |-> balance]
  <1>1. backup \in Nat
    BY RowCount, WorkOf DEF Scan
  <1>2. balance \in Nat
    BY BalanceIsNat, WorkOf
  <1>3. Become(d, record)
    BY DEF Scan
  <1> HIDE DEF backup, balance
  <1>4. WorkOK(record) /\ RootOK(record) /\ record.stage # "prepared"
    BY <1>1, <1>2 DEF WorkOK, RootOK
  <1> HIDE DEF record
  <1> QED
    BY <1>3, <1>4, StageStep

LEMMA QuoteKeeps ==
  ASSUME JobInv, Grows, TablesInv', NEW d \in Devices, NEW recipient \in Payments,
         Quote(d, recipient)
  PROVE  JobInv'
  <1> DEFINE backup == job[d].backup
             balance == job[d].balance
             funds == GetPrivateBalance(backup)
             quote == TransferQuote(recipient, funds, WithdrawBps, RentFee)
             record == [stage |-> "quoted", quote |-> quote, backup |-> backup,
                        balance |-> balance]
  <1>1. backup \in Nat
    BY WorkOf DEF WorkOK, Quote
  <1>2. funds \in Nat
    BY BalanceIsNat, WorkOf DEF GetPrivateBalance
  <1>3. IsTransferQuote(quote)
    BY <1>2, QuoteOK
  <1>4. Become(d, record)
    BY DEF Quote
  <1> HIDE DEF backup, balance, funds, quote
  <1>5. WorkOK(record) /\ RootOK(record) /\ record.stage # "prepared"
    BY <1>1, <1>3 DEF WorkOK, RootOK
  <1> HIDE DEF record
  <1> QED
    BY <1>4, <1>5, StageStep

LEMMA SelectKeeps ==
  ASSUME JobInv, Grows, TablesInv', NEW d \in Devices, Select(d)
  PROVE  JobInv'
  <1> DEFINE quote == job[d].quote
             balance == job[d].balance
             backup == job[d].backup
             record(notes) == [stage |-> "selected", quote |-> quote, notes |-> notes,
                               balance |-> balance]
  <1>1. PICK notes \in PickNotes(ListOwnedNotes(backup), quote.gross) :
               Become(d, record(notes))
    BY DEF Select
  <1>2. IsTransferQuote(quote)
    BY WorkOf DEF WorkOK, Select
  <1>3. SelectionOK(notes)
    BY <1>1, SelectOK, WorkOf
  <1> DEFINE made == record(notes)
  <1> HIDE DEF quote, balance
  <1>4. WorkOK(made) /\ RootOK(made) /\ made.stage # "prepared"
    BY <1>2, <1>3 DEF WorkOK, RootOK
  <1> HIDE DEF made
  <1>5. Become(d, made)
    BY <1>1 DEF made
  <1> QED
    BY <1>4, <1>5, StageStep

LEMMA GetMerkleProofKeeps ==
  ASSUME JobInv, Grows, TablesInv', NEW d \in Devices, GetMerkleProof(d)
  PROVE  JobInv'
  <1> DEFINE quote == job[d].quote
             balance == job[d].balance
             notes == job[d].notes
             leaves == ListOutputsForTree
             state == MerkleState(leaves)
             bound == [i \in DOMAIN notes |->
                         BindToMerkleProof(notes[i],
                           ProofOf(Height, leaves, notes[i].commitment))]
             record == [stage |-> "proved", quote |-> quote, balance |-> balance,
                        state |-> state, notes |-> bound]
  <1>1. /\ IsTransferQuote(quote) /\ SelectionOK(notes)
    BY WorkOf DEF WorkOK, GetMerkleProof
  <1>2. Become(d, record) /\ Contiguous /\ ValidateMerkleProof(notes, leaves)
    BY DEF GetMerkleProof
  <1>3. IsMerkleState(state) /\ ProvedOK(bound, state.root)
    BY <1>1, <1>2, ProofsOK, WorkOf
  <1>4. WasRoot(state.root)
    BY <1>2, TableRoot, WorkOf
  <1> HIDE DEF quote, balance, state, bound
  <1>5. WorkOK(record) /\ RootOK(record) /\ record.stage # "prepared"
    BY <1>1, <1>3, <1>4 DEF WorkOK, RootOK
  <1> HIDE DEF record
  <1> QED
    BY <1>2, <1>5, StageStep

LEMMA IdleKeeps ==
  ASSUME JobInv, Grows, TablesInv', NEW d \in Devices, Become(d, Idle)
  PROVE  JobInv'
  <1>1. WorkOK(Idle) /\ RootOK(Idle) /\ Idle.stage # "prepared"
    BY DEF WorkOK, RootOK, Idle
  <1> QED
    BY <1>1, StageStep

LEMMA PrepareKeeps ==
  ASSUME JobInv, Grows, TablesInv', NEW d \in Devices, Prepare(d)
  PROVE  JobInv'
  <1> DEFINE quote == job[d].quote
             notes == job[d].notes
             state == job[d].state
             request == TransferRequest(quote)
             material == TransferMaterial(request, notes, state, FreshRandoms)
             tx == PreparedTransfer(request, material)
             record == [stage |-> "prepared", tx |-> tx]
  <1>1. /\ IsTransferQuote(quote) /\ ProvedOK(notes, state.root) /\ WasRoot(state.root)
    BY WorkOf DEF WorkOK, RootOK, Prepare
  <1>2. /\ Become(d, record) /\ CoversQuote(notes, quote)
        /\ AmountsBalance(Proven(material.proof), FieldSize)
    BY DEF Prepare
  <1>3. PreparedOK(tx) /\ MadeFrom(material, state.root, "recipient", FreshRandoms)
    BY <1>1, <1>2, TransferOK
  <1>4. tx.material = material
    BY DEF PreparedTransfer
  <1> HIDE DEF quote, notes, state, material, tx
  <1>5. /\ WorkOK(record) /\ RootOK(record) /\ record.stage = "prepared"
        /\ \A o \in 1 .. 2 :
             Proven(record.tx.material.proof).outBlinding[o] = FreshRandoms[o]
    BY <1>1, <1>3, <1>4 DEF WorkOK, RootOK, MadeFrom
  <1> HIDE DEF record
  <1> QED
    BY <1>2, <1>5, PreparedStep

LEMMA PrepareDepositKeeps ==
  ASSUME JobInv, Grows, TablesInv', NEW d \in Devices, NEW lamports \in Deposits,
         PrepareDeposit(d, lamports)
  PROVE  JobInv'
  <1> DEFINE request == DepositRequest(DepositQuote(lamports, DepositBps))
             state == MerkleState(ListOutputsForTree)
             material == DepositMaterial(request, state, FreshRandoms)
             tx == PreparedDeposit(request, material)
             record == [stage |-> "prepared", tx |-> tx]
  <1>1. /\ Become(d, record) /\ Contiguous /\ CanDeposit(lamports, DepositBps)
        /\ AmountsBalance(Proven(material.proof), FieldSize)
    BY DEF PrepareDeposit
  <1>2. WasRoot(state.root)
    BY <1>1, TableRoot, WorkOf
  <1>3. FreshRandoms[1] # FreshRandoms[2]
    BY FreshAre, WorkOf DEF AreFresh
  <1>4. PreparedOK(tx) /\ MadeFrom(material, state.root, "me", FreshRandoms)
    BY <1>1, <1>3, DepositOK
  <1>5. tx.material = material
    BY DEF PreparedDeposit
  <1> HIDE DEF state, material, tx
  <1>6. /\ WorkOK(record) /\ RootOK(record) /\ record.stage = "prepared"
        /\ \A o \in 1 .. 2 :
             Proven(record.tx.material.proof).outBlinding[o] = FreshRandoms[o]
    BY <1>2, <1>4, <1>5 DEF WorkOK, RootOK, MadeFrom
  <1> HIDE DEF record
  <1> QED
    BY <1>1, <1>6, PreparedStep

(* A leaf was there, or it is an output of a call that was added. *)
IsNewLeaf(i, c, o) == i = 2 * (c - 1) + o /\ OnChain'[i] = calls'[c].outputs[o]

LEMMA LeafOrNew ==
  ASSUME ChainInv, ChainInv', Grows, NEW i \in Leaves'
  PROVE  \/ i \in Leaves /\ OnChain'[i] = OnChain[i]
         \/ \E c \in Len(calls) + 1 .. Len(calls') : \E o \in 1 .. 2 : IsNewLeaf(i, c, o)
  <1>1. Len(calls) \in Nat /\ Len(calls') \in Nat /\ Len(calls) <= Len(calls')
    BY LenProperties DEF ChainInv, Grows
  <1>2. CASE i \in Leaves
    BY <1>2, LeafStays
  <1>3. CASE i \notin Leaves
    <2> DEFINE c == (i + 1) \div 2
               o == IF i % 2 = 1 THEN 1 ELSE 2
               n == Len(calls)
               m == Len(calls')
    <2>1. i \in 1 .. 2 * m /\ i \notin 1 .. 2 * n
      BY <1>3 DEF Leaves
    <2>2. OnChain'[i] = calls'[c].outputs[o]
      BY <2>1 DEF OnChain
    <2>3. c \in n + 1 .. m /\ o \in 1 .. 2 /\ i = 2 * (c - 1) + o
      <3> HIDE DEF n, m
      <3> QED
        BY <1>1, <2>1 DEF n, m
    <2> HIDE DEF c, o
    <2> QED
      BY <2>2, <2>3 DEF IsNewLeaf
  <1> QED
    BY <1>2, <1>3

(* The program has room for the calls it takes, and not more transactions   *)
(* are made than the bound allows.                                          *)
LEMMA BoundsStep ==
  ASSUME TablesInv, BoundsInv, Len(txs) < MaxTxs,
         NEW shape \in Shapes \union {"direct"}, txs' = Append(txs, shape),
         NEW n \in Nat, HasRoom(n), Len(calls') = Len(calls) + n
  PROVE  BoundsInv'
  <1>1. Len(txs) \in Nat /\ MaxTxs \in Nat /\ txs \in Seq(Kinds) /\ Len(calls) \in Nat
    BY PoolAssumption, LeafCount DEF TablesInv, ChainInv
  <1>2. shape \in Shapes \union {"initialize", "direct"}
    OBVIOUS
  <1>3. /\ Len(txs') = Len(txs) + 1 /\ txs'[Len(txs) + 1] = shape
        /\ \A t \in 1 .. Len(txs) : txs'[t] = txs[t]
    <2>1. shape \in Kinds
      BY PoolAssumption DEF Kinds
    <2> QED
      BY <1>1, <2>1
  <1>4. Len(txs') <= MaxTxs
    BY <1>1, <1>3
  <1>5. \A t \in 1 .. Len(txs') : txs'[t] \in Shapes \union {"initialize", "direct"}
    <2>1. \A t \in 1 .. Len(txs') : t \in 1 .. Len(txs) \/ t = Len(txs) + 1
      BY <1>1, <1>3
    <2>2. \A t \in 1 .. Len(txs) : txs[t] \in Shapes \union {"initialize", "direct"}
      BY DEF BoundsInv
    <2> QED
      BY <1>2, <1>3, <2>1, <2>2
  <1>6. HasRoom(0)'
    <2>1. Len(calls') + 0 = Len(calls) + n
      BY <1>1
    <2> QED
      BY <2>1 DEF HasRoom
  <1> QED
    BY <1>4, <1>5, <1>6 DEF BoundsInv

(* A device's transaction landed. *)
IsLanded(call, material) ==
  call.outputs = <<OutputOf(material, 1), OutputOf(material, 2)>>

LEMMA LandedCall ==
  ASSUME JobInv, NEW d \in Devices, Land(d)
  PROVE  /\ PreparedOK(job[d].tx) /\ HasRoom(1)
         /\ \E call : calls' = Append(calls, call) /\ IsLanded(call, job[d].tx.material)
  <1> DEFINE tx == job[d].tx
  <1>1. PreparedOK(tx)
    BY WorkOf DEF WorkOK, Land
  <1>2. PICK message \in Sent(tx) :
               /\ Accepts(Last(message)) /\ calls' = Append(calls, CallOf(Last(message)))
    BY DEF Land
  <1> HIDE DEF tx
  <1>3. IsInstructionOf(Last(message), tx)
    BY <1>1, SentInstruction DEF PreparedOK
  <1> DEFINE instruction == Last(message)
             call == CallOf(instruction)
  <1>4. IsLanded(call, tx.material)
    <2> HIDE DEF instruction
    <2> QED
      BY <1>3, CallIs DEF IsLanded, instruction
  <1>5. calls' = Append(calls, call) /\ HasRoom(1)
    BY <1>2 DEF Accepts
  <1> HIDE DEF call
  <1> QED
    BY <1>1, <1>4, <1>5 DEF tx

LandedLeaf(i, material, o) ==
  /\ i = 2 * Len(calls) + o /\ OnChain'[i] = OutputOf(material, o)

LEMMA LandedLeaves ==
  ASSUME TablesInv, Grows, TablesInv', NEW call, calls' = Append(calls, call), NEW material,
         IsLanded(call, material), NEW i \in Leaves'
  PROVE  \/ i \in Leaves /\ OnChain'[i] = OnChain[i]
         \/ \E o \in 1 .. 2 : LandedLeaf(i, material, o)
  <1>1. Len(calls) \in Nat /\ Len(calls') = Len(calls) + 1 /\ calls'[Len(calls) + 1] = call
    <2>1. PICK S : calls \in Seq(S)
      BY DEF TablesInv, ChainInv
    <2>2. calls \in Seq(S \union {call}) /\ call \in S \union {call}
      BY <2>1
    <2> QED
      BY <2>2, LenProperties
  <1>2. CASE i \in Leaves /\ OnChain'[i] = OnChain[i]
    BY <1>2
  <1>3. CASE \E c \in Len(calls) + 1 .. Len(calls') : \E o \in 1 .. 2 : IsNewLeaf(i, c, o)
    <2>1. PICK c \in Len(calls) + 1 .. Len(calls'), o \in 1 .. 2 : IsNewLeaf(i, c, o)
      BY <1>3
    <2>2. c = Len(calls) + 1 /\ 2 * (c - 1) + o = 2 * Len(calls) + o
      BY <1>1, <2>1
    <2>3. call.outputs[o] = OutputOf(material, o)
      BY DEF IsLanded
    <2> QED
      BY <1>1, <2>1, <2>2, <2>3 DEF IsNewLeaf, LandedLeaf
  <1> QED
    BY <1>2, <1>3, LeafOrNew DEF TablesInv

LEMMA LandKeepsJobs ==
  ASSUME JobInv, Grows, TablesInv', NEW d \in Devices, Land(d)
  PROVE  JobInv'
  <1> DEFINE material == job[d].tx.material
             pair == Randoms(d)
  <1>1. PICK call : /\ calls' = Append(calls, call) /\ IsLanded(call, material)
    BY LandedCall
  <1>2. /\ MaterialOK(material, job[d].tx.recipient) /\ HasRoom(1)
    BY LandedCall DEF PreparedOK
  <1>3. /\ IsPrepared(d) /\ Len(txs) < MaxTxs /\ txs' = Append(txs, "direct")
        /\ job' = [job EXCEPT ![d] = Idle] /\ UNCHANGED <<outputs, spends, table>>
    BY DEF Land, IsPrepared
  <1>4. Len(calls) \in Nat /\ Len(calls') = Len(calls) + 1
    <2>1. PICK S : calls \in Seq(S)
      BY DEF JobInv, TablesInv, ChainInv
    <2>2. calls \in Seq(S \union {call}) /\ call \in S \union {call}
      BY <2>1
    <2> QED
      BY <1>1, <2>2, LenProperties
  <1>5. BoundsInv'
    BY <1>2, <1>3, <1>4, BoundsStep DEF JobInv
  <1>6. /\ WorkInv' /\ job'[d] = Idle
        /\ \A e \in Devices : e # d => job'[e] = job[e]
    <2>1. WorkOK(Idle) /\ RootOK(Idle)
      BY DEF WorkOK, RootOK, Idle
    <2> QED
      BY <1>3, <2>1, JobStep DEF JobInv, TablesInv
  <1> DEFINE new == OnChain'
  <1>7. \A i \in Leaves' : \/ i \in Leaves /\ new[i] = OnChain[i]
                           \/ \E o \in 1 .. 2 : LandedLeaf(i, material, o)
    <2> HIDE DEF material
    <2> QED
      BY <1>1, LandedLeaves DEF JobInv
  <1>8. \A o \in 1 .. 2 : OutputOK(OutputOf(material, o)) /\ IsOurs(OutputOf(material, o))
    BY <1>2 DEF MaterialOK, IsOurs
  <1>9. \A o \in 1 .. 2 : OutputOf(material, o).blinding = pair[o]
    BY DEF OutputOf, Randoms
  <1>10. AreFresh(pair)
    BY <1>3 DEF JobInv, RandomsDiffer
  <1>11. \A e \in Devices : IsPrepared(e)' =>
            e # d /\ IsPrepared(e) /\ Randoms(e)' = Randoms(e)
    BY <1>6 DEF IsPrepared, Randoms, Idle
  <1>12. \A e \in Devices : e # d /\ IsPrepared(e) => AreApart(pair, Randoms(e))
    BY <1>3 DEF JobInv, RandomsDiffer
  <1>13. \A i \in Leaves' : \A o \in 1 .. 2 :
            LandedLeaf(i, material, o) => /\ OutputOK(new[i]) /\ new[i].blinding = pair[o]
                                          /\ i = 2 * Len(calls) + o
    BY <1>8, <1>9 DEF LandedLeaf
  <1> HIDE DEF new, material, pair
  <1>14. \A i \in Leaves' : OutputOK(new[i])
    BY <1>7, <1>13 DEF JobInv, LeavesOK
  <1>15. ASSUME NEW i \in Leaves', NEW j \in Leaves',
                IsOurs(new[i]), IsOurs(new[j]), new[i].blinding = new[j].blinding
         PROVE  i = j
    <2>1. CASE i \in Leaves /\ new[i] = OnChain[i] /\ j \in Leaves /\ new[j] = OnChain[j]
      BY <1>15, <2>1 DEF JobInv, LeavesDiffer
    <2>2. ASSUME NEW o \in 1 .. 2, LandedLeaf(i, material, o),
                 j \in Leaves, new[j] = OnChain[j]
          PROVE  FALSE
      BY <1>10, <1>13, <1>15, <2>2 DEF AreFresh
    <2>3. ASSUME NEW o \in 1 .. 2, LandedLeaf(j, material, o),
                 i \in Leaves, new[i] = OnChain[i]
          PROVE  FALSE
      BY <1>10, <1>13, <1>15, <2>3 DEF AreFresh
    <2>4. ASSUME NEW o \in 1 .. 2, LandedLeaf(i, material, o),
                 NEW p \in 1 .. 2, LandedLeaf(j, material, p)
          PROVE  i = j
      BY <1>10, <1>13, <1>15, <2>4 DEF AreFresh
    <2> QED
      BY <1>7, <2>1, <2>2, <2>3, <2>4
  <1>16. LeavesOK' /\ LeavesDiffer'
    <2>1. LeavesOK'
      BY <1>14 DEF LeavesOK, new
    <2>2. LeavesDiffer'
      BY <1>15 DEF LeavesDiffer, new, IsOurs
    <2> QED
      BY <2>1, <2>2
  <1>17. ASSUME NEW e \in Devices, IsPrepared(e)'
         PROVE  AreFresh(Randoms(e))'
    <2>1. PICK other : other = Randoms(e)
      OBVIOUS
    <2>2. Randoms(e)' = other /\ AreFresh(other) /\ AreApart(pair, other)
      BY <1>11, <1>12, <1>17, <2>1 DEF JobInv, RandomsDiffer
    <2>3. \A o \in 1 .. 2 : \A i \in Leaves' : IsOurs(new[i]) => new[i].blinding # other[o]
      BY <1>7, <1>13, <2>2 DEF AreFresh, AreApart
    <2>4. other[1] # other[2]
      BY <2>2 DEF AreFresh
    <2> QED
      BY <2>2, <2>3, <2>4 DEF AreFresh, IsOurs, new
  <1>18. ASSUME NEW e \in Devices, NEW f \in Devices, e # f, IsPrepared(e)', IsPrepared(f)'
         PROVE  AreApart(Randoms(e), Randoms(f))'
    <2>1. AreApart(Randoms(e), Randoms(f))
      BY <1>11, <1>18 DEF JobInv, RandomsDiffer
    <2> QED
      BY <1>11, <1>18, <2>1 DEF AreApart
  <1>19. RandomsDiffer'
    BY <1>17, <1>18 DEF RandomsDiffer
  <1> QED
    BY <1>5, <1>6, <1>16, <1>19 DEF JobInv

(* The other wallets' transactions are nothing to the wallet's devices. *)
AreOthers(outs) == \A o \in 1 .. 2 : OutputOK(outs[o]) /\ ~IsOurs(outs[o])

LEMMA ForeignOutputs ==
  ASSUME NEW index, NEW randoms, NEW key, key = NoteKey("other"), NEW outs,
         outs = CreateOutputs(key, UtxoPublicKey(UtxoPrivateKey(key)), 1, index, randoms)
  PROVE  AreOthers(outs)
  <1>1. AreCreated(outs, key, 1, randoms)
    BY CreatedOutputs
  <1>2. key # Key
    <2>1. key = <<"other">> /\ Key = <<"me">>
      BY DEF Key, NoteKey
    <2> QED
      BY <2>1
  <1> HIDE DEF Key
  <1> QED
    BY <1>1, <1>2 DEF AreCreated, AreOthers, IsOurs

LEMMA ForeignCalls ==
  ASSUME TablesInv, NEW shape \in Shapes, Foreign(shape)
  PROVE  /\ Len(calls') = Len(calls) + CallsIn(shape) /\ HasRoom(CallsIn(shape))
         /\ \A c \in Len(calls) + 1 .. Len(calls') : AreOthers(calls'[c].outputs)
  <1> DEFINE first == Len(calls)
             key == NoteKey("other")
             randoms(c) == <<-2 * (first + c), -2 * (first + c) - 1>>
             outs(c) == CreateOutputs(key, UtxoPublicKey(UtxoPrivateKey(key)), 1,
                                      2 * (first + c - 1), randoms(c))
             Deposit(c) ==
               Call(CreateInputSlots(<<>>, Height, randoms(c)), outs(c),
                    [amount |-> 1, fee |-> 0])
             count == CallsIn(shape)
             made == [c \in 1 .. count |-> Deposit(c)]
  <1>1. calls' = calls \o made /\ HasRoom(count)
    BY DEF Foreign
  <1>2. PICK T : calls \in Seq(T)
    BY DEF TablesInv, ChainInv
  <1>3. count \in Nat
    BY PoolAssumption DEF CallsIn
  <1>4. \A c \in 1 .. count : Deposit(c).outputs = outs(c)
    BY DEF Call
  <1>5. \A c \in 1 .. count : AreOthers(outs(c))
    <2> HIDE DEF randoms
    <2> QED
      BY ForeignOutputs
  <1> HIDE DEF outs, Deposit
  <1> DEFINE S == T \union {Deposit(c) : c \in 1 .. count}
  <1>6. calls \in Seq(S) /\ \A c \in 1 .. count : Deposit(c) \in S
    BY <1>2
  <1> HIDE DEF S, count
  <1>7. made \in Seq(S) /\ Len(made) = count /\ \A c \in 1 .. count : made[c] = Deposit(c)
    BY <1>3, <1>6
  <1> HIDE DEF made
  <1>8. /\ Len(calls') = Len(calls) + count
        /\ \A c \in 1 .. count : calls'[Len(calls) + c] = made[c]
    <2>1. IsJoined(calls \o made, calls, Len(calls), made, count)
      BY <1>6, <1>7, JoinedAt
    <2> QED
      BY <1>1, <2>1 DEF IsJoined
  <1>9. ASSUME NEW c \in Len(calls) + 1 .. Len(calls')
        PROVE  AreOthers(calls'[c].outputs)
    <2> DEFINE k == c - Len(calls)
    <2>1. k \in 1 .. count /\ Len(calls) + k = c
      BY <1>3, <1>8, LeafCount
    <2> HIDE DEF k
    <2>2. calls'[c] = Deposit(k)
      BY <1>7, <1>8, <2>1
    <2> QED
      BY <1>4, <1>5, <2>1, <2>2
  <1> QED
    BY <1>1, <1>8, <1>9 DEF count

LEMMA ForeignKeepsJobs ==
  ASSUME JobInv, Grows, TablesInv', NEW shape \in Shapes, Foreign(shape)
  PROVE  JobInv'
  <1>1. /\ txs' = Append(txs, shape) /\ Len(txs) < MaxTxs
        /\ UNCHANGED <<outputs, spends, table, job>>
    BY DEF Foreign
  <1>2. CallsIn(shape) \in Nat
    BY PoolAssumption DEF CallsIn
  <1>3. BoundsInv'
    BY <1>1, <1>2, BoundsStep, ForeignCalls DEF JobInv
  <1>4. WorkInv'
    <2> SUFFICES ASSUME NEW d \in Devices
                 PROVE  WorkOK(job[d])' /\ RootOK(job[d])'
      BY <1>1 DEF JobInv, WorkInv
    <2>1. PICK work : work = job[d]
      OBVIOUS
    <2>2. WorkOK(work) /\ RootOK(work)
      BY <2>1 DEF JobInv, WorkInv
    <2>3. RootOK(work)'
      BY <2>2, RootRemains DEF JobInv, TablesInv
    <2> QED
      BY <1>1, <2>1, <2>2, <2>3 DEF RootOK, WasRoot
  <1> DEFINE new == OnChain'
  <1>5. \A i \in Leaves' : \/ i \in Leaves /\ new[i] = OnChain[i]
                           \/ OutputOK(new[i]) /\ ~IsOurs(new[i])
    <2> SUFFICES ASSUME NEW i \in Leaves'
                 PROVE  \/ i \in Leaves /\ new[i] = OnChain[i]
                        \/ OutputOK(new[i]) /\ ~IsOurs(new[i])
      OBVIOUS
    <2>1. CASE \E c \in Len(calls) + 1 .. Len(calls') : \E o \in 1 .. 2 : IsNewLeaf(i, c, o)
      BY <2>1, ForeignCalls DEF JobInv, IsNewLeaf, AreOthers
    <2> QED
      BY <2>1, LeafOrNew DEF JobInv, TablesInv
  <1> HIDE DEF new
  <1>6. \A i \in Leaves' : OutputOK(new[i])
    BY <1>5 DEF JobInv, LeavesOK
  <1>7. ASSUME NEW i \in Leaves', NEW j \in Leaves',
               IsOurs(new[i]), IsOurs(new[j]), new[i].blinding = new[j].blinding
        PROVE  i = j
    BY <1>5, <1>7 DEF JobInv, LeavesDiffer
  <1>8. LeavesOK' /\ LeavesDiffer'
    <2>1. LeavesOK'
      BY <1>6 DEF LeavesOK, new
    <2>2. LeavesDiffer'
      BY <1>7 DEF LeavesDiffer, new, IsOurs
    <2> QED
      BY <2>1, <2>2
  <1>9. \A e \in Devices : /\ IsPrepared(e)' <=> IsPrepared(e)
                           /\ Randoms(e)' = Randoms(e)
    BY <1>1 DEF IsPrepared, Randoms
  <1>10. ASSUME NEW e \in Devices, IsPrepared(e)'
         PROVE  AreFresh(Randoms(e))'
    <2>1. PICK other : other = Randoms(e)
      OBVIOUS
    <2>2. Randoms(e)' = other /\ AreFresh(other)
      BY <1>9, <1>10, <2>1 DEF JobInv, RandomsDiffer
    <2>3. \A o \in 1 .. 2 : \A i \in Leaves' : IsOurs(new[i]) => new[i].blinding # other[o]
      BY <1>5, <2>2 DEF AreFresh
    <2>4. other[1] # other[2]
      BY <2>2 DEF AreFresh
    <2> QED
      BY <2>2, <2>3, <2>4 DEF AreFresh, IsOurs, new
  <1>11. ASSUME NEW e \in Devices, NEW f \in Devices, e # f, IsPrepared(e)', IsPrepared(f)'
         PROVE  AreApart(Randoms(e), Randoms(f))'
    <2>1. AreApart(Randoms(e), Randoms(f))
      BY <1>9, <1>11 DEF JobInv, RandomsDiffer
    <2> QED
      BY <1>9, <1>11, <2>1 DEF AreApart
  <1>12. RandomsDiffer'
    BY <1>10, <1>11 DEF RandomsDiffer
  <1> QED
    BY <1>3, <1>4, <1>8, <1>12 DEF JobInv

(* The first deposits, of an earlier version of the client. *)
LEMMA OldOutputsOK ==
  ASSUME NEW t, OpeningAmounts[t] \in Nat, NEW o \in 1 .. 2
  PROVE  OutputOK(OldOutputs(t)[o]) /\ OldOutputs(t)[o].blinding = OldRandoms(t)[o]
  <1> DEFINE outs == CreateOutputs(Key, UtxoPublicKey(UtxoPrivateKey(Key)),
                                   OpeningAmounts[t], 2 * t - 2, OldRandoms(t))
  <1>1. AreCreated(outs, Key, OpeningAmounts[t], OldRandoms(t))
    BY CreatedOutputs
  <1>2. outs[o] = [amount |-> outs[o].amount, publicKey |-> outs[o].publicKey,
                   blinding |-> outs[o].blinding, commitment |-> outs[o].commitment,
                   encrypted |-> outs[o].encrypted]
    BY DEF CreateOutputs
  <1>3. outs[o].encrypted = [version |-> "v3", key |-> outs[o].encrypted.key,
                             payload |-> outs[o].encrypted.payload]
    BY DEF CreateOutputs, EncryptOutput
  <1> DEFINE old == [outs[o] EXCEPT !.encrypted.version = "v2"]
  <1>4. OldOutputs(t)[o] = old
    BY DEF OldOutputs
  <1> HIDE DEF outs
  <1>5. /\ old.amount = outs[o].amount /\ old.publicKey = outs[o].publicKey
        /\ old.blinding = outs[o].blinding /\ old.commitment = outs[o].commitment
        /\ old.encrypted.version = "v2" /\ old.encrypted.key = outs[o].encrypted.key
        /\ old.encrypted.payload = outs[o].encrypted.payload
    <2> DEFINE out == outs[o]
    <2> HIDE DEF out
    <2>1. old = [out EXCEPT !.encrypted.version = "v2"]
      BY DEF out
    <2>2. /\ out = [amount |-> out.amount, publicKey |-> out.publicKey,
                   blinding |-> out.blinding, commitment |-> out.commitment,
                   encrypted |-> out.encrypted]
          /\ out.encrypted = [version |-> "v3", key |-> out.encrypted.key,
                              payload |-> out.encrypted.payload]
      BY <1>2, <1>3 DEF out
    <2> HIDE DEF old
    <2>3. old = [amount |-> out.amount, publicKey |-> out.publicKey,
                 blinding |-> out.blinding, commitment |-> out.commitment,
                 encrypted |-> [version |-> "v2", key |-> out.encrypted.key,
                                payload |-> out.encrypted.payload]]
      BY <2>1, <2>2
    <2> QED
      BY <2>3 DEF out
  <1> HIDE DEF old
  <1>6. OutputOK(outs[o]) /\ outs[o].blinding = OldRandoms(t)[o]
    BY <1>1 DEF AreCreated
  <1>7. OutputOK(old)
    BY <1>5, <1>6 DEF OutputOK
  <1> QED
    BY <1>4, <1>5, <1>6, <1>7

LEMMA InitJobs == Init => JobInv
  <1> SUFFICES ASSUME Init
               PROVE  JobInv
    OBVIOUS
  <1> DEFINE n == Len(OpeningAmounts)
             direct == [t \in 1 .. n |-> "direct"]
  <1>1. /\ n \in Nat /\ n >= 1 /\ DOMAIN OpeningAmounts = 1 .. n /\ n + 1 <= MaxTxs
        /\ n <= Capacity(Height) \div 2
        /\ \A t \in 1 .. n : OpeningAmounts[t] \in Nat
    BY OpeningAssumption, PoolAssumption
  <1>2. calls = [t \in 1 .. n |-> OldDeposit(t)]
    BY <1>1 DEF Init
  <1>3. txs = <<"initialize">> \o direct
    BY <1>1 DEF Init
  <1> HIDE DEF n
  <1>4. Len(calls) = n
    BY <1>1, <1>2
  <1>5. \A t \in 1 .. n : calls[t].outputs = OldOutputs(t)
    BY <1>2 DEF OldDeposit, Call
  <1>6. ASSUME NEW i \in Leaves
        PROVE  OutputOK(OnChain[i]) /\ OnChain[i].blinding = i
    <2> DEFINE c == (i + 1) \div 2
               o == IF i % 2 = 1 THEN 1 ELSE 2
    <2>1. /\ i \in 1 .. 2 * n /\ c \in 1 .. n /\ o \in 1 .. 2
          /\ 2 * c - 2 + o = i
      BY <1>1, <1>4 DEF Leaves
    <2>2. OnChain[i] = calls[c].outputs[o]
      BY <1>4, <2>1 DEF OnChain
    <2> HIDE DEF o, c
    <2>3. OldRandoms(c)[o] = 2 * c - 2 + o
      BY <2>1 DEF OldRandoms
    <2> QED
      BY <1>1, <1>5, <2>1, <2>2, <2>3, OldOutputsOK
  <1>7. LeavesOK /\ LeavesDiffer
    BY <1>6 DEF LeavesOK, LeavesDiffer
  <1>8. /\ job = [d \in Devices |-> job[d]] /\ \A d \in Devices : job[d] = Idle
    BY DEF Init
  <1>9. WorkInv
    BY <1>8 DEF WorkInv, WorkOK, RootOK, Idle
  <1>10. RandomsDiffer
    BY <1>8 DEF RandomsDiffer, IsPrepared, Idle
  <1>11. /\ Len(txs) <= MaxTxs
         /\ \A t \in 1 .. Len(txs) : txs[t] \in Shapes \union {"initialize", "direct"}
    <2> DEFINE S == Shapes \union {"initialize", "direct"}
    <2>1. "direct" \in S /\ "initialize" \in S
      OBVIOUS
    <2> HIDE DEF S
    <2>2. direct \in Seq(S) /\ Len(direct) = n /\ <<"initialize">> \in Seq(S)
          /\ Len(<<"initialize">>) = 1
      BY <1>1, <2>1
    <2> HIDE DEF direct
    <2>3. txs \in Seq(S) /\ Len(txs) = 1 + n
      BY <1>1, <1>3, <2>2
    <2>4. \A t \in 1 .. Len(txs) : txs[t] \in S
      BY <2>3
    <2>5. MaxTxs \in Nat
      BY PoolAssumption
    <2> QED
      BY <1>1, <2>3, <2>4, <2>5 DEF S
  <1>12. HasRoom(0)
    <2>1. Len(calls) + 0 = n
      BY <1>1, <1>4
    <2> QED
      BY <1>1, <2>1 DEF HasRoom
  <1> QED
    BY <1>7, <1>8, <1>9, <1>10, <1>11, <1>12, InitTables DEF JobInv, BoundsInv

LEMMA NextJobs == JobInv /\ [Next]_vars => JobInv'
  <1> SUFFICES ASSUME JobInv, [Next]_vars
               PROVE  JobInv'
    OBVIOUS
  <1>1. Grows /\ TablesInv'
    BY NextGrows DEF JobInv
  <1>2. ASSUME NEW t \in DOMAIN txs, InsertOutputs(t) \/ InsertSpentNullifiers(t)
        PROVE  JobInv'
    BY <1>1, <1>2, InsertKeepsJobs
  <1>3. ASSUME NEW d \in Devices, NEW recipient \in Payments, Quote(d, recipient)
        PROVE  JobInv'
    BY <1>1, <1>3, QuoteKeeps
  <1>4. ASSUME NEW d \in Devices, NEW lamports \in Deposits, PrepareDeposit(d, lamports)
        PROVE  JobInv'
    BY <1>1, <1>4, PrepareDepositKeeps
  <1>5. ASSUME NEW d \in Devices, Scan(d)
        PROVE  JobInv'
    BY <1>1, <1>5, ScanKeeps
  <1>6. ASSUME NEW d \in Devices, Select(d)
        PROVE  JobInv'
    BY <1>1, <1>6, SelectKeeps
  <1>7. ASSUME NEW d \in Devices, GetMerkleProof(d)
        PROVE  JobInv'
    BY <1>1, <1>7, GetMerkleProofKeeps
  <1>8. ASSUME NEW d \in Devices, Prepare(d)
        PROVE  JobInv'
    BY <1>1, <1>8, PrepareKeeps
  <1>9. ASSUME NEW d \in Devices, Fail(d) \/ Discard(d)
        PROVE  JobInv'
    BY <1>1, <1>9, IdleKeeps DEF Fail, Discard
  <1>10. ASSUME NEW d \in Devices, Land(d)
         PROVE  JobInv'
    BY <1>1, <1>10, LandKeepsJobs
  <1>11. ASSUME NEW shape \in Shapes, Foreign(shape)
         PROVE  JobInv'
    BY <1>1, <1>11, ForeignKeepsJobs
  <1>12. ASSUME UNCHANGED vars
         PROVE  JobInv'
    <2>1. UNCHANGED <<txs, calls, job>>
      BY <1>12 DEF vars
    <2> QED
      BY <1>1, <2>1, NoStep
  <1> QED
    BY <1>2, <1>3, <1>4, <1>5, <1>6, <1>7, <1>8, <1>9, <1>10, <1>11, <1>12 DEF Next

LEMMA JobsHold == Spec => []JobInv
  BY InitJobs, NextJobs, PTL DEF Spec

-------------------------------------------------------------------------------
(* What the devices can rely on.                                            *)

(* The root of every proof a device has prepared is one the pool had: what  *)
(* the indexer gave it was built of the leaves of the first calls, with no  *)
(* hole, though rows were stored in any order (ensureContiguousOutputs).    *)
THEOREM RootsAreReal == Spec => []ProvenRootsAreReal
  <1>1. JobInv => ProvenRootsAreReal
    <2> SUFFICES ASSUME JobInv, NEW d \in Devices, job[d].stage = "prepared"
                 PROVE  \E k \in DOMAIN Roots : Roots[k] = job[d].tx.material.proof.root
      BY DEF ProvenRootsAreReal
    <2>1. WasRoot(job[d].tx.material.proof.root)
      BY WorkOf DEF RootOK
    <2> QED
      BY <2>1, RootsAre, WorkOf DEF WasRoot, TablesInv
  <1> QED
    BY <1>1, JobsHold, PTL

(* Whatever is handed from step to step passes the schema of the next one. *)
LEMMA WorkPasses ==
  ASSUME NEW work, WorkOK(work)
  PROVE  JobOK(work)
  <1>1. CASE work.stage = "idle"
    BY <1>1 DEF JobOK
  <1>2. CASE work.stage = "scanned"
    BY <1>2 DEF JobOK, WorkOK
  <1>3. CASE work.stage = "quoted"
    BY <1>3 DEF JobOK, WorkOK
  <1>4. CASE work.stage = "selected"
    <2>1. SelectionOK(work.notes)
      BY <1>4 DEF WorkOK
    <2>2. AreSelectedNotes(work.notes)
      BY <2>1 DEF SelectionOK, AreTwo, SelectedNote, AreSelectedNotes
    <2> QED
      BY <1>4, <2>2 DEF JobOK
  <1>5. CASE work.stage = "proved"
    <2>1. IsMerkleState(work.state) /\ ProvedOK(work.notes, work.state.root)
      BY <1>5 DEF WorkOK
    <2>2. \A i \in DOMAIN work.notes : IsCircuitInputNote(work.notes[i], Height)
      BY <2>1 DEF ProvedOK, AreTwo, ProvedNote
    <2> QED
      BY <1>5, <2>1, <2>2 DEF JobOK
  <1>6. CASE work.stage = "prepared"
    <2>1. PreparedOK(work.tx)
      BY <1>6 DEF WorkOK
    <2>2. /\ IsProofMaterial(work.tx.material)
          /\ AreCircuitSignals(Proven(work.tx.material.proof), Height)
      BY <2>1 DEF PreparedOK, MaterialOK
    <2>3. IF work.tx.kind = "deposit" THEN IsPreparedDeposit(work.tx, DepositBps)
                                      ELSE IsPreparedTransfer(work.tx)
      BY <2>1, <2>2 DEF PreparedOK, IsPreparedDeposit, IsPreparedTransfer
    <2> QED
      BY <1>6, <2>2, <2>3 DEF JobOK
  <1> QED
    BY <1>1, <1>2, <1>3, <1>4, <1>5, <1>6 DEF WorkOK

(* What the variables hold, and that everything a device's steps hand on    *)
(* passes the schema of the next step: the strict zod schemas never end an  *)
(* operation (schemas of packages/client).                                  *)
THEOREM StepsPassTheirSchemas == Spec => []TypeOK
  <1>1. JobInv => TypeOK
    <2> SUFFICES ASSUME JobInv
                 PROVE  TypeOK
      OBVIOUS
    <2>1. \A d \in Devices : JobOK(job[d])
      BY WorkPasses, WorkOf
    <2>2. DOMAIN txs = 1 .. Len(txs)
      BY DEF JobInv, TablesInv, ChainInv
    <2>3. /\ Len(txs) <= MaxTxs /\ HasRoom(0)
          /\ \A t \in DOMAIN txs : txs[t] \in Shapes \union {"initialize", "direct"}
      BY <2>2 DEF JobInv, BoundsInv
    <2>4. /\ outputs \subseteq DOMAIN txs /\ spends \subseteq DOMAIN txs
          /\ DOMAIN job = Devices
      BY <2>2 DEF JobInv, TablesInv, StoredInv, WorkInv
    <2> QED
      BY <2>1, <2>3, <2>4 DEF TypeOK
  <1> QED
    BY <1>1, JobsHold, PTL

(* pickNotes gives up only when no two of the notes would do, and what it   *)
(* picks covers the quote, whatever the tables hold by then.                *)
THEOREM PicksAreRight == Spec => []PickIsComplete
  <1>1. JobInv => PickIsComplete
    <2> SUFFICES ASSUME JobInv, NEW d \in Devices, job[d].stage = "quoted"
                 PROVE  PicksWell(ListOwnedNotes(job[d].backup), job[d].quote.gross)
      BY DEF PickIsComplete
    <2>1. job[d].quote.gross \in Nat
      BY WorkOf DEF WorkOK, IsTransferQuote, PositiveLamports
    <2> QED
      BY <2>1, PicksAreComplete, WorkOf
  <1> QED
    BY <1>1, JobsHold, PTL

(* The relayer takes what was prepared. *)
LEMMA RelayerTakes ==
  ASSUME NEW tx, IsProofMaterial(tx.material)
  PROVE  IsRelayed(tx)
  <1> DEFINE material == tx.material
             request == RequestOf(tx)
             encoded == EncodeProof(material.proof)
  <1>1. request = [programAddress |-> "pool", recipient |-> tx.recipient,
                   feeRecipient |-> "treasury", nullifiers |-> material.nullifiers,
                   proof |-> encoded, extData |-> material.extData,
                   encryptedOutput1 |-> Bytes(OutputSize, material.encryptedOutput1),
                   encryptedOutput2 |-> Bytes(OutputSize, material.encryptedOutput2)]
    BY DEF RequestOf, RelayTransferRequest
  <1>2. [i \in DOMAIN encoded |-> encoded[i].size] = ProofSizes
    <2> DEFINE values(i) == encoded[i].value
    <2>1. DOMAIN encoded = 1 .. 10 /\ \A i \in 1 .. 10 : encoded[i].size = ProofSizes[i]
      BY DEF EncodeProof, Bytes
    <2>2. ProofSizes = [i \in 1 .. 10 |-> ProofSizes[i]]
      BY DEF ProofSizes
    <2> HIDE DEF encoded
    <2> QED
      BY <2>1, <2>2
  <1>3. /\ Len(material.nullifiers) = 4
        /\ material.extData.amount \in Int /\ material.extData.fee \in Nat
    BY DEF IsProofMaterial
  <1> HIDE DEF material, request, encoded
  <1>4. /\ request.programAddress = "pool" /\ request.feeRecipient = "treasury"
        /\ request.nullifiers = material.nullifiers /\ request.proof = encoded
        /\ request.extData = material.extData
        /\ request.encryptedOutput1.size = OutputSize
        /\ request.encryptedOutput2.size = OutputSize
    BY <1>1 DEF Bytes
  <1>5. OutputSize \in 1 .. MaxOutputSize
    BY DEF OutputSize, MaxOutputSize
  <1> QED
    BY <1>2, <1>3, <1>4, <1>5 DEF IsRelayed, IsRelayRequest, RelayPolicy, request

(* What a device has prepared passes the relayer and, by either way, gives  *)
(* an instruction the program accepts but for a root it has forgotten, a    *)
(* nullifier that is used and a full tree: its paths lead to its root, its  *)
(* nullifiers are those of the leaves' positions, its amounts balance, and  *)
(* what was hashed is what the instruction says (createCircuitInput,        *)
(* createProofMaterial, buildTransactInstruction).                          *)
THEOREM PreparedIsAccepted == Spec => []PreparedVerifies
  <1>1. JobInv => PreparedVerifies
    <2> SUFFICES ASSUME JobInv, NEW d \in Devices, job[d].stage = "prepared"
                 PROVE  /\ job[d].tx.kind = "transfer" => IsRelayed(job[d].tx)
                        /\ \A message \in Sent(job[d].tx) :
                             IsWellFormed(Last(message), "pool", FieldSize)
      BY DEF PreparedVerifies
    <2>1. PICK tx : tx = job[d].tx
      OBVIOUS
    <2>2. PreparedOK(tx)
      BY <2>1, WorkOf DEF WorkOK
    <2>3. /\ IsProofMaterial(tx.material) /\ IsTied(tx.material, tx.recipient)
          /\ tx.kind = "deposit" => tx.recipient = tx.owner
      BY <2>2 DEF PreparedOK, MaterialOK
    <2>4. ASSUME NEW message \in Sent(tx)
          PROVE  IsWellFormed(Last(message), "pool", FieldSize)
      <3>1. IsInstructionOf(Last(message), tx)
        BY <2>3, SentInstruction
      <3> QED
        BY <2>3, <3>1, WellFormed
    <2>5. IsRelayed(tx)
      BY <2>3, RelayerTakes
    <2> QED
      BY <2>1, <2>4, <2>5
  <1> QED
    BY <1>1, JobsHold, PTL

-------------------------------------------------------------------------------
(* What the parser reads of a transaction's instructions.                   *)

(* The positions of the instructions that the parser takes for the pool's.  *)
IsTransactAt(tx, i) ==
  /\ i \in 1 .. Len(tx.instructions)
  /\ IsNativeTransact(tx.instructions[i], AllAccountKeys(tx), "pool")

IsPicking(picked, tx, n) ==
  /\ picked[0] = <<>>
  /\ \A i \in 1 .. n :
       picked[i] = IF IsTransactAt(tx, i) THEN Append(picked[i - 1], i)
                                          ELSE picked[i - 1]

IsPickingOf(picked, tx, n) ==
  IsPicking(picked, tx, n) /\ NativeInstructions(tx, "pool") = picked[n]

LEMMA PickingExists ==
  ASSUME NEW tx, NEW n \in Nat, Len(tx.instructions) = n
  PROVE  \E picked : IsPickingOf(picked, tx, n)
  <1> DEFINE keys == AllAccountKeys(tx)
             Step(f, i) == IF i = 0 THEN <<>>
                           ELSE IF IsNativeTransact(tx.instructions[i], keys, "pool")
                                THEN Append(f[i - 1], i) ELSE f[i - 1]
             Body(m, f) == [i \in 0 .. m |-> Step(f, i)]
             S == {m \in Nat : \E f : f = Body(m, f)}
  <1>1. 0 \in S
    <2> DEFINE zero == Body(0, <<>>)
    <2>1. \A i \in 0 .. 0 : Step(<<>>, i) = Step(zero, i)
      OBVIOUS
    <2>2. zero = Body(0, zero)
      <3> HIDE DEF Step
      <3>1. [i \in 0 .. 0 |-> Step(<<>>, i)] = [i \in 0 .. 0 |-> Step(zero, i)]
        <4> HIDE DEF zero
        <4> QED
          BY <2>1
      <3> QED
        BY <3>1
    <2> HIDE DEF Body, zero
    <2> QED
      BY <2>2
  <1>2. ASSUME NEW m \in Nat, m \in S
        PROVE  m + 1 \in S
    <2>1. PICK f : f = Body(m, f)
      BY <1>2
    <2> DEFINE g == Body(m + 1, f)
    <2>2. \A i \in 0 .. m : f[i] = Step(f, i)
      <3> HIDE DEF Step
      <3> QED
        BY <2>1
    <2>3. \A i \in 0 .. m : g[i] = f[i]
      <3> HIDE DEF Step
      <3> QED
        BY <2>2
    <2>4. \A i \in 0 .. m + 1 : Step(f, i) = Step(g, i)
      <3> HIDE DEF g
      <3>1. \A i \in 0 .. m + 1 : i = 0 \/ i - 1 \in 0 .. m
        OBVIOUS
      <3> QED
        BY <2>3, <3>1
    <2>5. g = Body(m + 1, g)
      <3> HIDE DEF Step
      <3>1. [i \in 0 .. m + 1 |-> Step(f, i)] = [i \in 0 .. m + 1 |-> Step(g, i)]
        <4> HIDE DEF g
        <4> QED
          BY <2>4
      <3> QED
        BY <3>1
    <2> HIDE DEF Body, g
    <2> QED
      BY <2>5
  <1> HIDE DEF S
  <1>3. Len(tx.instructions) \in S
    BY <1>1, <1>2, UpFromZero
  <1>4. \E f : f = Body(Len(tx.instructions), f)
    BY <1>3 DEF S
  <1> DEFINE f == CHOOSE f : f = Body(Len(tx.instructions), f)
  <1>5. f = Body(Len(tx.instructions), f)
    <2> HIDE DEF Body
    <2> QED
      BY <1>4
  <1>6. NativeInstructions(tx, "pool") = f[Len(tx.instructions)]
    BY DEF NativeInstructions
  <1> HIDE DEF f
  <1>7. IsPicking(f, tx, n)
    <2>1. \A i \in 0 .. Len(tx.instructions) : f[i] = Step(f, i)
      <3> HIDE DEF Step
      <3> QED
        BY <1>5
    <2> QED
      BY <2>1 DEF IsPicking, IsTransactAt
  <1> QED
    BY <1>6, <1>7 DEF IsPickingOf

(* They are found, and nothing else is. *)
ArePositions(native, tx, n) ==
  /\ native \in Seq(Nat)
  /\ \A k \in 1 .. Len(native) : native[k] \in 1 .. n /\ IsTransactAt(tx, native[k])
  /\ \A i \in 1 .. n : IsTransactAt(tx, i) => \E k \in 1 .. Len(native) : native[k] = i

LEMMA NativeAre ==
  ASSUME NEW tx, NEW n \in Nat, Len(tx.instructions) = n
  PROVE  ArePositions(NativeInstructions(tx, "pool"), tx, n)
  <1>1. PICK picked : IsPickingOf(picked, tx, n)
    BY PickingExists
  <1> DEFINE S == {m \in Nat : m <= n => ArePositions(picked[m], tx, m)}
  <1>2. 0 \in S
    <2>1. ArePositions(<<>>, tx, 0)
      <3>1. 1 .. 0 = {} /\ Len(<<>>) = 0 /\ <<>> \in Seq(Nat)
        OBVIOUS
      <3> QED
        BY <3>1 DEF ArePositions
    <2> QED
      BY <1>1, <2>1 DEF IsPickingOf, IsPicking
  <1>3. ASSUME NEW m \in Nat, m \in S
        PROVE  m + 1 \in S
    <2> SUFFICES ASSUME m + 1 <= n
                 PROVE  ArePositions(picked[m + 1], tx, m + 1)
      OBVIOUS
    <2>1. PICK before : before = picked[m]
      OBVIOUS
    <2>2. ArePositions(before, tx, m)
      BY <1>3, <2>1
    <2>3. picked[m + 1] = IF IsTransactAt(tx, m + 1) THEN Append(before, m + 1) ELSE before
      <3>1. m + 1 \in 1 .. n /\ m + 1 - 1 = m
        OBVIOUS
      <3> QED
        BY <1>1, <2>1, <3>1 DEF IsPickingOf, IsPicking
    <2>4. before \in Seq(Nat) /\ Len(before) \in Nat
      BY <2>2 DEF ArePositions
    <2>5. CASE IsTransactAt(tx, m + 1)
      <3> DEFINE after == Append(before, m + 1)
      <3>1. /\ after \in Seq(Nat) /\ Len(after) = Len(before) + 1
            /\ after[Len(before) + 1] = m + 1
            /\ \A k \in 1 .. Len(before) : after[k] = before[k]
        BY <2>4, AppendProperties
      <3> HIDE DEF after
      <3>2. ASSUME NEW k \in 1 .. Len(after)
            PROVE  after[k] \in 1 .. m + 1 /\ IsTransactAt(tx, after[k])
        <4>1. CASE k = Len(before) + 1
          BY <2>5, <3>1, <4>1
        <4>2. CASE k # Len(before) + 1
          <5>1. k \in 1 .. Len(before)
            BY <2>4, <3>1, <4>2
          <5>2. before[k] \in 1 .. m /\ IsTransactAt(tx, before[k]) /\ after[k] = before[k]
            BY <2>2, <3>1, <5>1 DEF ArePositions
          <5> QED
            BY <5>2
        <4> QED
          BY <4>1, <4>2
      <3>3. ASSUME NEW i \in 1 .. m + 1, IsTransactAt(tx, i)
            PROVE  \E k \in 1 .. Len(after) : after[k] = i
        <4>1. CASE i = m + 1
          <5>1. Len(before) + 1 \in 1 .. Len(after)
            BY <2>4, <3>1
          <5> QED
            BY <3>1, <4>1, <5>1
        <4>2. CASE i # m + 1
          <5>1. i \in 1 .. m
            BY <4>2
          <5>2. PICK k \in 1 .. Len(before) : before[k] = i
            BY <2>2, <3>3, <5>1 DEF ArePositions
          <5>3. k \in 1 .. Len(after)
            BY <2>4, <3>1
          <5> QED
            BY <3>1, <5>2, <5>3
        <4> QED
          BY <4>1, <4>2
      <3>4. ArePositions(after, tx, m + 1)
        BY <3>1, <3>2, <3>3 DEF ArePositions
      <3> QED
        BY <2>3, <2>5, <3>4 DEF after
    <2>6. CASE ~IsTransactAt(tx, m + 1)
      <3>1. \A i \in 1 .. m + 1 : i = m + 1 \/ i \in 1 .. m
        OBVIOUS
      <3>2. \A i \in 1 .. m : i \in 1 .. m + 1
        OBVIOUS
      <3>3. ArePositions(before, tx, m + 1)
        BY <2>2, <2>6, <3>1, <3>2 DEF ArePositions
      <3> QED
        BY <2>3, <2>6, <3>3
    <2> QED
      BY <2>5, <2>6
  <1> HIDE DEF S
  <1>4. n \in S
    BY <1>2, <1>3, UpFromZero
  <1>5. ArePositions(picked[n], tx, n)
    BY <1>4 DEF S
  <1> QED
    BY <1>1, <1>5 DEF IsPickingOf

(* The nullifiers of a transaction are those of its instructions. *)
LEMMA ParsedNullifiersAre ==
  ASSUME NEW tx, NEW n \in Nat, Len(tx.instructions) = n, NEW nullifier
  PROVE  nullifier \in ParsedNullifiers(tx, "pool") <=>
           \E i \in 1 .. n : /\ IsTransactAt(tx, i)
                             /\ nullifier \in InputNullifiers(tx.instructions[i])
  <1>1. PICK native : native = NativeInstructions(tx, "pool")
    OBVIOUS
  <1>2. ArePositions(native, tx, n)
    BY <1>1, NativeAre
  <1>3. nullifier \in ParsedNullifiers(tx, "pool") <=>
          \E k \in 1 .. Len(native) : nullifier \in InputNullifiers(tx.instructions[native[k]])
    BY <1>1 DEF ParsedNullifiers
  <1> QED
    BY <1>2, <1>3 DEF ArePositions

(* Data that begins with a name. *)
AreFields(data) ==
  /\ \E S : data \in Seq(S)
  /\ \A i \in 1 .. Len(data) : data[i].size \in Positive

Names(data, name) ==
  AreFields(data) /\ Len(data) # 0 /\ data[1].size = 8 /\ data[1].value = name

LEMMA NameIsRead ==
  ASSUME NEW data, NEW name, Names(data, name)
  PROVE  ReadFields(data, <<8>>)[1] = name
  <1>1. PICK S : data \in Seq(S)
    BY DEF Names, AreFields
  <1>2. PICK n : n = Len(data)
    OBVIOUS
  <1>3. n \in Nat \ {0} /\ DOMAIN data = 1 .. n /\ Len(data) = n
    BY <1>1, <1>2 DEF Names
  <1>4. \A i \in 1 .. n : data[i].size \in Positive
    BY <1>3 DEF Names, AreFields
  <1>5. PICK sizes : sizes = <<8>>
    OBVIOUS
  <1>6. sizes \in Seq(Positive) /\ Len(sizes) = 1 /\ sizes[1] = 8
    BY <1>5 DEF Positive
  <1>7. Len(sizes) # 0 /\ Len(sizes) <= n /\ \A i \in 1 .. Len(sizes) : sizes[i] = data[i].size
    BY <1>3, <1>6 DEF Names
  <1>8. ReadFields(data, sizes) = [i \in 1 .. Len(sizes) |-> data[i].value]
    BY <1>3, <1>4, <1>6, <1>7, ReadsItsFields
  <1>9. ReadFields(data, sizes)[1] = data[1].value
    BY <1>6, <1>8
  <1> QED
    BY <1>5, <1>9 DEF Names

LEMMA MoreFields ==
  ASSUME NEW a, NEW b, NEW name, Names(a, name), AreFields(b)
  PROVE  Names(a \o b, name)
  <1>1. PICK S : a \in Seq(S)
    BY DEF Names, AreFields
  <1>2. PICK T : b \in Seq(T)
    BY DEF AreFields
  <1>3. PICK U : U = S \union T
    OBVIOUS
  <1>4. a \in Seq(U) /\ b \in Seq(U) /\ Len(a) \in Nat /\ Len(b) \in Nat
    <2>1. DOMAIN a = 1 .. Len(a) /\ Len(a) \in Nat /\ \A i \in 1 .. Len(a) : a[i] \in U
      BY <1>1, <1>3
    <2>2. DOMAIN b = 1 .. Len(b) /\ Len(b) \in Nat /\ \A i \in 1 .. Len(b) : b[i] \in U
      BY <1>2, <1>3
    <2>3. a \in Seq(U)
      BY <1>1, <2>1
    <2>4. b \in Seq(U)
      BY <1>2, <2>2
    <2> QED
      BY <2>1, <2>2, <2>3, <2>4
  <1>5. a \o b \in Seq(U) /\ IsJoined(a \o b, a, Len(a), b, Len(b))
    BY <1>4, Joined
  <1>6. PICK ab, m, n : ab = a \o b /\ m = Len(a) /\ n = Len(b)
    OBVIOUS
  <1>7. /\ m \in Nat \ {0} /\ n \in Nat /\ Len(ab) = m + n
        /\ \A i \in 1 .. m : ab[i] = a[i]
        /\ \A i \in 1 .. n : ab[m + i] = b[i]
    BY <1>4, <1>5, <1>6 DEF IsJoined, Names
  <1>8. ASSUME NEW i \in 1 .. Len(ab)
        PROVE  ab[i].size \in Positive
    <2>1. CASE i <= m
      <3>1. i \in 1 .. m
        BY <1>7, <2>1
      <3> QED
        BY <1>6, <1>7, <3>1 DEF Names, AreFields
    <2>2. CASE ~(i <= m)
      <3>1. i - m \in 1 .. n /\ m + (i - m) = i
        BY <1>7, <2>2
      <3>2. ab[m + (i - m)] = b[i - m]
        BY <1>7, <3>1
      <3> QED
        BY <1>6, <3>1, <3>2 DEF AreFields
    <2> QED
      BY <2>1, <2>2
  <1>9. 1 \in 1 .. m /\ Len(ab) # 0
    BY <1>7
  <1> QED
    BY <1>5, <1>6, <1>7, <1>8, <1>9 DEF Names, AreFields

LEMMA FieldsAre ==
  /\ \A name : Names(<<Discriminator(name)>>, name)
  /\ \A values : AreFields(Optional(2, values))
  /\ \A proof : AreFields(EncodeProof(proof))
  /\ \A ext : AreFields(EncodeExtData(ext))
  /\ \A output : AreFields(Prefixed(output))
  <1>1. ASSUME NEW name
        PROVE  Names(<<Discriminator(name)>>, name)
    <2>1. PICK field : field = Discriminator(name)
      OBVIOUS
    <2>2. field.size = 8 /\ field.value = name
      BY <2>1 DEF Discriminator, Bytes
    <2>3. PICK data : data = <<field>>
      OBVIOUS
    <2>4. data \in Seq({field}) /\ Len(data) = 1 /\ data[1] = field
      BY <2>3
    <2>5. Names(data, name)
      BY <2>2, <2>4 DEF Names, AreFields, Positive
    <2> QED
      BY <2>1, <2>3, <2>5
  <1>2. ASSUME NEW a, NEW b, NEW k \in Positive, NEW l \in Positive
        PROVE  AreFields(<<Bytes(k, a), Bytes(l, b)>>) /\ AreFields(<<Bytes(k, a)>>)
    <2>1. PICK first, second : first = Bytes(k, a) /\ second = Bytes(l, b)
      OBVIOUS
    <2>2. first.size \in Positive /\ second.size \in Positive
      BY <2>1 DEF Bytes
    <2>3. PICK two : two = <<first, second>>
      OBVIOUS
    <2>4. PICK one : one = <<first>>
      OBVIOUS
    <2>5. /\ two \in Seq({first, second}) /\ Len(two) = 2
          /\ two[1] = first /\ two[2] = second
      BY <2>3
    <2>6. one \in Seq({first}) /\ Len(one) = 1 /\ one[1] = first
      BY <2>4
    <2>7. AreFields(two)
      BY <2>2, <2>5 DEF AreFields
    <2>8. AreFields(one)
      BY <2>2, <2>6 DEF AreFields
    <2> QED
      BY <2>1, <2>3, <2>4, <2>7, <2>8
  <1>3. 1 \in Positive /\ 2 \in Positive /\ 4 \in Positive /\ 8 \in Positive
        /\ OutputSize \in Positive
    BY DEF Positive, OutputSize
  <1>4. ASSUME NEW values
        PROVE  AreFields(Optional(2, values))
    <2>1. PICK value : value = CHOOSE v \in values : TRUE
      OBVIOUS
    <2>2. Optional(2, values) = <<Bytes(1, 0)>>
          \/ Optional(2, values) = <<Bytes(1, 1), Bytes(2, value)>>
      BY <2>1 DEF Optional
    <2>3. AreFields(<<Bytes(1, 0)>>) /\ AreFields(<<Bytes(1, 1), Bytes(2, value)>>)
      BY <1>2, <1>3
    <2> QED
      BY <2>2, <2>3
  <1>5. ASSUME NEW proof
        PROVE  AreFields(EncodeProof(proof))
    <2> DEFINE values == <<proof.proofA, proof.proofB, proof.proofC, proof.root,
                           proof.publicAmount, proof.extDataHash,
                           proof.inputNullifiers[1], proof.inputNullifiers[2],
                           proof.outputCommitments[1], proof.outputCommitments[2]>>
               fields == [i \in 1 .. 10 |-> Bytes(ProofSizes[i], values[i])]
    <2>1. EncodeProof(proof) = fields
      BY DEF EncodeProof
    <2>2. \A i \in 1 .. 10 : ProofSizes[i] \in Positive
      BY DEF ProofSizes, Positive
    <2> HIDE DEF values
    <2>3. fields \in Seq({fields[i] : i \in 1 .. 10}) /\ Len(fields) = 10
      <3>1. DOMAIN fields = 1 .. 10 /\ \A i \in 1 .. 10 : fields[i] \in {fields[j] : j \in 1 .. 10}
        OBVIOUS
      <3>2. fields = [i \in 1 .. 10 |-> fields[i]]
        OBVIOUS
      <3> HIDE DEF fields
      <3> QED
        BY <3>1, <3>2
    <2>4. \A i \in 1 .. 10 : fields[i].size \in Positive
      BY <2>2 DEF Bytes
    <2> HIDE DEF fields
    <2>5. AreFields(fields)
      BY <2>3, <2>4 DEF AreFields
    <2> QED
      BY <2>1, <2>5
  <1>6. \A ext : AreFields(EncodeExtData(ext))
    BY <1>2, <1>3 DEF EncodeExtData
  <1>7. \A output : AreFields(Prefixed(output))
    BY <1>2, <1>3 DEF Prefixed
  <1> QED
    BY <1>1, <1>4, <1>5, <1>6, <1>7

(* What the parser reads of an instruction in a message. *)
IsTransactFor(instruction) ==
  /\ instruction.programAddress = "pool"
  /\ ReadFields(instruction.data, <<8>>)[1] = "transact"

LEMMA MessageInstructions ==
  ASSUME NEW instructions, NEW logs, NEW n \in Nat, DOMAIN instructions = 1 .. n,
         \A i \in 1 .. n :
           instructions[i].programAddress \in {"compute_budget", "mimic", "pool"}
  PROVE  LET tx == Message(instructions, logs)
         IN  /\ Len(tx.instructions) = n
             /\ \A i \in 1 .. n : tx.instructions[i].data = instructions[i].data
             /\ \A i \in 1 .. n : IsTransactAt(tx, i) <=> IsTransactFor(instructions[i])
  <1> DEFINE keys == <<"signer", "compute_budget", "mimic", "pool">>
             tree == <<TreeAccountPda("pool")>>
             config == <<GlobalConfigPda("pool")>>
             tx == Message(instructions, logs)
             Place(i) == CHOOSE k \in 1 .. 4 : keys[k] = instructions[i].programAddress
  <1>1. /\ tx.accountKeys = keys
        /\ tx.loadedAddresses.writable = tree /\ tx.loadedAddresses.readonly = config
        /\ tx.instructions = [i \in 1 .. n |-> [programIdIndex |-> Place(i) - 1,
                                                data |-> instructions[i].data]]
    BY DEF Message
  <1>2. AllAccountKeys(tx) = keys \o tree \o config
    BY <1>1 DEF AllAccountKeys
  <1> HIDE DEF tx
  <1>3. \A k \in 1 .. 4 : (keys \o tree \o config)[k] = keys[k]
    <2>1. PICK a, b : a = TreeAccountPda("pool") /\ b = GlobalConfigPda("pool")
      OBVIOUS
    <2> DEFINE U == {"signer", "compute_budget", "mimic", "pool", a, b}
    <2>2. keys \in Seq(U) /\ <<a>> \in Seq(U) /\ <<b>> \in Seq(U)
          /\ Len(keys) = 4 /\ Len(<<a>>) = 1 /\ Len(<<b>>) = 1
      OBVIOUS
    <2> HIDE DEF U, keys
    <2> DEFINE ka == keys \o <<a>>
    <2>3. ka \in Seq(U) /\ IsJoined(ka, keys, 4, <<a>>, 1)
      BY <2>2, JoinedAt
    <2> HIDE DEF ka
    <2>4. Len(ka) = 5 /\ \A k \in 1 .. 4 : ka[k] = keys[k]
      BY <2>3 DEF IsJoined
    <2>5. IsJoined(ka \o <<b>>, ka, 5, <<b>>, 1)
      BY <2>2, <2>3, <2>4, JoinedAt
    <2>6. \A k \in 1 .. 4 : (ka \o <<b>>)[k] = keys[k]
      BY <2>4, <2>5 DEF IsJoined
    <2> QED
      BY <2>1, <2>6 DEF ka
  <1>4. ASSUME NEW i \in 1 .. n
        PROVE  Place(i) \in 1 .. 4 /\ keys[Place(i)] = instructions[i].programAddress
    <2>1. PICK address : address = instructions[i].programAddress
      OBVIOUS
    <2>2. \E k \in 1 .. 4 : keys[k] = address
      <3>1. keys[2] = "compute_budget" /\ keys[3] = "mimic" /\ keys[4] = "pool"
            /\ 2 \in 1 .. 4 /\ 3 \in 1 .. 4 /\ 4 \in 1 .. 4
        OBVIOUS
      <3>2. address = "compute_budget" \/ address = "mimic" \/ address = "pool"
        BY <2>1
      <3> HIDE DEF keys
      <3> QED
        BY <3>1, <3>2
    <2> HIDE DEF keys
    <2> QED
      BY <2>1, <2>2
  <1> HIDE DEF keys, Place
  <1>5. ASSUME NEW i \in 1 .. n
        PROVE  /\ tx.instructions[i].data = instructions[i].data
               /\ IsTransactAt(tx, i) <=> IsTransactFor(instructions[i])
    <2>1. /\ tx.instructions[i].data = instructions[i].data
          /\ tx.instructions[i].programIdIndex = Place(i) - 1
          /\ Len(tx.instructions) = n
      BY <1>1
    <2>2. Place(i) - 1 + 1 = Place(i)
      BY <1>4
    <2>3. AllAccountKeys(tx)[tx.instructions[i].programIdIndex + 1]
            = instructions[i].programAddress
      BY <1>2, <1>3, <1>4, <2>1, <2>2
    <2> QED
      BY <2>1, <2>3 DEF IsTransactAt, IsNativeTransact, IsTransactFor
  <1>6. Len(tx.instructions) = n
    BY <1>1
  <1> QED
    BY <1>5, <1>6 DEF tx

(* The instruction of a call. *)
SpendsBoth(instruction, call) ==
  \A other : other.data = instruction.data =>
    InputNullifiers(other) = {call.nullifiers[1], call.nullifiers[2]}

LEMMA InstructionOfCall ==
  ASSUME NEW call
  PROVE  LET made == SignedInstruction("anyone", "anyone", "treasury",
                                       MaterialOf(call), "pool")
         IN  made.programAddress = "pool" /\ IsTransactFor(made) /\ SpendsBoth(made, call)
  <1> DEFINE material == MaterialOf(call)
             input == [signer |-> "anyone", recipient |-> "anyone",
                       feeRecipient |-> "treasury",
                       nullifiers |-> material.nullifiers, proof |-> material.proof,
                       extData |-> material.extData,
                       encryptedOutput1 |-> material.encryptedOutput1,
                       encryptedOutput2 |-> material.encryptedOutput2]
             made == BuildTransactInstruction(input, "pool")
  <1>1. SignedInstruction("anyone", "anyone", "treasury", material, "pool") = made
    BY DEF SignedInstruction
  <1>2. IsBuiltFrom(made, input, "pool")
    BY BuiltInstruction
  <1>3. made.programAddress = "pool" /\ IsTransactFor(made)
    BY <1>2 DEF IsBuiltFrom, IsTransactFor
  <1>4. PICK args : made.data = EncodeTransactData(args) /\ args.proof = input.proof
    BY DEF BuildTransactInstruction, GetTransactInstruction
  <1>5. input.proof.inputNullifiers = call.nullifiers
    BY DEF MaterialOf
  <1> HIDE DEF made, input
  <1>6. ASSUME NEW other, other.data = made.data
        PROVE  InputNullifiers(other) = {call.nullifiers[1], call.nullifiers[2]}
    <2> DEFINE read == ReadFields(other.data, TransactFields)
               values == TransactValues(args)
    <2>1. TransactFields = Part(TransactSizes, 0, 9)
      BY DEF TransactFields, TransactSizes, Part
    <2>2. ReadFields(EncodeTransactData(args), Part(TransactSizes, 0, 9)) = Part(values, 0, 9)
      BY ReadsTransact
    <2>3. read = Part(values, 0, 9)
      BY <1>4, <1>6, <2>1, <2>2
    <2>4. read[8] = values[8] /\ read[9] = values[9]
      <3> HIDE DEF read, values
      <3> QED
        BY <2>3 DEF Part
    <2>5. values[8] = args.proof.inputNullifiers[1] /\ values[9] = args.proof.inputNullifiers[2]
      BY DEF TransactValues
    <2>6. InputNullifiers(other) = {read[8], read[9]}
      BY DEF InputNullifiers
    <2> HIDE DEF read, values
    <2> QED
      BY <1>4, <1>5, <2>4, <2>5, <2>6
  <1> QED
    BY <1>1, <1>3, <1>6 DEF SpendsBoth

(* An instruction of the pool that is not a transact. *)
IsOtherFor(instruction) ==
  instruction.programAddress = "pool" /\ ~IsTransactFor(instruction)

LEMMA NamedOtherwise ==
  ASSUME NEW instruction, NEW name, instruction.programAddress = "pool",
         Names(instruction.data, name), name # "transact"
  PROVE  IsOtherFor(instruction)
  <1>1. ReadFields(instruction.data, <<8>>)[1] = name
    BY NameIsRead
  <1> QED
    BY <1>1 DEF IsOtherFor, IsTransactFor

LEMMA TokenIsOther ==
  ASSUME NEW call
  PROVE  IsOtherFor(TokenInstruction(call))
  <1> DEFINE instruction == TokenInstruction(call)
  <1>1. PICK input : instruction = GetTransactSplInstruction(input, "pool")
    BY DEF TokenInstruction
  <1>2. instruction.programAddress = "pool"
        /\ instruction.data = EncodeTransactSplData(input)
    BY <1>1 DEF GetTransactSplInstruction
  <1> HIDE DEF instruction
  <1> DEFINE name == <<Discriminator("transactSpl")>>
             proof == EncodeProof(input.proof)
             ext == EncodeExtData(input.extData)
             first == Prefixed(input.encryptedOutput1)
             second == Prefixed(input.encryptedOutput2)
  <1>3. Names(name, "transactSpl") /\ AreFields(proof) /\ AreFields(ext)
        /\ AreFields(first) /\ AreFields(second)
    BY FieldsAre
  <1>4. instruction.data = name \o proof \o ext \o first \o second
    BY <1>2 DEF EncodeTransactSplData
  <1> HIDE DEF name, proof, ext, first, second
  <1>5. Names(name \o proof, "transactSpl")
    BY <1>3, MoreFields
  <1>6. Names(name \o proof \o ext, "transactSpl")
    BY <1>3, <1>5, MoreFields
  <1>7. Names(name \o proof \o ext \o first, "transactSpl")
    BY <1>3, <1>6, MoreFields
  <1>8. Names(name \o proof \o ext \o first \o second, "transactSpl")
    BY <1>3, <1>7, MoreFields
  <1>9. IsOtherFor(instruction)
    BY <1>2, <1>4, <1>8, NamedOtherwise
  <1> QED
    BY <1>9 DEF instruction

LEMMA TwoFields ==
  ASSUME NEW name, NEW value
  PROVE  Names(<<Discriminator(name), Bytes(8, value)>>, name)
  <1>1. PICK data : data = <<Discriminator(name), Bytes(8, value)>>
    OBVIOUS
  <1>2. PICK first, second : first = Discriminator(name) /\ second = Bytes(8, value)
    OBVIOUS
  <1>3. first.size = 8 /\ first.value = name /\ second.size = 8
    BY <1>2 DEF Discriminator, Bytes
  <1>4. data \in Seq({first, second}) /\ Len(data) = 2 /\ data[1] = first /\ data[2] = second
    BY <1>1, <1>2
  <1>5. Names(data, name)
    BY <1>3, <1>4 DEF Names, AreFields, Positive
  <1> QED
    BY <1>1, <1>5

LEMMA InitializesOnly ==
  /\ DOMAIN InitializePool = 1 .. 5
  /\ \A i \in 1 .. 5 : IsOtherFor(InitializePool[i])
  <1>1. PICK a, b, c, d, e :
          /\ InitializePool = <<a, b, c, d, e>>
          /\ a = BuildInitializeInstruction("authority", "pool")
          /\ b = GetUpdateGlobalConfigInstruction(
               [authority |-> "authority", depositFeeRate |-> {DepositBps},
                withdrawalFeeRate |-> {WithdrawBps}, feeErrorMargin |-> {}], "pool")
          /\ c = GetUpdateDepositLimitInstruction(
               [authority |-> "authority", newLimit |-> FieldSize], "pool")
          /\ d = GetInitializeTreeAccountForSplTokenInstruction(
               [authority |-> "authority", mint |-> "mint", maxDepositAmount |-> 1],
               "pool")
          /\ e = GetUpdateDepositLimitForSplTokenInstruction(
               [authority |-> "authority", mint |-> "mint", newLimit |-> FieldSize],
               "pool")
    BY DEF InitializePool
  <1>2. IsOtherFor(a)
    <2>1. a.programAddress = "pool" /\ a.data = <<Discriminator("initialize")>>
      BY <1>1 DEF BuildInitializeInstruction, GetInitializeInstruction
    <2>2. Names(a.data, "initialize")
      BY <2>1, FieldsAre
    <2> QED
      BY <2>1, <2>2, NamedOtherwise
  <1>3. IsOtherFor(b)
    <2> DEFINE name == <<Discriminator("updateGlobalConfig")>>
               deposit == Optional(2, {DepositBps})
               withdrawal == Optional(2, {WithdrawBps})
               margin == Optional(2, {})
    <2>1. b.programAddress = "pool" /\ b.data = name \o deposit \o withdrawal \o margin
      BY <1>1 DEF GetUpdateGlobalConfigInstruction, EncodeUpdateGlobalConfigData
    <2>2. Names(name, "updateGlobalConfig") /\ AreFields(deposit)
          /\ AreFields(withdrawal) /\ AreFields(margin)
      BY FieldsAre
    <2> HIDE DEF name, deposit, withdrawal, margin
    <2>3. Names(name \o deposit, "updateGlobalConfig")
      BY <2>2, MoreFields
    <2>4. Names(name \o deposit \o withdrawal, "updateGlobalConfig")
      BY <2>2, <2>3, MoreFields
    <2>5. Names(name \o deposit \o withdrawal \o margin, "updateGlobalConfig")
      BY <2>2, <2>4, MoreFields
    <2> QED
      BY <2>1, <2>5, NamedOtherwise
  <1>4. IsOtherFor(c)
    <2>1. /\ c.programAddress = "pool"
          /\ c.data = <<Discriminator("updateDepositLimit"), Bytes(8, FieldSize)>>
      BY <1>1 DEF GetUpdateDepositLimitInstruction, EncodeUpdateDepositLimitData
    <2> QED
      BY <2>1, TwoFields, NamedOtherwise
  <1>5. IsOtherFor(d)
    <2>1. /\ d.programAddress = "pool"
          /\ d.data = <<Discriminator("initializeTreeAccountForSplToken"), Bytes(8, 1)>>
      BY <1>1 DEF GetInitializeTreeAccountForSplTokenInstruction,
                  EncodeInitializeTreeAccountForSplTokenData
    <2> QED
      BY <2>1, TwoFields, NamedOtherwise
  <1>6. IsOtherFor(e)
    <2>1. /\ e.programAddress = "pool"
          /\ e.data = <<Discriminator("updateDepositLimitForSplToken"), Bytes(8, FieldSize)>>
      BY <1>1 DEF GetUpdateDepositLimitForSplTokenInstruction,
                  EncodeUpdateDepositLimitForSplTokenData
    <2> QED
      BY <2>1, TwoFields, NamedOtherwise
  <1>7. PICK all : all = InitializePool
    OBVIOUS
  <1>8. DOMAIN all = 1 .. 5 /\ all[1] = a /\ all[2] = b /\ all[3] = c /\ all[4] = d
        /\ all[5] = e
    BY <1>1, <1>7
  <1>9. \A i \in 1 .. 5 : i = 1 \/ i = 2 \/ i = 3 \/ i = 4 \/ i = 5
    OBVIOUS
  <1> QED
    BY <1>2, <1>3, <1>4, <1>5, <1>6, <1>7, <1>8, <1>9

(* The calls of a transaction that names its instructions of the pool spend *)
(* what the parser reads of it, and it is read.                             *)
SpendsAsRead(t) ==
  /\ \A nullifier :
       nullifier \in NullifiersOf(t) <=>
         \E c \in 1 .. CallsIn(txs[t]) : Spends(calls[Before(txs, t) + c], nullifier)
  /\ CallsIn(txs[t]) # 0 => NativeInstructions(Transaction(t), "pool") # <<>>

(* The transact instructions of a message and the calls they make. *)
TransactsAt(instructions, n, part, count, at) ==
  /\ DOMAIN instructions = 1 .. n
  /\ \A i \in 1 .. n :
       instructions[i].programAddress \in {"compute_budget", "mimic", "pool"}
  /\ \A c \in 1 .. count : at[c] \in 1 .. n /\ SpendsBoth(instructions[at[c]], part[c])
  /\ \A i \in 1 .. n : IsTransactFor(instructions[i]) <=> \E c \in 1 .. count : at[c] = i

ReadsAs(tx, part, count) ==
  /\ \A nullifier : nullifier \in ParsedNullifiers(tx, "pool") <=>
                      \E c \in 1 .. count : Spends(part[c], nullifier)
  /\ count # 0 => NativeInstructions(tx, "pool") # <<>>

LEMMA ReadsMessage ==
  ASSUME NEW instructions, NEW logs, NEW n \in Nat, NEW part, NEW count \in 0 .. 2, NEW at,
         TransactsAt(instructions, n, part, count, at)
  PROVE  ReadsAs(Message(instructions, logs), part, count)
  <1> DEFINE tx == Message(instructions, logs)
  <1>1. /\ Len(tx.instructions) = n
        /\ \A i \in 1 .. n : tx.instructions[i].data = instructions[i].data
        /\ \A i \in 1 .. n : IsTransactAt(tx, i) <=> IsTransactFor(instructions[i])
    BY MessageInstructions DEF TransactsAt
  <1> HIDE DEF tx
  <1>2. ASSUME NEW nullifier
        PROVE  nullifier \in ParsedNullifiers(tx, "pool") <=>
                 \E c \in 1 .. count : Spends(part[c], nullifier)
    <2>1. nullifier \in ParsedNullifiers(tx, "pool") <=>
            \E i \in 1 .. n : /\ IsTransactAt(tx, i)
                              /\ nullifier \in InputNullifiers(tx.instructions[i])
      BY <1>1, ParsedNullifiersAre
    <2>2. ASSUME NEW c \in 1 .. count
          PROVE  /\ at[c] \in 1 .. n /\ IsTransactAt(tx, at[c])
                 /\ nullifier \in InputNullifiers(tx.instructions[at[c]])
                      <=> Spends(part[c], nullifier)
      <3>1. at[c] \in 1 .. n /\ SpendsBoth(instructions[at[c]], part[c])
        BY DEF TransactsAt
      <3>2. InputNullifiers(tx.instructions[at[c]])
              = {part[c].nullifiers[1], part[c].nullifiers[2]}
        BY <1>1, <3>1 DEF SpendsBoth
      <3>3. IsTransactFor(instructions[at[c]])
        BY <3>1 DEF TransactsAt
      <3> QED
        BY <1>1, <3>1, <3>2, <3>3 DEF Spends
    <2>3. ASSUME NEW i \in 1 .. n, IsTransactAt(tx, i)
          PROVE  \E c \in 1 .. count : at[c] = i
      BY <1>1, <2>3 DEF TransactsAt
    <2> QED
      BY <2>1, <2>2, <2>3
  <1>3. ASSUME count # 0
        PROVE  NativeInstructions(tx, "pool") # <<>>
    <2>1. PICK native : native = NativeInstructions(tx, "pool")
      OBVIOUS
    <2>2. ArePositions(native, tx, n)
      BY <1>1, <2>1, NativeAre
    <2>3. 1 \in 1 .. count
      BY <1>3
    <2>4. at[1] \in 1 .. n /\ IsTransactAt(tx, at[1])
      BY <1>1, <2>3 DEF TransactsAt
    <2>5. PICK k \in 1 .. Len(native) : native[k] = at[1]
      BY <2>2, <2>4 DEF ArePositions
    <2>6. Len(native) # 0
      BY <2>2, <2>5 DEF ArePositions
    <2>7. native # <<>>
      BY <2>6
    <2> QED
      BY <2>1, <2>7
  <1> QED
    BY <1>2, <1>3 DEF tx, ReadsAs

LEMMA NullifiersOfTransaction ==
  ASSUME ChainInv, NEW t \in 1 .. Len(txs), txs[t] # "wrapped"
  PROVE  SpendsAsRead(t)
  <1> DEFINE before == Before(txs, t)
             count == CallsIn(txs[t])
             part == SubSeq(calls, before + 1, before + count)
             made == [i \in DOMAIN part |->
                        SignedInstruction("anyone", "anyone", "treasury",
                                          MaterialOf(part[i]), "pool")]
  <1>1. /\ before \in Nat /\ count \in 0 .. 2 /\ before + count <= Len(calls)
        /\ Len(calls) \in Nat /\ txs[t] \in Kinds
    <2>1. Len(txs) \in Nat \ {0} /\ txs[t] \in Kinds /\ Len(calls) \in Nat
      BY DEF ChainInv
    <2> QED
      BY <2>1, BeforeAscends DEF ChainInv
  <1>2. CallsBefore(t) = before
    BY CallsBeforeIs
  <1> HIDE DEF before, count
  <1>3. DOMAIN part = 1 .. count /\ \A i \in 1 .. count : part[i] = calls[before + i]
    <2>1. PICK S : calls \in Seq(S)
      BY DEF ChainInv
    <2>2. \A i \in 1 .. count : before + 1 + i - 1 = before + i
      BY <1>1
    <2>3. \A i \in before + 1 .. before + count : i \in 1 .. Len(calls)
      BY <1>1
    <2>4. before + count - (before + 1) + 1 = count
      BY <1>1
    <2> QED
      BY <1>1, <2>1, <2>2, <2>3, <2>4
  <1> HIDE DEF part
  <1>4. /\ DOMAIN made = 1 .. count
        /\ \A c \in 1 .. count : /\ made[c].programAddress = "pool"
                                 /\ IsTransactFor(made[c]) /\ SpendsBoth(made[c], part[c])
    BY <1>3, InstructionOfCall
  <1> HIDE DEF made
  <1>5. ReadsAs(Transaction(t), part, count) => SpendsAsRead(t)
    BY <1>3 DEF ReadsAs, SpendsAsRead, NullifiersOf, count, before
  <1>6. CASE txs[t] = "initialize"
    <2>1. count = 0
      BY <1>6 DEF count, CallsIn
    <2>2. PICK instructions, logs : /\ instructions = InitializePool
                                    /\ Transaction(t) = Message(instructions, logs)
      BY <1>6 DEF Transaction
    <2>3. /\ DOMAIN instructions = 1 .. 5
          /\ \A i \in 1 .. 5 : instructions[i].programAddress = "pool"
                               /\ ~IsTransactFor(instructions[i])
      BY <2>2, InitializesOnly DEF IsOtherFor
    <2> DEFINE at == <<>>
    <2>4. TransactsAt(instructions, 5, part, 0, at)
      BY <2>3 DEF TransactsAt
    <2> HIDE DEF at
    <2>5. ReadsAs(Message(instructions, logs), part, count)
      BY <2>1, <2>4, ReadsMessage
    <2> QED
      BY <1>5, <2>2, <2>5
  <1>7. CASE txs[t] = "direct"
    <2>1. count = 1
      BY <1>7 DEF count, CallsIn
    <2>2. PICK base, logs :
            /\ BaseTransactionMessage(DefaultComputeUnits) = <<base>>
            /\ base.programAddress = "compute_budget"
            /\ Transaction(t) = Message(<<base>> \o made, logs)
      BY <1>2, <1>7 DEF Transaction, BaseTransactionMessage, made, part, count
    <2>3. PICK instructions : instructions = <<base>> \o made
      OBVIOUS
    <2>4. DOMAIN instructions = 1 .. 2 /\ instructions[1] = base /\ instructions[2] = made[1]
      <3> DEFINE U == {base, made[1]}
      <3>1. <<base>> \in Seq(U) /\ Len(<<base>>) = 1 /\ <<base>>[1] = base
        OBVIOUS
      <3>2. made \in Seq(U) /\ Len(made) = 1
        BY <1>4, <2>1 DEF made
      <3> HIDE DEF U
      <3>3. instructions \in Seq(U) /\ IsJoined(instructions, <<base>>, 1, made, 1)
        BY <2>3, <3>1, <3>2, JoinedAt
      <3>4. 1 \in 1 .. 1
        OBVIOUS
      <3> QED
        BY <3>1, <3>3, <3>4 DEF IsJoined
    <2>5. \A i \in 1 .. 2 : i = 1 \/ i = 2
      OBVIOUS
    <2>6. ~IsTransactFor(base)
      BY <2>2 DEF IsTransactFor
    <2> DEFINE at == [c \in 1 .. 1 |-> 2]
    <2>7. /\ \A i \in 1 .. 2 :
               instructions[i].programAddress \in {"compute_budget", "mimic", "pool"}
          /\ \A c \in 1 .. 1 : at[c] \in 1 .. 2 /\ SpendsBoth(instructions[at[c]], part[c])
          /\ \A i \in 1 .. 2 : IsTransactFor(instructions[i]) <=>
                                 \E c \in 1 .. 1 : at[c] = i
      BY <1>4, <2>1, <2>2, <2>4, <2>5, <2>6
    <2> HIDE DEF at
    <2>8. TransactsAt(instructions, 2, part, 1, at)
      BY <2>4, <2>7 DEF TransactsAt
    <2>9. ReadsAs(Message(instructions, logs), part, count)
      BY <2>1, <2>8, ReadsMessage
    <2> QED
      BY <1>5, <2>2, <2>3, <2>9
  <1>8. CASE txs[t] = "batched"
    <2>1. count = 2
      BY <1>8 DEF count, CallsIn
    <2> DEFINE other == [programAddress |-> "mimic", data |-> <<Discriminator("transact")>>]
    <2>2. PICK logs :
            Transaction(t) = Message(<<made[1], other, TokenInstruction(part[1]), made[2]>>,
                                     logs)
      BY <1>2, <1>8 DEF Transaction, made, part, count
    <2>3. PICK instructions :
            instructions = <<made[1], other, TokenInstruction(part[1]), made[2]>>
      OBVIOUS
    <2>4. /\ DOMAIN instructions = 1 .. 4 /\ instructions[1] = made[1]
          /\ instructions[2] = other /\ instructions[3] = TokenInstruction(part[1])
          /\ instructions[4] = made[2]
      BY <2>3
    <2>5. \A i \in 1 .. 4 : i = 1 \/ i = 2 \/ i = 3 \/ i = 4
      OBVIOUS
    <2>6. ~IsTransactFor(other) /\ other.programAddress = "mimic"
      BY DEF IsTransactFor
    <2>7. /\ TokenInstruction(part[1]).programAddress = "pool"
          /\ ~IsTransactFor(TokenInstruction(part[1]))
      BY TokenIsOther DEF IsOtherFor
    <2> HIDE DEF other
    <2> DEFINE at == [c \in 1 .. 2 |-> IF c = 1 THEN 1 ELSE 4]
    <2>8. at[1] = 1 /\ at[2] = 4 /\ 1 \in 1 .. 2 /\ 2 \in 1 .. 2
          /\ \A c \in 1 .. 2 : c = 1 \/ c = 2
      OBVIOUS
    <2> HIDE DEF at
    <2>9. \A i \in 1 .. 4 :
            instructions[i].programAddress \in {"compute_budget", "mimic", "pool"}
      BY <1>4, <2>1, <2>4, <2>5, <2>6, <2>7, <2>8
    <2>10. \A c \in 1 .. 2 : at[c] \in 1 .. 4 /\ SpendsBoth(instructions[at[c]], part[c])
      BY <1>4, <2>1, <2>4, <2>8
    <2>11. \A i \in 1 .. 4 : IsTransactFor(instructions[i]) <=> \E c \in 1 .. 2 : at[c] = i
      BY <1>4, <2>1, <2>4, <2>5, <2>6, <2>7, <2>8
    <2>12. TransactsAt(instructions, 4, part, 2, at)
      BY <2>4, <2>9, <2>10, <2>11 DEF TransactsAt
    <2>13. ReadsAs(Message(instructions, logs), part, count)
      BY <2>1, <2>12, ReadsMessage
    <2> QED
      BY <1>5, <2>2, <2>3, <2>13
  <1> QED
    BY <1>1, <1>6, <1>7, <1>8 DEF Kinds

-------------------------------------------------------------------------------
(* A table that is up to date.                                              *)

(* The indexer has read all there is, and nothing was hidden from it.       *)
Settled ==
  /\ outputs = 1 .. Len(txs) /\ spends = 1 .. Len(txs)
  /\ \A t \in 1 .. Len(txs) : txs[t] # "wrapped"

(* Every call is some transaction's. *)
LEMMA CallHasTransaction ==
  ASSUME ChainInv, NEW c \in 1 .. Len(calls)
  PROVE  \E t \in 1 .. Len(txs) : c \in Before(txs, t) + 1 .. Before(txs, t + 1)
  <1> DEFINE Has(m) == \A d \in 1 .. Before(txs, m + 1) :
                         \E t \in 1 .. m : d \in Before(txs, t) + 1 .. Before(txs, t + 1)
             S == {m \in Nat : Has(m)}
  <1>1. 0 \in S
    <2>1. Before(txs, 0 + 1) = 0
      BY BeforeIs
    <2> QED
      BY <2>1
  <1>2. ASSUME NEW m \in Nat, m \in S
        PROVE  m + 1 \in S
    <2>1. /\ Before(txs, m + 1) \in Nat
          /\ Before(txs, m + 1 + 1) = Before(txs, m + 1) + CallsIn(txs[m + 1])
          /\ CallsIn(txs[m + 1]) \in 0 .. 2
      <3>1. m + 1 \in 1 .. m + 1 /\ m + 1 \in Nat \ {0}
        OBVIOUS
      <3> QED
        BY <3>1, BeforeAscends
    <2>2. ASSUME NEW d \in 1 .. Before(txs, m + 1 + 1)
          PROVE  \E t \in 1 .. m + 1 : d \in Before(txs, t) + 1 .. Before(txs, t + 1)
      <3>1. CASE d <= Before(txs, m + 1)
        <4>1. d \in 1 .. Before(txs, m + 1)
          BY <2>1, <3>1
        <4>2. PICK t \in 1 .. m : d \in Before(txs, t) + 1 .. Before(txs, t + 1)
          BY <1>2, <4>1
        <4>3. t \in 1 .. m + 1
          OBVIOUS
        <4> QED
          BY <4>2, <4>3
      <3>2. CASE ~(d <= Before(txs, m + 1))
        <4>1. d \in Before(txs, m + 1) + 1 .. Before(txs, m + 1 + 1)
          BY <2>1, <3>2
        <4>2. m + 1 \in 1 .. m + 1
          OBVIOUS
        <4> QED
          BY <4>1, <4>2
      <3> QED
        BY <3>1, <3>2
    <2> QED
      BY <2>2
  <1> HIDE DEF S
  <1>3. Len(txs) \in Nat /\ Before(txs, Len(txs) + 1) = Len(calls)
    BY DEF ChainInv
  <1>4. Len(txs) \in S
    BY <1>1, <1>2, <1>3, UpFromZero
  <1> QED
    BY <1>3, <1>4 DEF S

(* All leaves are in the table. *)
LEMMA SettledRows ==
  ASSUME TablesInv, Settled
  PROVE  IsNumbered(Rows, 2 * Len(calls))
  <1>1. Len(calls) \in Nat /\ Len(txs) \in Nat
    BY DEF TablesInv, ChainInv
  <1>2. \A row \in Rows : row.index \in 0 .. 2 * Len(calls) - 1
    BY RowsOfTables DEF IsLeafRow
  <1>3. ASSUME NEW i \in 0 .. 2 * Len(calls) - 1
        PROVE  \E row \in Rows : row.index = i
    <2> DEFINE c == i \div 2 + 1
    <2>1. c \in 1 .. Len(calls) /\ 2 * c - 2 <= i /\ i <= 2 * c - 1
      <3>1. PICK n : n = Len(calls)
        OBVIOUS
      <3> QED
        BY <1>1, <3>1
    <2> HIDE DEF c
    <2>2. PICK t \in 1 .. Len(txs) : c \in Before(txs, t) + 1 .. Before(txs, t + 1)
      BY <2>1, CallHasTransaction DEF TablesInv
    <2>3. /\ Before(txs, t) \in Nat /\ CallsIn(txs[t]) \in 0 .. 2
          /\ Before(txs, t + 1) = Before(txs, t) + CallsIn(txs[t])
      <3>1. Len(txs) \in Nat \ {0}
        BY <1>1
      <3> QED
        BY <3>1, BeforeAscends
    <2>4. CallsIn(txs[t]) # 0
      BY <2>2, <2>3
    <2>5. NativeInstructions(Transaction(t), "pool") # <<>>
      BY <2>4, NullifiersOfTransaction DEF TablesInv, Settled, SpendsAsRead
    <2>6. AreRowsOf(OutputsOf(t), 2 * Before(txs, t), 2 * Before(txs, t + 1))
      BY <2>5, RowsOfTransaction DEF TablesInv
    <2>7. i \in 2 * Before(txs, t) .. 2 * Before(txs, t + 1) - 1
      <3>1. PICK b, k : b = Before(txs, t) /\ k = Before(txs, t + 1)
        OBVIOUS
      <3>2. b \in Nat /\ k \in Nat /\ c \in b + 1 .. k
        BY <2>2, <2>3, <3>1
      <3>3. i \in 2 * b .. 2 * k - 1
        BY <1>1, <2>1, <3>2
      <3> QED
        BY <3>1, <3>3
    <2>8. PICK row \in OutputsOf(t) : row.index = i
      BY <2>6, <2>7 DEF AreRowsOf
    <2>9. row \in Rows
      BY <2>8 DEF TablesInv, StoredInv, Settled, Rows
    <2> QED
      BY <2>8, <2>9
  <1>4. \A row, other \in Rows : row.index = other.index => row = other
    BY RowsUnique
  <1> QED
    BY <1>2, <1>3, <1>4 DEF IsNumbered

(* And all that was spent. *)
LEMMA SettledSpends ==
  ASSUME TablesInv, Settled, NEW nullifier
  PROVE  nullifier \in SpentRows <=> \E c \in 1 .. Len(calls) : Spends(calls[c], nullifier)
  <1>1. Len(calls) \in Nat /\ Len(txs) \in Nat
    BY DEF TablesInv, ChainInv
  <1>2. nullifier \in SpentRows <=> \E t \in 1 .. Len(txs) : nullifier \in NullifiersOf(t)
    BY DEF TablesInv, StoredInv, Settled, SpentRows
  <1>3. \A t \in 1 .. Len(txs) : SpendsAsRead(t)
    BY NullifiersOfTransaction DEF TablesInv, Settled
  <1>4. ASSUME NEW t \in 1 .. Len(txs), nullifier \in NullifiersOf(t)
        PROVE  \E c \in 1 .. Len(calls) : Spends(calls[c], nullifier)
    <2>1. PICK c \in 1 .. CallsIn(txs[t]) : Spends(calls[Before(txs, t) + c], nullifier)
      BY <1>3, <1>4 DEF SpendsAsRead
    <2>2. Len(txs) \in Nat \ {0}
      BY <1>1
    <2>3. /\ Before(txs, t) \in Nat /\ CallsIn(txs[t]) \in 0 .. 2
          /\ Before(txs, t + 1) = Before(txs, t) + CallsIn(txs[t])
          /\ Before(txs, t + 1) <= Before(txs, Len(txs) + 1)
      BY <2>2, BeforeAscends
    <2>4. Before(txs, Len(txs) + 1) = Len(calls)
      BY DEF TablesInv, ChainInv
    <2>5. Before(txs, t) + c \in 1 .. Len(calls)
      BY <1>1, <2>3, <2>4
    <2> QED
      BY <2>1, <2>5
  <1>5. ASSUME NEW c \in 1 .. Len(calls), Spends(calls[c], nullifier)
        PROVE  \E t \in 1 .. Len(txs) : nullifier \in NullifiersOf(t)
    <2>1. PICK t \in 1 .. Len(txs) : c \in Before(txs, t) + 1 .. Before(txs, t + 1)
      BY CallHasTransaction DEF TablesInv
    <2>2. Len(txs) \in Nat \ {0}
      BY <1>1
    <2>3. /\ Before(txs, t) \in Nat /\ CallsIn(txs[t]) \in 0 .. 2
          /\ Before(txs, t + 1) = Before(txs, t) + CallsIn(txs[t])
      BY <2>2, BeforeAscends
    <2>4. PICK k : k = c - Before(txs, t)
      OBVIOUS
    <2>5. k \in 1 .. CallsIn(txs[t]) /\ Before(txs, t) + k = c
      BY <2>1, <2>3, <2>4
    <2>6. nullifier \in NullifiersOf(t)
      BY <1>3, <1>5, <2>5 DEF SpendsAsRead
    <2> QED
      BY <2>6
  <1> QED
    BY <1>2, <1>4, <1>5

LEMMA SettledTable ==
  ASSUME TablesInv, Settled
  PROVE  Contiguous /\ Cardinality(Rows) = 2 * Len(calls)
  <1> DEFINE indexes == {row.index : row \in Rows}
  <1>1. PICK n, rows : n = 2 * Len(calls) /\ rows = Rows
    OBVIOUS
  <1>2. n \in Nat /\ IsNumbered(rows, n)
    BY <1>1, LeafCount, SettledRows
  <1>3. indexes = 0 .. n - 1
    BY <1>1, <1>2 DEF IsNumbered
  <1>4. Cardinality(0 .. n - 1) = n
    <2>1. 0 \in Int /\ n - 1 \in Int
      BY <1>2
    <2>2. Cardinality(0 .. n - 1) = IF 0 > n - 1 THEN 0 ELSE n - 1 - 0 + 1
      BY <2>1, FS_Interval
    <2> QED
      BY <1>2, <2>2
  <1>5. Contiguous
    BY <1>3, <1>4 DEF Contiguous
  <1>6. rows = {row \in rows : row.index < n}
    BY <1>2 DEF IsNumbered
  <1>7. Cardinality({row \in rows : row.index < n}) = n
    BY <1>2, CountBelow
  <1> QED
    BY <1>1, <1>5, <1>6, <1>7

(* What the wallet lists is unspent, and is told by its leaf. *)
Listed(note, i) ==
  /\ IsUnspent(OnChain[i], i)
  /\ note.index = i - 1 /\ note.amount = OnChain[i].amount
  /\ note.nullifier = NullifierOf(UtxoPrivateKey(Key), OnChain[i].commitment, i - 1)

LEMMA ListedNote ==
  ASSUME TablesInv, LeavesOK, Settled, NEW backup, NEW note \in ListOwnedNotes(backup)
  PROVE  \E i \in Leaves : Listed(note, i)
  <1>1. PICK i \in Leaves : IsLeafNote(note, i)
    BY OwnedNote
  <1>2. PICK leaf : leaf = OnChain[i]
    OBVIOUS
  <1>3. OutputOK(leaf) /\ leaf.encrypted.key = Key
    BY <1>1, <1>2 DEF LeavesOK, IsLeafNote, IsOurs
  <1>4. leaf.publicKey = Mine /\ leaf.commitment = CommitmentOf(leaf.amount, Mine, leaf.blinding)
    BY <1>3 DEF OutputOK, Mine
  <1>5. note.index = i - 1 /\ note.amount = leaf.amount /\ note.amount > 0
    BY <1>1, <1>2 DEF IsLeafNote, SelectedNote, IsSpendableNote, PositiveLamports
  <1>6. note.nullifier = NullifierOf(UtxoPrivateKey(Key), leaf.commitment, i - 1)
    <2>1. note = CreateDecryptedOwnedNote(Key, leaf.encrypted.payload, i - 1)
      BY <1>1, <1>2 DEF IsLeafNote, LeafNote
    <2>2. leaf.encrypted.payload.amount = leaf.amount
          /\ leaf.encrypted.payload.blinding = leaf.blinding
      BY <1>3 DEF OutputOK
    <2>3. note.nullifier = NullifierOf(UtxoPrivateKey(Key),
                             CommitmentOf(leaf.amount, Mine, leaf.blinding), i - 1)
      BY <2>1, <2>2 DEF CreateDecryptedOwnedNote, Mine
    <2> QED
      BY <1>4, <2>3
  <1>7. \A c \in 1 .. Len(calls) : ~Spends(calls[c], note.nullifier)
    <2>1. note.nullifier \notin SpentRows
      BY DEF ListOwnedNotes
    <2> QED
      BY <2>1, SettledSpends
  <1>8. DOMAIN calls = 1 .. Len(calls)
    BY DEF TablesInv, ChainInv
  <1>9. IsUnspent(leaf, i)
    BY <1>4, <1>5, <1>6, <1>7, <1>8 DEF IsUnspent, Mine
  <1> QED
    BY <1>2, <1>5, <1>6, <1>9 DEF Listed

(* And every unspent note of the wallet is listed. *)
LEMMA UnspentIsListed ==
  ASSUME TablesInv, LeavesOK, Settled, NEW i \in Leaves, IsUnspent(OnChain[i], i)
  PROVE  \E note \in ListOwnedNotes(Cardinality(Rows)) : Listed(note, i)
  <1>1. PICK leaf : leaf = OnChain[i]
    OBVIOUS
  <1>2. OutputOK(leaf) /\ IsUnspent(leaf, i)
    BY <1>1 DEF LeavesOK
  <1>3. leaf.encrypted.key = Key
    <2>1. UtxoPublicKey(UtxoPrivateKey(leaf.encrypted.key)) = UtxoPublicKey(UtxoPrivateKey(Key))
      BY <1>2 DEF OutputOK, IsUnspent
    <2> QED
      BY <2>1 DEF UtxoPublicKey, UtxoPrivateKey, Poseidon
  <1>4. Opens(Key, leaf.encrypted) /\ IsNote(leaf.encrypted.payload)
    BY <1>2, <1>3 DEF OutputOK, IsUnspent, Opens, IsNote
  <1>5. i - 1 \in 0 .. 2 * Len(calls) - 1 /\ i - 1 + 1 = i
    BY LeafCount DEF Leaves
  <1>6. PICK row \in Rows : row.index = i - 1
    BY <1>5, SettledRows DEF IsNumbered
  <1>7. row.encrypted = leaf.encrypted
    BY <1>1, <1>5, <1>6, RowsOfTables DEF IsLeafRow
  <1> DEFINE note == LeafNote(i)
  <1>8. note \in DecryptOwnedNote(Key, row.encrypted, row.index)
    BY <1>1, <1>4, <1>6, <1>7 DEF DecryptOwnedNote, LeafNote
  <1>9. row.index < Cardinality(Rows)
    BY <1>5, <1>6, LeafCount, SettledTable
  <1>10. note \in OwnedNotes(Cardinality(Rows))
    <2> HIDE DEF note
    <2> QED
      BY <1>8, <1>9 DEF OwnedNotes
  <1>11. /\ leaf.publicKey = Mine
         /\ leaf.commitment = CommitmentOf(leaf.amount, Mine, leaf.blinding)
         /\ leaf.encrypted.payload.amount = leaf.amount
         /\ leaf.encrypted.payload.blinding = leaf.blinding
    BY <1>2, <1>3 DEF OutputOK, Mine
  <1>12. /\ note.index = i - 1 /\ note.amount = leaf.amount
         /\ note.nullifier = NullifierOf(UtxoPrivateKey(Key), leaf.commitment, i - 1)
    <2>1. note = CreateDecryptedOwnedNote(Key, leaf.encrypted.payload, i - 1)
      BY <1>1 DEF LeafNote
    <2> HIDE DEF note
    <2> QED
      BY <1>11, <2>1 DEF CreateDecryptedOwnedNote, Mine
  <1> HIDE DEF note
  <1>13. note.nullifier \notin SpentRows
    <2>1. DOMAIN calls = 1 .. Len(calls)
      BY DEF TablesInv, ChainInv
    <2>2. \A c \in 1 .. Len(calls) : ~Spends(calls[c], note.nullifier)
      BY <1>2, <1>12, <2>1 DEF IsUnspent
    <2> QED
      BY <2>2, SettledSpends
  <1>14. note \in ListOwnedNotes(Cardinality(Rows))
    BY <1>10, <1>13 DEF ListOwnedNotes
  <1>15. Listed(note, i)
    BY <1>1, <1>2, <1>12 DEF Listed
  <1> QED
    BY <1>14, <1>15

(* When the indexer has read every transaction, a scan shows exactly the    *)
(* wallet's unspent notes, under the nullifiers the program will look for   *)
(* (createOwnedNoteSource, filterUnspentNotes): for any number of devices   *)
(* and of transactions with one call or two, whose rows were stored in any  *)
(* order.                                                                   *)
THEOREM SettledBalances == Spec => []SettledBalanceIsTrue
  <1>1. JobInv => SettledBalanceIsTrue
    <2> SUFFICES ASSUME JobInv, outputs = DOMAIN txs, spends = DOMAIN txs,
                        \A t \in DOMAIN txs : txs[t] # "wrapped"
                 PROVE  SettledBalanceIsTrue
      BY DEF SettledBalanceIsTrue
    <2>1. TablesInv /\ LeavesOK
      BY DEF JobInv
    <2>2. DOMAIN txs = 1 .. Len(txs)
      BY <2>1 DEF TablesInv, ChainInv
    <2>3. Settled
      BY <2>2 DEF Settled
    <2>4. Contiguous
      BY <2>1, <2>3, SettledTable
    <2> DEFINE notes == ListOwnedNotes(Cardinality(Rows))
               all == OnChain
               Shown(note) == [index |-> note.index, amount |-> note.amount,
                               nullifier |-> note.nullifier]
               Held(i) == [index |-> i - 1, amount |-> all[i].amount,
                           nullifier |-> NullifierOf(UtxoPrivateKey(Key),
                                                     all[i].commitment, i - 1)]
               unspent == {i \in DOMAIN all : IsUnspent(all[i], i)}
    <2>5. DOMAIN all = Leaves
      <3>1. Len(calls) \in Nat
        BY <2>1, LeafCount
      <3> QED
        BY <3>1 DEF OnChain, Leaves
    <2>6. \A note \in notes : \E i \in unspent : Listed(note, i)
      <3>1. \A note \in notes : \E i \in Leaves : Listed(note, i)
        BY <2>1, <2>3, ListedNote
      <3> HIDE DEF notes
      <3> QED
        BY <2>5, <3>1 DEF Listed
    <2>7. \A i \in unspent : \E note \in notes : Listed(note, i)
      BY <2>1, <2>3, <2>5, UnspentIsListed
    <2>8. \A note, i : Listed(note, i) => Shown(note) = Held(i)
      BY DEF Listed
    <2> HIDE DEF notes, unspent, Shown, Held
    <2>9. {Shown(note) : note \in notes} = {Held(i) : i \in unspent}
      BY <2>6, <2>7, <2>8
    <2> QED
      BY <2>4, <2>9 DEF SettledBalanceIsTrue, notes, unspent, Shown, Held
  <1> QED
    BY <1>1, JobsHold, PTL

===============================================================================
