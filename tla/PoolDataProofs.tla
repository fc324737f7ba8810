---------------------------- MODULE PoolDataProofs ----------------------------
(*****************************************************************************)
(* Facts about the data of the pool, for every note, amount, instruction,   *)
(* transaction, log and tree: what pickNotes picks, what is read back of an *)
(* instruction, how logs are read, and that the two ways of computing a     *)
(* root, the tree's and the program's, and a leaf's path agree.             *)
(*****************************************************************************)
EXTENDS NoteSelection, PoolParser, MerkleTree, QuotesProofs, SequenceTheorems

-------------------------------------------------------------------------------
(* pickNotes. *)

(* Among notes of bounded amounts there is a largest. *)
LEMMA LargestExists ==
  ASSUME NEW notes, NEW bound \in Nat, notes # {},
         \A note \in notes : note.amount \in 0 .. bound
  PROVE  Largest(notes) # {}
  <1> DEFINE Amounts == {note.amount : note \in notes}
  <1>1. Amounts \subseteq Nat /\ Amounts # {} /\ \A n \in Amounts : n <= bound
    OBVIOUS
  <1> HIDE DEF Amounts
  <1>2. PICK greatest \in Amounts : \A other \in Amounts : other <= greatest
    BY <1>1, GreatestNatural
  <1>3. PICK note \in notes : note.amount = greatest
    BY DEF Amounts
  <1>4. \A other \in notes : other.amount <= note.amount
    BY <1>2, <1>3 DEF Amounts
  <1> QED
    BY <1>3, <1>4 DEF Largest

(* Taking the largest notes first, and two at most, finds a selection       *)
(* exactly when one note or two reach the target, and every selection it    *)
(* makes does (pickNotes), whatever the notes and the target are.           *)
THEOREM PickingIsComplete ==
  ASSUME NEW notes, NEW bound \in Nat, NEW target \in Nat,
         \A note \in notes : note.amount \in 0 .. bound
  PROVE  PicksWell(notes, target)
  <1>1. ASSUME NEW picked \in PickNotes(notes, target)
        PROVE  \/ \E note \in notes : picked = <<note>> /\ note.amount >= target
               \/ \E first, second \in notes :
                    /\ picked = <<first, second>> /\ first # second
                    /\ first.amount + second.amount >= target
    BY DEF PickNotes, Largest
  <1>2. ASSUME PickNotes(notes, target) # {}
        PROVE  Covered(notes, target)
    BY <1>1, <1>2 DEF Covered
  <1>3. ASSUME Covered(notes, target)
        PROVE  PickNotes(notes, target) # {}
    <2>1. PICK a, b \in notes : \/ a.amount >= target
                                \/ a # b /\ a.amount + b.amount >= target
      BY <1>3 DEF Covered
    <2>2. PICK first \in Largest(notes) : TRUE
      BY <2>1, LargestExists
    <2>3. first \in notes /\ \A other \in notes : other.amount <= first.amount
      BY <2>2 DEF Largest
    <2>4. first.amount \in Nat /\ a.amount \in Nat /\ b.amount \in Nat
      BY <2>1, <2>3
    <2>5. CASE first.amount >= target
      <3>1. <<first>> \in PickNotes(notes, target)
        BY <2>2, <2>5 DEF PickNotes
      <3> QED
        BY <3>1
    <2>6. CASE first.amount < target
      <3>1. a.amount < target
        BY <2>3, <2>4, <2>6
      <3>2. a # b /\ a.amount + b.amount >= target
        BY <2>1, <2>4, <3>1
      <3> DEFINE rest == notes \ {first}
      <3>3. rest # {}
        BY <2>1, <3>2
      <3>4. \A note \in rest : note.amount \in 0 .. bound
        OBVIOUS
      <3>5. PICK second \in Largest(rest) : TRUE
        <4> HIDE DEF rest
        <4> QED
          BY <3>3, <3>4, LargestExists
      <3>6. second \in notes /\ second.amount \in Nat
            /\ \A other \in rest : other.amount <= second.amount
        BY <3>5 DEF Largest
      <3>7. first.amount + second.amount >= target
        <4>1. CASE a # first
          <5>1. a.amount <= second.amount
            BY <2>1, <3>6, <4>1
          <5>2. b.amount <= first.amount
            BY <2>3
          <5> QED
            BY <2>4, <3>2, <3>6, <5>1, <5>2
        <4>2. CASE a = first
          <5>1. b.amount <= second.amount
            BY <2>1, <3>2, <3>6, <4>2
          <5> QED
            BY <2>4, <3>2, <3>6, <4>2, <5>1
        <4> QED
          BY <4>1, <4>2
      <3>8. <<first, second>> \in PickNotes(notes, target)
        <4> DEFINE Seconds(f) == {s \in Largest(notes \ {f}) :
                                    f.amount + s.amount >= target}
                   Firsts == {f \in Largest(notes) : f.amount < target}
        <4>1. first \in Firsts /\ second \in Seconds(first)
          BY <2>2, <2>6, <3>5, <3>7
        <4>2. UNION {{<<f, s>> : s \in Seconds(f)} : f \in Firsts}
                \subseteq PickNotes(notes, target)
          BY DEF PickNotes
        <4> HIDE DEF Seconds, Firsts
        <4>3. <<first, second>> \in {<<first, s>> : s \in Seconds(first)}
          BY <4>1
        <4>4. {<<first, s>> : s \in Seconds(first)}
                \in {{<<f, s>> : s \in Seconds(f)} : f \in Firsts}
          BY <4>1
        <4> QED
          BY <4>2, <4>3, <4>4
      <3> QED
        BY <3>8
    <2> QED
      BY <2>4, <2>5, <2>6
  <1>4. PickNotes(notes, target) = {} <=> ~Covered(notes, target)
    BY <1>2, <1>3
  <1> QED
    BY <1>1, <1>4 DEF PicksWell

-------------------------------------------------------------------------------
(* Instructions: what is written and what is read back.                     *)

Positive == Nat \ {0}

(* The recursion of Starts, up to n. *)
LEMMA StartsExist ==
  ASSUME NEW sizes, NEW n \in Nat
  PROVE  \E upTo : upTo = [i \in 1 .. n |->
                       IF i = 1 THEN <<0>>
                       ELSE LET before == upTo[i - 1]
                            IN  Append(before, before[i - 1] + sizes[i - 1])]
  <1> DEFINE Next(upTo, i) ==
               IF i = 1 THEN <<0>>
               ELSE Append(upTo[i - 1], upTo[i - 1][i - 1] + sizes[i - 1])
             Body(m, upTo) == [i \in 1 .. m |-> Next(upTo, i)]
             S == {m \in Nat : \E upTo : upTo = Body(m, upTo)}
  <1>1. 0 \in S
    <2>1. <<>> = Body(0, <<>>)
      OBVIOUS
    <2> QED
      BY <2>1
  <1>2. ASSUME NEW m \in Nat, m \in S
        PROVE  m + 1 \in S
    <2>1. PICK f : f = Body(m, f)
      BY <1>2
    <2> DEFINE g == Body(m + 1, f)
    <2>2. \A i \in 1 .. m : f[i] = Next(f, i)
      BY <2>1
    <2>3. \A i \in 1 .. m : g[i] = f[i]
      <3> HIDE DEF Next
      <3> QED
        BY <2>2
    <2>4. \A i \in 1 .. m + 1 : Next(f, i) = Next(g, i)
      <3> HIDE DEF g
      <3> QED
        BY <2>3
    <2>5. g = Body(m + 1, g)
      <3> HIDE DEF Next
      <3>1. [i \in 1 .. m + 1 |-> Next(f, i)] = [i \in 1 .. m + 1 |-> Next(g, i)]
        <4> HIDE DEF g
        <4> QED
          BY <2>4
      <3> QED
        BY <3>1
    <2> HIDE DEF Body, g
    <2> QED
      BY <2>5
  <1> HIDE DEF S
  <1>3. n \in S
    BY <1>1, <1>2, UpFromZero
  <1> QED
    BY <1>3 DEF S

(* Where the fields of data start: each after the one before. *)
LEMMA StartsAre ==
  ASSUME NEW sizes \in Seq(Positive), Len(sizes) # 0
  PROVE  /\ Starts(sizes) \in Seq(Nat) /\ Len(Starts(sizes)) = Len(sizes)
         /\ Starts(sizes)[1] = 0
         /\ \A i \in 1 .. Len(sizes) - 1 :
              Starts(sizes)[i + 1] = Starts(sizes)[i] + sizes[i]
  <1> DEFINE n == Len(sizes)
             Body(upTo) == [i \in 1 .. n |->
                       IF i = 1 THEN <<0>>
                       ELSE Append(upTo[i - 1], upTo[i - 1][i - 1] + sizes[i - 1])]
             upTo == CHOOSE f : f = Body(f)
             Right(s, m) == /\ s \in Seq(Nat) /\ Len(s) = m
                            /\ s[1] = 0
                            /\ \A i \in 1 .. m - 1 : s[i + 1] = s[i] + sizes[i]
             S == {m \in Nat : m + 1 <= n => Right(upTo[m + 1], m + 1)}
  <1>1. n \in Nat /\ \A i \in 1 .. n : sizes[i] \in Nat
    BY DEF Positive
  <1>2. upTo = Body(upTo)
    <2>1. \E f : f = Body(f)
      BY <1>1, StartsExist
    <2> HIDE DEF Body
    <2> QED
      BY <2>1
  <1>3. Starts(sizes) = upTo[n]
    BY DEF Starts
  <1> HIDE DEF upTo, n
  <1>4. \A i \in 1 .. n : upTo[i] = IF i = 1 THEN <<0>>
                       ELSE Append(upTo[i - 1], upTo[i - 1][i - 1] + sizes[i - 1])
    BY <1>2
  <1>5. 0 \in S
    <2>1. Right(<<0>>, 1)
      OBVIOUS
    <2>2. 1 <= n => Right(upTo[1], 1)
      <3> HIDE DEF Right
      <3> QED
        BY <1>1, <1>4, <2>1
    <2> HIDE DEF Right
    <2> QED
      BY <2>2
  <1>6. ASSUME NEW m \in Nat, m \in S
        PROVE  m + 1 \in S
    <2>0. /\ (m + 1) + 1 = m + 2 /\ (m + 2) - 1 = m + 1 /\ (m + 1) - 1 = m
          /\ m + 1 \in Nat
      OBVIOUS
    <2>1. SUFFICES ASSUME m + 2 <= n
                   PROVE  Right(upTo[m + 2], m + 2)
      <3> HIDE DEF Right
      <3> QED
        BY <2>0
    <2> DEFINE s == upTo[m + 1]
               next == s[m + 1] + sizes[m + 1]
    <2>2. Right(s, m + 1)
      <3> HIDE DEF Right
      <3> QED
        BY <1>1, <1>6, <2>1
    <2>3. upTo[m + 2] = Append(s, next)
      <3>1. m + 2 \in 1 .. n /\ m + 2 # 1 /\ (m + 2) - 1 = m + 1
        BY <1>1, <2>1
      <3> QED
        BY <1>4, <3>1
    <2>4. next \in Nat /\ s \in Seq(Nat) /\ Len(s) = m + 1
      BY <1>1, <2>1, <2>2
    <2> HIDE DEF s
    <2>5. /\ Append(s, next) \in Seq(Nat) /\ Len(Append(s, next)) = m + 2
          /\ \A i \in 1 .. m + 1 : Append(s, next)[i] = s[i]
          /\ Append(s, next)[m + 2] = next
      <3> HIDE DEF next
      <3> QED
        BY <2>4, AppendProperties
    <2>6. ASSUME NEW i \in 1 .. m + 1
          PROVE  Append(s, next)[i + 1] = Append(s, next)[i] + sizes[i]
      <3>1. CASE i = m + 1
        <4>1. i + 1 = m + 2
          BY <3>1
        <4> QED
          BY <2>5, <3>1, <4>1
      <3>2. CASE i # m + 1
        <4>1. i \in 1 .. m /\ i + 1 \in 1 .. m + 1
          BY <3>2
        <4>2. s[i + 1] = s[i] + sizes[i]
          BY <2>0, <2>2, <4>1
        <4> HIDE DEF next
        <4> QED
          BY <2>5, <4>1, <4>2
      <3> QED
        BY <3>1, <3>2
    <2>7. s[1] = 0 /\ Append(s, next)[1] = 0
      BY <2>2, <2>5
    <2> HIDE DEF next
    <2> QED
      BY <2>0, <2>3, <2>5, <2>6, <2>7
  <1>7. n - 1 \in S
    <2> HIDE DEF S
    <2>1. n - 1 \in Nat
      BY <1>1 DEF n
    <2> QED
      BY <1>5, <1>6, <2>1, UpFromZero
  <1>8. Right(upTo[n], n)
    <2>1. (n - 1) + 1 = n
      BY <1>1
    <2> HIDE DEF Right
    <2> QED
      BY <1>1, <1>7, <2>1
  <1> QED
    BY <1>3, <1>8 DEF n

(* So no two fields start at one place, *)
LEMMA StartsAscend ==
  ASSUME NEW sizes \in Seq(Positive), NEW i \in 1 .. Len(sizes),
         NEW j \in 1 .. Len(sizes), i < j
  PROVE  Starts(sizes)[i] < Starts(sizes)[j]
  <1> DEFINE n == Len(sizes)
             starts == Starts(sizes)
             S == {m \in Nat : i + 1 + m <= n => starts[i] < starts[i + 1 + m]}
  <1>1. n \in Nat /\ \A k \in 1 .. n : sizes[k] \in Nat /\ sizes[k] > 0
    BY DEF Positive
  <1>2. /\ \A k \in 1 .. n : starts[k] \in Nat
        /\ \A k \in 1 .. n - 1 : starts[k + 1] = starts[k] + sizes[k]
    <2>1. n # 0
      OBVIOUS
    <2> QED
      BY <2>1, StartsAre
  <1> HIDE DEF n, starts
  <1>3. i \in 1 .. n /\ j \in 1 .. n
    BY DEF n
  <1>4. \A k \in 1 .. n - 1 : k + 1 \in 1 .. n /\ k \in 1 .. n /\ starts[k] < starts[k + 1]
    BY <1>1, <1>2
  <1>5. 0 \in S
    BY <1>1, <1>3, <1>4
  <1>6. ASSUME NEW m \in Nat, m \in S
        PROVE  m + 1 \in S
    <2> SUFFICES ASSUME i + 1 + (m + 1) <= n
                 PROVE  starts[i] < starts[i + 1 + (m + 1)]
      OBVIOUS
    <2>1. /\ i + 1 + m \in 1 .. n - 1 /\ i + 1 + (m + 1) = (i + 1 + m) + 1
      BY <1>1, <1>3
    <2>2. starts[i] < starts[i + 1 + m]
      BY <1>1, <1>3, <1>6, <2>1
    <2>3. starts[i + 1 + m] < starts[i + 1 + (m + 1)]
      BY <1>4, <2>1
    <2>4. starts[i] \in Nat /\ starts[i + 1 + m] \in Nat /\ starts[i + 1 + (m + 1)] \in Nat
      BY <1>2, <1>3, <1>4, <2>1
    <2> QED
      BY <2>2, <2>3, <2>4
  <1>7. j - i - 1 \in S
    <2> HIDE DEF S
    <2>1. j - i - 1 \in Nat
      BY <1>1, <1>3
    <2> QED
      BY <1>5, <1>6, <2>1, UpFromZero
  <1>8. i + 1 + (j - i - 1) = j /\ j <= n
    BY <1>1, <1>3
  <1> QED
    BY <1>7, <1>8 DEF starts

(* and what a reader finds that goes through the first fields is these.     *)
LEMMA StartsOfPart ==
  ASSUME NEW sizes \in Seq(Positive), NEW part \in Seq(Positive), Len(part) # 0,
         Len(part) <= Len(sizes),
         \A i \in 1 .. Len(part) : part[i] = sizes[i]
  PROVE  \A i \in 1 .. Len(part) : Starts(part)[i] = Starts(sizes)[i]
  <1> DEFINE n == Len(part)
             S == {m \in Nat : m + 1 <= n => Starts(part)[m + 1] = Starts(sizes)[m + 1]}
  <1>1. n \in Nat /\ Len(sizes) \in Nat /\ Len(sizes) # 0
    OBVIOUS
  <1>2. /\ Starts(part)[1] = 0 /\ Starts(sizes)[1] = 0
        /\ \A i \in 1 .. n - 1 : Starts(part)[i + 1] = Starts(part)[i] + part[i]
        /\ \A i \in 1 .. Len(sizes) - 1 : Starts(sizes)[i + 1] = Starts(sizes)[i] + sizes[i]
    BY <1>1, StartsAre
  <1>3. 0 \in S
    BY <1>2
  <1>4. ASSUME NEW m \in Nat, m \in S
        PROVE  m + 1 \in S
    <2> SUFFICES ASSUME (m + 1) + 1 <= n
                 PROVE  Starts(part)[(m + 1) + 1] = Starts(sizes)[(m + 1) + 1]
      OBVIOUS
    <2>1. m + 1 \in 1 .. n - 1 /\ m + 1 \in 1 .. Len(sizes) - 1 /\ m + 1 \in 1 .. n
      BY <1>1
    <2>2. Starts(part)[m + 1] = Starts(sizes)[m + 1]
      BY <1>1, <1>4, <2>1
    <2> QED
      BY <1>2, <2>1, <2>2
  <1>5. ASSUME NEW i \in 1 .. n
        PROVE  Starts(part)[i] = Starts(sizes)[i]
    <2>1. i - 1 \in Nat /\ (i - 1) + 1 = i /\ i <= n
      BY <1>1
    <2>2. i - 1 \in S
      <3> HIDE DEF S
      <3> QED
        BY <1>3, <1>4, <2>1, UpFromZero
    <2> QED
      BY <2>1, <2>2
  <1> QED
    BY <1>5

LEMMA ReadsItsFields ==
  ASSUME NEW data, NEW n \in Nat \ {0}, DOMAIN data = 1 .. n, Len(data) = n,
         \A i \in 1 .. n : data[i].size \in Positive,
         NEW sizes \in Seq(Positive), Len(sizes) # 0, Len(sizes) <= n,
         \A i \in 1 .. Len(sizes) : sizes[i] = data[i].size
  PROVE  ReadFields(data, sizes) = [i \in 1 .. Len(sizes) |-> data[i].value]
  <1> DEFINE written == [i \in 1 .. Len(data) |-> data[i].size]
             have == Starts(written)
             want == Starts(sizes)
             Here(i) == {j \in DOMAIN have :
                           have[j] = want[i] /\ data[j].size = sizes[i]}
             Read(i) == IF Here(i) = {} THEN <<data, want[i], sizes[i]>>
                        ELSE data[CHOOSE j \in Here(i) : TRUE].value
  <1>1. /\ written \in Seq(Positive) /\ Len(written) = n
        /\ \A i \in 1 .. n : written[i] = data[i].size
    OBVIOUS
  <1>2. \A i \in 1 .. Len(sizes) : sizes[i] = written[i] /\ i \in 1 .. n
    BY <1>1
  <1>3. \A i \in 1 .. Len(sizes) : want[i] = have[i]
    <2> HIDE DEF written
    <2> QED
      BY <1>1, <1>2, StartsOfPart
  <1>4. DOMAIN have = 1 .. n /\ \A i \in 1 .. n : have[i] \in Nat
    <2> HIDE DEF written
    <2> QED
      BY <1>1, StartsAre
  <1>5. \A i, j \in 1 .. n : have[i] = have[j] => i = j
    <2> SUFFICES ASSUME NEW i \in 1 .. n, NEW j \in 1 .. n, have[i] = have[j], i # j
                 PROVE  FALSE
      OBVIOUS
    <2>1. i < j \/ j < i
      OBVIOUS
    <2>2. have[i] < have[j] \/ have[j] < have[i]
      <3> HIDE DEF written
      <3> QED
        BY <1>1, <2>1, StartsAscend
    <2> HIDE DEF have
    <2> QED
      BY <1>4, <2>2
  <1>6. ReadFields(data, sizes) = [i \in 1 .. Len(sizes) |-> Read(i)]
    BY DEF ReadFields
  <1> HIDE DEF have, want
  <1>7. ASSUME NEW i \in 1 .. Len(sizes)
        PROVE  Read(i) = data[i].value
    <2>1. Here(i) = {i}
      BY <1>2, <1>3, <1>4, <1>5
    <2> HIDE DEF Here
    <2>2. (CHOOSE j \in Here(i) : TRUE) = i
      BY <2>1
    <2> QED
      BY <2>1, <2>2
  <1> HIDE DEF Read
  <1> QED
    BY <1>6, <1>7

TransactSizes == <<8, 64, 128, 64, 32, 32, 32, 32, 32, 32, 32, 8, 8, 4, 85, 4, 85>>

TransactValues(args) ==
  <<"transact", args.proof.proofA, args.proof.proofB, args.proof.proofC,
    args.proof.root, args.proof.publicAmount, args.proof.extDataHash,
    args.proof.inputNullifiers[1], args.proof.inputNullifiers[2],
    args.proof.outputCommitments[1], args.proof.outputCommitments[2],
    args.extData.amount, args.extData.fee, OutputSize, args.encryptedOutput1,
    OutputSize, args.encryptedOutput2>>

(* The size elements of a sequence after the first ones. *)
Part(f, start, size) == [i \in 1 .. size |-> f[start + i]]

LEMMA JoinedParts ==
  ASSUME NEW f, NEW m \in Nat, NEW k \in Nat, NEW n, n = m + k
  PROVE  Part(f, 0, m) \o Part(f, m, k) = Part(f, 0, n)
  <1> DEFINE U == {f[i] : i \in 1 .. n}
             a == Part(f, 0, m)
             b == Part(f, m, k)
             whole == Part(f, 0, n)
  <1>1. /\ \A i \in 1 .. m : 0 + i = i /\ i \in 1 .. n
        /\ \A i \in 1 .. k : m + i \in 1 .. n
        /\ \A i \in 1 .. n : 0 + i = i
    OBVIOUS
  <1>2. /\ a \in Seq(U) /\ Len(a) = m /\ \A i \in 1 .. m : a[i] = f[i]
        /\ b \in Seq(U) /\ Len(b) = k /\ \A i \in 1 .. k : b[i] = f[m + i]
        /\ whole \in Seq(U) /\ Len(whole) = n /\ \A i \in 1 .. n : whole[i] = f[i]
    <2>1. \A i \in 1 .. n : f[i] \in U
      OBVIOUS
    <2> HIDE DEF U
    <2> QED
      BY <1>1, <2>1 DEF Part
  <1> HIDE DEF U, a, b, whole
  <1>3. /\ a \o b \in Seq(U) /\ Len(a \o b) = n
        /\ \A i \in 1 .. n : (a \o b)[i] = IF i <= m THEN a[i] ELSE b[i - m]
    <2>1. a \in Seq(U) /\ b \in Seq(U) /\ Len(a) = m /\ Len(b) = k
      BY <1>2
    <2> QED
      BY <2>1, ConcatProperties
  <1>4. ASSUME NEW i \in 1 .. n
        PROVE  (a \o b)[i] = whole[i]
    <2>1. CASE i <= m
      <3>1. i \in 1 .. m
        BY <2>1
      <3> QED
        BY <1>2, <1>3, <2>1, <3>1
    <2>2. CASE ~(i <= m)
      <3>1. i - m \in 1 .. k /\ m + (i - m) = i
        BY <2>2
      <3>2. b[i - m] = f[m + (i - m)]
        BY <1>2, <3>1
      <3>3. (a \o b)[i] = b[i - m]
        BY <1>3, <2>2
      <3> QED
        BY <1>2, <3>1, <3>2, <3>3
    <2> QED
      BY <2>1, <2>2
  <1>5. a \o b = whole
    BY <1>2, <1>3, <1>4, SeqEqual
  <1> QED
    BY <1>5 DEF a, b, whole

(* The parts of the data of a transact. *)
LEMMA TransactParts ==
  ASSUME NEW f
  PROVE  /\ Part(f, 0, 1) \o Part(f, 1, 10) = Part(f, 0, 11)
         /\ Part(f, 0, 11) \o Part(f, 11, 2) = Part(f, 0, 13)
         /\ Part(f, 0, 13) \o Part(f, 13, 1) = Part(f, 0, 14)
         /\ Part(f, 0, 13) \o Part(f, 13, 2) = Part(f, 0, 15)
         /\ Part(f, 0, 14) \o Part(f, 14, 3) = Part(f, 0, 17)
         /\ Part(f, 0, 15) \o Part(f, 15, 2) = Part(f, 0, 17)
  <1>1. Part(f, 0, 1) \o Part(f, 1, 10) = Part(f, 0, 11)
    BY JoinedParts
  <1>2. Part(f, 0, 11) \o Part(f, 11, 2) = Part(f, 0, 13)
    BY JoinedParts
  <1>3. Part(f, 0, 13) \o Part(f, 13, 1) = Part(f, 0, 14)
    BY JoinedParts
  <1>4. Part(f, 0, 13) \o Part(f, 13, 2) = Part(f, 0, 15)
    BY JoinedParts
  <1>5. Part(f, 0, 14) \o Part(f, 14, 3) = Part(f, 0, 17)
    BY JoinedParts
  <1>6. Part(f, 0, 15) \o Part(f, 15, 2) = Part(f, 0, 17)
    BY JoinedParts
  <1> QED
    BY <1>1, <1>2, <1>3, <1>4, <1>5, <1>6

LEMMA TransactFieldsAre ==
  ASSUME NEW args
  PROVE  EncodeTransactData(args) =
           [i \in 1 .. 17 |-> Bytes(TransactSizes[i], TransactValues(args)[i])]
  <1> DEFINE values == TransactValues(args)
             name == <<Discriminator("transact")>>
             proof == EncodeProof(args.proof)
             ext == EncodeExtData(args.extData)
             first == Prefixed(args.encryptedOutput1)
             second == Prefixed(args.encryptedOutput2)
             fields == [i \in 1 .. 17 |-> Bytes(TransactSizes[i], values[i])]
  <1>1. /\ name = Part(fields, 0, 1)
        /\ proof = Part(fields, 1, 10)
        /\ ext = Part(fields, 11, 2)
        /\ first = Part(fields, 13, 2)
        /\ second = Part(fields, 15, 2)
        /\ fields = Part(fields, 0, 17)
    BY DEF TransactSizes, TransactValues, Discriminator, EncodeProof,
           EncodeExtData, Prefixed, ProofSizes, OutputSize, Part
  <1>2. EncodeTransactData(args) = (((name \o proof) \o ext) \o first) \o second
    BY DEF EncodeTransactData
  <1> HIDE DEF name, proof, ext, first, second, fields
  <1>3. name \o proof = Part(fields, 0, 11)
    BY <1>1, TransactParts
  <1>4. (name \o proof) \o ext = Part(fields, 0, 13)
    BY <1>1, <1>3, TransactParts
  <1>5. ((name \o proof) \o ext) \o first = Part(fields, 0, 15)
    BY <1>1, <1>4, TransactParts
  <1>6. (((name \o proof) \o ext) \o first) \o second = Part(fields, 0, 17)
    BY <1>1, <1>5, TransactParts
  <1> QED
    BY <1>1, <1>2, <1>6 DEF fields

(* Reading the first fields of a transact. *)
LEMMA ReadsTransact ==
  ASSUME NEW args, NEW n \in Nat, n # 0, n <= 17
  PROVE  ReadFields(EncodeTransactData(args), Part(TransactSizes, 0, n))
           = Part(TransactValues(args), 0, n)
  <1> DEFINE data == EncodeTransactData(args)
             sizes == Part(TransactSizes, 0, n)
             values == TransactValues(args)
  <1>1. \A i \in 1 .. 17 : TransactSizes[i] \in Positive
    BY DEF TransactSizes, Positive
  <1>2. data = [i \in 1 .. 17 |-> Bytes(TransactSizes[i], values[i])]
    BY TransactFieldsAre
  <1>3. \A i \in 1 .. n : i \in 1 .. 17 /\ 0 + i = i
    OBVIOUS
  <1>4. sizes \in Seq(Positive) /\ Len(sizes) = n /\ \A i \in 1 .. n : sizes[i] = TransactSizes[i]
    BY <1>1, <1>3 DEF Part
  <1> HIDE DEF data, values, sizes
  <1>5. /\ DOMAIN data = 1 .. 17 /\ Len(data) = 17
        /\ \A i \in 1 .. 17 : data[i].size = TransactSizes[i] /\ data[i].value = values[i]
    BY <1>2 DEF Bytes
  <1>6. \A i \in 1 .. Len(sizes) : sizes[i] = data[i].size
    BY <1>3, <1>4, <1>5
  <1>7. \A i \in 1 .. 17 : data[i].size \in Positive
    BY <1>1, <1>5
  <1>8. ReadFields(data, sizes) = [i \in 1 .. Len(sizes) |-> data[i].value]
    <2>1. Len(sizes) # 0 /\ Len(sizes) <= 17 /\ 17 \in Nat \ {0}
      BY <1>4
    <2> QED
      BY <1>4, <1>5, <1>6, <1>7, <2>1, ReadsItsFields
  <1>9. [i \in 1 .. Len(sizes) |-> data[i].value] = [i \in 1 .. n |-> values[0 + i]]
    BY <1>3, <1>4, <1>5
  <1> QED
    BY <1>8, <1>9 DEF data, values, sizes, Part

(* A transact that is written is read as it was written.                    *)
THEOREM InstructionsSayWhatWasWritten ==
  ASSUME NEW args
  PROVE  DecodeTransactData(EncodeTransactData(args)) =
           [discriminator |-> "transact",
            proof |-> [proofA |-> args.proof.proofA, proofB |-> args.proof.proofB,
                       proofC |-> args.proof.proofC, root |-> args.proof.root,
                       publicAmount |-> args.proof.publicAmount,
                       extDataHash |-> args.proof.extDataHash,
                       inputNullifiers |-> <<args.proof.inputNullifiers[1],
                                             args.proof.inputNullifiers[2]>>,
                       outputCommitments |-> <<args.proof.outputCommitments[1],
                                               args.proof.outputCommitments[2]>>],
            extData |-> [amount |-> args.extData.amount, fee |-> args.extData.fee],
            encryptedOutput1 |-> args.encryptedOutput1,
            encryptedOutput2 |-> args.encryptedOutput2]
  <1> DEFINE data == EncodeTransactData(args)
             values == TransactValues(args)
             head == <<8>> \o ProofSizes \o ExtDataSizes \o <<4>>
             first == ReadFields(data, head)
             all == ReadFields(data, head \o <<first[14], 4, OutputSize>>)
  <1>1. head = Part(TransactSizes, 0, 14)
    <2> DEFINE size == TransactSizes
    <2>1. /\ <<8>> = Part(size, 0, 1)
          /\ ProofSizes = Part(size, 1, 10)
          /\ ExtDataSizes = Part(size, 11, 2)
          /\ <<4>> = Part(size, 13, 1)
      BY DEF TransactSizes, ProofSizes, ExtDataSizes, Part
    <2> HIDE DEF size
    <2>2. <<8>> \o ProofSizes = Part(size, 0, 11)
      BY <2>1, TransactParts
    <2>3. <<8>> \o ProofSizes \o ExtDataSizes = Part(size, 0, 13)
      BY <2>1, <2>2, TransactParts
    <2>4. head = Part(size, 0, 14)
      BY <2>1, <2>3, TransactParts
    <2> QED
      BY <2>4 DEF size
  <1> HIDE DEF head
  <1>2. first = Part(values, 0, 14)
    BY <1>1, ReadsTransact
  <1>3. first[14] = 85
    BY <1>2 DEF TransactValues, OutputSize, Part
  <1> HIDE DEF first
  <1>4. head \o <<first[14], 4, OutputSize>> = Part(TransactSizes, 0, 17)
    <2>1. <<first[14], 4, OutputSize>> = Part(TransactSizes, 14, 3)
      BY <1>3 DEF TransactSizes, OutputSize, Part
    <2> QED
      BY <1>1, <2>1, TransactParts
  <1>5. all = Part(values, 0, 17)
    <2>1. ReadFields(data, Part(TransactSizes, 0, 17)) = Part(values, 0, 17)
      BY ReadsTransact
    <2> QED
      BY <1>4, <2>1
  <1>6. DecodeTransactData(data) =
         [discriminator |-> all[1],
          proof |-> ProofOfFields([i \in 1 .. 10 |-> all[i + 1]]),
          extData |-> [amount |-> all[12], fee |-> all[13]],
          encryptedOutput1 |-> all[15], encryptedOutput2 |-> all[17]]
    BY DEF DecodeTransactData, first, head
  <1> HIDE DEF all, data
  <1>7. /\ \A i \in 1 .. 10 : [j \in 1 .. 10 |-> all[j + 1]][i] = values[i + 1]
        /\ \A i \in 1 .. 17 : all[i] = values[i]
    <2>1. \A i \in 1 .. 17 : all[i] = values[i]
      BY <1>5 DEF Part
    <2>2. \A i \in 1 .. 10 : i + 1 \in 1 .. 17
      OBVIOUS
    <2> HIDE DEF values
    <2> QED
      BY <2>1, <2>2
  <1>8. ProofOfFields([i \in 1 .. 10 |-> all[i + 1]]) =
          [proofA |-> args.proof.proofA, proofB |-> args.proof.proofB,
           proofC |-> args.proof.proofC, root |-> args.proof.root,
           publicAmount |-> args.proof.publicAmount,
           extDataHash |-> args.proof.extDataHash,
           inputNullifiers |-> <<args.proof.inputNullifiers[1],
                                 args.proof.inputNullifiers[2]>>,
           outputCommitments |-> <<args.proof.outputCommitments[1],
                                   args.proof.outputCommitments[2]>>]
    <2> DEFINE f == [j \in 1 .. 10 |-> all[j + 1]]
    <2>1. /\ f[1] = args.proof.proofA /\ f[2] = args.proof.proofB
          /\ f[3] = args.proof.proofC /\ f[4] = args.proof.root
          /\ f[5] = args.proof.publicAmount /\ f[6] = args.proof.extDataHash
          /\ f[7] = args.proof.inputNullifiers[1] /\ f[8] = args.proof.inputNullifiers[2]
          /\ f[9] = args.proof.outputCommitments[1]
          /\ f[10] = args.proof.outputCommitments[2]
      <3> HIDE DEF f
      <3> QED
        BY <1>7 DEF TransactValues, f
    <2> HIDE DEF f
    <2>2. ProofOfFields(f) =
          [proofA |-> args.proof.proofA, proofB |-> args.proof.proofB,
           proofC |-> args.proof.proofC, root |-> args.proof.root,
           publicAmount |-> args.proof.publicAmount,
           extDataHash |-> args.proof.extDataHash,
           inputNullifiers |-> <<args.proof.inputNullifiers[1],
                                 args.proof.inputNullifiers[2]>>,
           outputCommitments |-> <<args.proof.outputCommitments[1],
                                   args.proof.outputCommitments[2]>>]
      BY <2>1 DEF ProofOfFields
    <2> QED
      BY <2>2 DEF f
  <1>9. /\ all[1] = "transact" /\ all[12] = args.extData.amount /\ all[13] = args.extData.fee
        /\ all[15] = args.encryptedOutput1 /\ all[17] = args.encryptedOutput2
    BY <1>7 DEF TransactValues
  <1> QED
    BY <1>6, <1>8, <1>9 DEF data

-------------------------------------------------------------------------------
(* Merkle trees.                                                            *)

LEMMA ZerosAre ==
  ASSUME NEW height \in Nat
  PROVE  /\ Zeros(height)[0] = MerkleZero
         /\ \A i \in 1 .. height :
              Zeros(height)[i] = Hash(Zeros(height)[i - 1], Zeros(height)[i - 1])
  <1> DEFINE Next(f, i) == IF i = 0 THEN MerkleZero
                           ELSE Hash(f[i - 1], f[i - 1])
             Body(m, f) == [i \in 0 .. m |-> Next(f, i)]
             S == {m \in Nat : \E f : f = Body(m, f)}
  <1>1. 0 \in S
    <2> DEFINE zero == Body(0, <<>>)
    <2>1. \A i \in 0 .. 0 : Next(<<>>, i) = Next(zero, i)
      OBVIOUS
    <2>2. zero = Body(0, zero)
      <3> HIDE DEF Next
      <3>1. [i \in 0 .. 0 |-> Next(<<>>, i)] = [i \in 0 .. 0 |-> Next(zero, i)]
        <4> HIDE DEF zero
        <4> QED
          BY <2>1
      <3> QED
        BY <3>1
    <2> HIDE DEF Body, zero
    <2> QED
      BY <2>2
  <1>2. ASSUME NEW m \in Nat, m \in S
        PROVE  m + 1 \in S
    <2>1. PICK f : f = Body(m, f)
      BY <1>2
    <2> DEFINE g == Body(m + 1, f)
    <2>2. \A i \in 0 .. m : f[i] = Next(f, i)
      <3> HIDE DEF Next
      <3> QED
        BY <2>1
    <2>3. \A i \in 0 .. m : g[i] = f[i]
      <3> HIDE DEF Next
      <3> QED
        BY <2>2
    <2>4. \A i \in 0 .. m + 1 : Next(f, i) = Next(g, i)
      <3> HIDE DEF g
      <3>1. \A i \in 0 .. m + 1 : i = 0 \/ i - 1 \in 0 .. m
        OBVIOUS
      <3> QED
        BY <2>3, <3>1
    <2>5. g = Body(m + 1, g)
      <3> HIDE DEF Next
      <3>1. [i \in 0 .. m + 1 |-> Next(f, i)] = [i \in 0 .. m + 1 |-> Next(g, i)]
        <4> HIDE DEF g
        <4> QED
          BY <2>4
      <3> QED
        BY <3>1
    <2> HIDE DEF Body, g
    <2> QED
      BY <2>5
  <1> HIDE DEF S
  <1>3. height \in S
    BY <1>1, <1>2, UpFromZero
  <1>4. \E f : f = Body(height, f)
    BY <1>3 DEF S
  <1> DEFINE f == CHOOSE f : f = Body(height, f)
  <1>5. f = Body(height, f)
    <2> HIDE DEF Body
    <2> QED
      BY <1>4
  <1>6. Zeros(height) = f
    BY DEF Zeros
  <1> HIDE DEF f
  <1>7. \A i \in 0 .. height : f[i] = Next(f, i)
    <2> HIDE DEF Next
    <2> QED
      BY <1>5
  <1> QED
    BY <1>6, <1>7

(* The node over the children of one level. *)
Parent(below, parent, zero) ==
  Hash(below[2 * parent - 1], NodeAt(below, 2 * parent - 1, zero))

Above(below, zero) ==
  [parent \in 1 .. ((Len(below) + 1) \div 2) |-> Parent(below, parent, zero)]

LEMMA LayersAre ==
  ASSUME NEW height \in Nat, NEW leaves
  PROVE  /\ Layers(height, leaves)[0] = leaves
         /\ \A i \in 1 .. height :
              Layers(height, leaves)[i]
                = Above(Layers(height, leaves)[i - 1], Zeros(height)[i - 1])
  <1> DEFINE Next(f, i) == IF i = 0 THEN leaves
                           ELSE Above(f[i - 1], Zeros(height)[i - 1])
             Body(m, f) == [i \in 0 .. m |-> Next(f, i)]
             S == {m \in Nat : \E f : f = Body(m, f)}
  <1>1. 0 \in S
    <2> DEFINE zero == Body(0, <<>>)
    <2>1. \A i \in 0 .. 0 : Next(<<>>, i) = Next(zero, i)
      OBVIOUS
    <2>2. zero = Body(0, zero)
      <3> HIDE DEF Next
      <3>1. [i \in 0 .. 0 |-> Next(<<>>, i)] = [i \in 0 .. 0 |-> Next(zero, i)]
        <4> HIDE DEF zero
        <4> QED
          BY <2>1
      <3> QED
        BY <3>1
    <2> HIDE DEF Body, zero
    <2> QED
      BY <2>2
  <1>2. ASSUME NEW m \in Nat, m \in S
        PROVE  m + 1 \in S
    <2>1. PICK f : f = Body(m, f)
      BY <1>2
    <2> DEFINE g == Body(m + 1, f)
    <2>2. \A i \in 0 .. m : f[i] = Next(f, i)
      <3> HIDE DEF Next
      <3> QED
        BY <2>1
    <2>3. \A i \in 0 .. m : g[i] = f[i]
      <3> HIDE DEF Next
      <3> QED
        BY <2>2
    <2>4. \A i \in 0 .. m + 1 : Next(f, i) = Next(g, i)
      <3> HIDE DEF g
      <3>1. \A i \in 0 .. m + 1 : i = 0 \/ i - 1 \in 0 .. m
        OBVIOUS
      <3> QED
        BY <2>3, <3>1
    <2>5. g = Body(m + 1, g)
      <3> HIDE DEF Next
      <3>1. [i \in 0 .. m + 1 |-> Next(f, i)] = [i \in 0 .. m + 1 |-> Next(g, i)]
        <4> HIDE DEF g
        <4> QED
          BY <2>4
      <3> QED
        BY <3>1
    <2> HIDE DEF Body, g
    <2> QED
      BY <2>5
  <1> HIDE DEF S
  <1>3. height \in S
    BY <1>1, <1>2, UpFromZero
  <1>4. \E f : f = Body(height, f)
    BY <1>3 DEF S
  <1> DEFINE f == CHOOSE f : f = Body(height, f)
  <1>5. f = Body(height, f)
    <2> HIDE DEF Body
    <2> QED
      BY <1>4
  <1>6. Layers(height, leaves) = f
    BY DEF Layers, Above, Parent
  <1> HIDE DEF f
  <1>7. \A i \in 0 .. height : f[i] = Next(f, i)
    <2> HIDE DEF Next
    <2> QED
      BY <1>5
  <1> QED
    BY <1>6, <1>7

LEMMA CapacityIsLast ==
  ASSUME NEW height \in Nat
  PROVE  \E f : /\ Capacity(height) = f[height] /\ f[0] = 1
               /\ \A i \in 1 .. height : f[i] = 2 * f[i - 1]
  <1> DEFINE Next(f, i) == IF i = 0 THEN 1 ELSE 2 * f[i - 1]
             Body(m, f) == [i \in 0 .. m |-> Next(f, i)]
             S == {m \in Nat : \E f : f = Body(m, f)}
  <1>1. 0 \in S
    <2> DEFINE zero == Body(0, <<>>)
    <2>1. \A i \in 0 .. 0 : Next(<<>>, i) = Next(zero, i)
      OBVIOUS
    <2>2. zero = Body(0, zero)
      <3> HIDE DEF Next
      <3>1. [i \in 0 .. 0 |-> Next(<<>>, i)] = [i \in 0 .. 0 |-> Next(zero, i)]
        <4> HIDE DEF zero
        <4> QED
          BY <2>1
      <3> QED
        BY <3>1
    <2> HIDE DEF Body, zero
    <2> QED
      BY <2>2
  <1>2. ASSUME NEW m \in Nat, m \in S
        PROVE  m + 1 \in S
    <2>1. PICK f : f = Body(m, f)
      BY <1>2
    <2> DEFINE g == Body(m + 1, f)
    <2>2. \A i \in 0 .. m : f[i] = Next(f, i)
      <3> HIDE DEF Next
      <3> QED
        BY <2>1
    <2>3. \A i \in 0 .. m : g[i] = f[i]
      <3> HIDE DEF Next
      <3> QED
        BY <2>2
    <2>4. \A i \in 0 .. m + 1 : Next(f, i) = Next(g, i)
      <3> HIDE DEF g
      <3>1. \A i \in 0 .. m + 1 : i = 0 \/ i - 1 \in 0 .. m
        OBVIOUS
      <3> QED
        BY <2>3, <3>1
    <2>5. g = Body(m + 1, g)
      <3> HIDE DEF Next
      <3>1. [i \in 0 .. m + 1 |-> Next(f, i)] = [i \in 0 .. m + 1 |-> Next(g, i)]
        <4> HIDE DEF g
        <4> QED
          BY <2>4
      <3> QED
        BY <3>1
    <2> HIDE DEF Body, g
    <2> QED
      BY <2>5
  <1> HIDE DEF S
  <1>3. height \in S
    BY <1>1, <1>2, UpFromZero
  <1>4. \E f : f = Body(height, f)
    BY <1>3 DEF S
  <1> DEFINE f == CHOOSE f : f = Body(height, f)
  <1>5. f = Body(height, f)
    <2> HIDE DEF Body
    <2> QED
      BY <1>4
  <1>6. Capacity(height) = f[height]
    BY DEF Capacity
  <1> HIDE DEF f
  <1>7. \A i \in 0 .. height : f[i] = Next(f, i)
    <2> HIDE DEF Next
    <2> QED
      BY <1>5
  <1> QED
    BY <1>6, <1>7

(* A tree of one level more holds twice as much. *)
LEMMA CapacityDoubles ==
  /\ Capacity(0) = 1
  /\ \A height \in Nat : /\ Capacity(height + 1) = 2 * Capacity(height)
                        /\ Capacity(height) \in Nat \ {0}
  <1>1. Capacity(0) = 1
    BY CapacityIsLast
  <1>2. ASSUME NEW height \in Nat
        PROVE  Capacity(height + 1) = 2 * Capacity(height)
    <2>1. PICK f : /\ Capacity(height) = f[height] /\ f[0] = 1
                   /\ \A i \in 1 .. height : f[i] = 2 * f[i - 1]
      BY CapacityIsLast
    <2>2. PICK g : /\ Capacity(height + 1) = g[height + 1] /\ g[0] = 1
                   /\ \A i \in 1 .. height + 1 : g[i] = 2 * g[i - 1]
      <3>1. height + 1 \in Nat
        OBVIOUS
      <3> QED
        BY <3>1, CapacityIsLast
    <2> DEFINE S == {i \in Nat : i <= height => g[i] = f[i]}
    <2>3. 0 \in S
      BY <2>1, <2>2
    <2>4. ASSUME NEW i \in Nat, i \in S
          PROVE  i + 1 \in S
      <3> SUFFICES ASSUME i + 1 <= height
                   PROVE  g[i + 1] = f[i + 1]
        OBVIOUS
      <3>1. i + 1 \in 1 .. height /\ i + 1 \in 1 .. height + 1 /\ i + 1 - 1 = i /\ i <= height
        OBVIOUS
      <3> QED
        BY <2>1, <2>2, <2>4, <3>1
    <2> HIDE DEF S
    <2>5. height \in S
      BY <2>3, <2>4, UpFromZero
    <2>6. g[height] = f[height]
      BY <2>5 DEF S
    <2>7. g[height + 1] = 2 * g[height]
      <3>1. height + 1 \in 1 .. height + 1 /\ height + 1 - 1 = height
        OBVIOUS
      <3> QED
        BY <2>2, <3>1
    <2> QED
      BY <2>1, <2>2, <2>6, <2>7
  <1> DEFINE S == {height \in Nat : Capacity(height) \in Nat \ {0}}
  <1>3. 0 \in S
    BY <1>1
  <1>4. ASSUME NEW height \in Nat, height \in S
        PROVE  height + 1 \in S
    BY <1>2, <1>4
  <1> HIDE DEF S
  <1>5. \A height \in Nat : height \in S
    BY <1>3, <1>4, UpFromZero
  <1> QED
    BY <1>1, <1>2, <1>5 DEF S

LEMMA IndexesAre ==
  ASSUME NEW height \in Nat, NEW index
  PROVE  /\ Indexes(height, index)[0] = index
         /\ \A i \in 1 .. height :
              Indexes(height, index)[i] = Indexes(height, index)[i - 1] \div 2
  <1> DEFINE Next(f, i) == IF i = 0 THEN index ELSE f[i - 1] \div 2
             Body(m, f) == [i \in 0 .. m |-> Next(f, i)]
             S == {m \in Nat : \E f : f = Body(m, f)}
  <1>1. 0 \in S
    <2> DEFINE zero == Body(0, <<>>)
    <2>1. \A i \in 0 .. 0 : Next(<<>>, i) = Next(zero, i)
      OBVIOUS
    <2>2. zero = Body(0, zero)
      <3> HIDE DEF Next
      <3>1. [i \in 0 .. 0 |-> Next(<<>>, i)] = [i \in 0 .. 0 |-> Next(zero, i)]
        <4> HIDE DEF zero
        <4> QED
          BY <2>1
      <3> QED
        BY <3>1
    <2> HIDE DEF Body, zero
    <2> QED
      BY <2>2
  <1>2. ASSUME NEW m \in Nat, m \in S
        PROVE  m + 1 \in S
    <2>1. PICK f : f = Body(m, f)
      BY <1>2
    <2> DEFINE g == Body(m + 1, f)
    <2>2. \A i \in 0 .. m : f[i] = Next(f, i)
      <3> HIDE DEF Next
      <3> QED
        BY <2>1
    <2>3. \A i \in 0 .. m : g[i] = f[i]
      <3> HIDE DEF Next
      <3> QED
        BY <2>2
    <2>4. \A i \in 0 .. m + 1 : Next(f, i) = Next(g, i)
      <3> HIDE DEF g
      <3>1. \A i \in 0 .. m + 1 : i = 0 \/ i - 1 \in 0 .. m
        OBVIOUS
      <3> QED
        BY <2>3, <3>1
    <2>5. g = Body(m + 1, g)
      <3> HIDE DEF Next
      <3>1. [i \in 0 .. m + 1 |-> Next(f, i)] = [i \in 0 .. m + 1 |-> Next(g, i)]
        <4> HIDE DEF g
        <4> QED
          BY <2>4
      <3> QED
        BY <3>1
    <2> HIDE DEF Body, g
    <2> QED
      BY <2>5
  <1> HIDE DEF S
  <1>3. height \in S
    BY <1>1, <1>2, UpFromZero
  <1>4. \E f : f = Body(height, f)
    BY <1>3 DEF S
  <1> DEFINE f == CHOOSE f : f = Body(height, f)
  <1>5. f = Body(height, f)
    <2> HIDE DEF Body
    <2> QED
      BY <1>4
  <1>6. Indexes(height, index) = f
    BY DEF Indexes
  <1> HIDE DEF f
  <1>7. \A i \in 0 .. height : f[i] = Next(f, i)
    <2> HIDE DEF Next
    <2> QED
      BY <1>5
  <1> QED
    BY <1>6, <1>7

FullNode(f, leaves, level, index) ==
  IF level = 0 THEN NodeAt(leaves, index, MerkleZero)
  ELSE Hash(f[level - 1][2 * index], f[level - 1][2 * index + 1])

FullLayer(f, height, leaves, level) ==
  [index \in 0 .. Capacity(height - level) - 1 |-> FullNode(f, leaves, level, index)]

IsFullTree(f, height, leaves) ==
  \A i \in 0 .. height : f[i] = FullLayer(f, height, leaves, i)

LEMMA FullLayerAgrees ==
  ASSUME NEW f, NEW g, NEW height, NEW leaves, NEW level, level = 0 \/ f[level - 1] = g[level - 1]
  PROVE  FullLayer(f, height, leaves, level) = FullLayer(g, height, leaves, level)
  <1>1. ASSUME NEW index
        PROVE  FullNode(f, leaves, level, index) = FullNode(g, leaves, level, index)
    BY DEF FullNode
  <1> QED
    BY <1>1 DEF FullLayer

LEMMA FullRootIsLast ==
  ASSUME NEW height \in Nat, NEW leaves
  PROVE  \E f : FullRoot(height, leaves) = f[height][0] /\ IsFullTree(f, height, leaves)
  <1> DEFINE Next(f, i) == FullLayer(f, height, leaves, i)
             Body(m, f) == [i \in 0 .. m |-> Next(f, i)]
             S == {m \in Nat : \E f : f = Body(m, f)}
  <1>1. 0 \in S
    <2> DEFINE zero == Body(0, <<>>)
    <2>1. \A i \in 0 .. 0 : Next(<<>>, i) = Next(zero, i)
      <3> HIDE DEF zero
      <3> QED
        BY FullLayerAgrees
    <2>2. zero = Body(0, zero)
      <3> HIDE DEF Next
      <3>1. [i \in 0 .. 0 |-> Next(<<>>, i)] = [i \in 0 .. 0 |-> Next(zero, i)]
        <4> HIDE DEF zero
        <4> QED
          BY <2>1
      <3> QED
        BY <3>1
    <2> HIDE DEF Body, zero
    <2> QED
      BY <2>2
  <1>2. ASSUME NEW m \in Nat, m \in S
        PROVE  m + 1 \in S
    <2>1. PICK f : f = Body(m, f)
      BY <1>2
    <2> DEFINE g == Body(m + 1, f)
    <2>2. \A i \in 0 .. m : f[i] = Next(f, i)
      <3> HIDE DEF Next
      <3> QED
        BY <2>1
    <2>3. \A i \in 0 .. m : g[i] = f[i]
      <3> HIDE DEF Next
      <3> QED
        BY <2>2
    <2>4. \A i \in 0 .. m + 1 : Next(f, i) = Next(g, i)
      <3> HIDE DEF g
      <3>1. \A i \in 0 .. m + 1 : i = 0 \/ i - 1 \in 0 .. m
        OBVIOUS
      <3> QED
        BY <2>3, <3>1, FullLayerAgrees
    <2>5. g = Body(m + 1, g)
      <3> HIDE DEF Next
      <3>1. [i \in 0 .. m + 1 |-> Next(f, i)] = [i \in 0 .. m + 1 |-> Next(g, i)]
        <4> HIDE DEF g
        <4> QED
          BY <2>4
      <3> QED
        BY <3>1
    <2> HIDE DEF Body, g
    <2> QED
      BY <2>5
  <1> HIDE DEF S
  <1>3. height \in S
    BY <1>1, <1>2, UpFromZero
  <1>4. \E f : f = Body(height, f)
    BY <1>3 DEF S
  <1> DEFINE f == CHOOSE f : f = Body(height, f)
  <1>5. f = Body(height, f)
    <2> HIDE DEF Body
    <2> QED
      BY <1>4
  <1>6. FullRoot(height, leaves) = f[height][0]
    BY DEF FullRoot, FullLayer, FullNode
  <1> HIDE DEF f
  <1>7. \A i \in 0 .. height : f[i] = Next(f, i)
    <2> HIDE DEF Next
    <2> QED
      BY <1>5
  <1> QED
    BY <1>6, <1>7 DEF IsFullTree

FoldNode(node, sibling, current) ==
  IF current % 2 = 0 THEN Hash(node, sibling) ELSE Hash(sibling, node)

IsFold(f, leaf, index, path, height) ==
  /\ Fold(leaf, index, path) = f[height] /\ f[0] = leaf
  /\ \A i \in 1 .. height :
       f[i] = FoldNode(f[i - 1], path[i], Indexes(height, index)[i - 1])

HasFold(leaf, index, path, height) == \E f : IsFold(f, leaf, index, path, height)

LEMMA FoldIsLast ==
  ASSUME NEW leaf, NEW index, NEW path, NEW height \in Nat, Len(path) = height
  PROVE  HasFold(leaf, index, path, height)
  <1> DEFINE Next(f, i) == IF i = 0 THEN leaf ELSE FoldNode(f[i - 1], path[i], Indexes(height, index)[i - 1])
             Body(m, f) == [i \in 0 .. m |-> Next(f, i)]
             S == {m \in Nat : \E f : f = Body(m, f)}
  <1>1. 0 \in S
    <2> DEFINE zero == Body(0, <<>>)
    <2>1. \A i \in 0 .. 0 : Next(<<>>, i) = Next(zero, i)
      OBVIOUS
    <2>2. zero = Body(0, zero)
      <3> HIDE DEF Next
      <3>1. [i \in 0 .. 0 |-> Next(<<>>, i)] = [i \in 0 .. 0 |-> Next(zero, i)]
        <4> HIDE DEF zero
        <4> QED
          BY <2>1
      <3> QED
        BY <3>1
    <2> HIDE DEF Body, zero
    <2> QED
      BY <2>2
  <1>2. ASSUME NEW m \in Nat, m \in S
        PROVE  m + 1 \in S
    <2>1. PICK f : f = Body(m, f)
      BY <1>2
    <2> DEFINE g == Body(m + 1, f)
    <2>2. \A i \in 0 .. m : f[i] = Next(f, i)
      <3> HIDE DEF Next
      <3> QED
        BY <2>1
    <2>3. \A i \in 0 .. m : g[i] = f[i]
      <3> HIDE DEF Next
      <3> QED
        BY <2>2
    <2>4. \A i \in 0 .. m + 1 : Next(f, i) = Next(g, i)
      <3> HIDE DEF g
      <3>1. \A i \in 0 .. m + 1 : i = 0 \/ i - 1 \in 0 .. m
        OBVIOUS
      <3> QED
        BY <2>3, <3>1
    <2>5. g = Body(m + 1, g)
      <3> HIDE DEF Next
      <3>1. [i \in 0 .. m + 1 |-> Next(f, i)] = [i \in 0 .. m + 1 |-> Next(g, i)]
        <4> HIDE DEF g
        <4> QED
          BY <2>4
      <3> QED
        BY <3>1
    <2> HIDE DEF Body, g
    <2> QED
      BY <2>5
  <1> HIDE DEF S
  <1>3. height \in S
    BY <1>1, <1>2, UpFromZero
  <1>4. \E f : f = Body(height, f)
    BY <1>3 DEF S
  <1> DEFINE f == CHOOSE f : f = Body(height, f)
  <1>5. f = Body(height, f)
    <2> HIDE DEF Body
    <2> QED
      BY <1>4
  <1>6. Fold(leaf, index, path) = f[height]
    BY DEF Fold, FoldNode
  <1> HIDE DEF f
  <1>7. \A i \in 0 .. height : f[i] = Next(f, i)
    <2> HIDE DEF Next
    <2> QED
      BY <1>5
  <1> QED
    BY <1>6, <1>7 DEF HasFold, IsFold

(* Two nodes of a layer and the node over them, in the layer or right of it. *)
LEMMA ParentIs ==
  ASSUME NEW below, NEW zero, NEW size \in Nat, Len(below) = size, NEW index \in Nat
  PROVE  /\ NodeAt(Above(below, zero), index, Hash(zero, zero))
              = Hash(NodeAt(below, 2 * index, zero), NodeAt(below, 2 * index + 1, zero))
         /\ Len(Above(below, zero)) = (size + 1) \div 2
  <1> DEFINE half == (size + 1) \div 2
             above == Above(below, zero)
  <1>1. half \in Nat /\ (index < half <=> 2 * index < size)
    OBVIOUS
  <1>2. Len(above) = half /\ \A parent \in 1 .. half : above[parent] = Parent(below, parent, zero)
    BY <1>1 DEF Above
  <1> HIDE DEF half, above
  <1>3. CASE 2 * index < size
    <2>1. index + 1 \in 1 .. half /\ 2 * (index + 1) - 1 = 2 * index + 1
      BY <1>1, <1>3
    <2>2. NodeAt(above, index, Hash(zero, zero)) = Parent(below, index + 1, zero)
      BY <1>1, <1>2, <1>3, <2>1 DEF NodeAt
    <2>3. Parent(below, index + 1, zero)
            = Hash(below[2 * index + 1], NodeAt(below, 2 * index + 1, zero))
      BY <2>1 DEF Parent
    <2>4. NodeAt(below, 2 * index, zero) = below[2 * index + 1]
      BY <1>3 DEF NodeAt
    <2> QED
      BY <1>2, <2>2, <2>3, <2>4 DEF above, half
  <1>4. CASE ~(2 * index < size)
    <2>1. ~(2 * index + 1 < size)
      BY <1>4
    <2>2. NodeAt(above, index, Hash(zero, zero)) = Hash(zero, zero)
      BY <1>1, <1>2, <1>4 DEF NodeAt
    <2>3. /\ NodeAt(below, 2 * index, zero) = zero
          /\ NodeAt(below, 2 * index + 1, zero) = zero
      BY <1>4, <2>1 DEF NodeAt
    <2> QED
      BY <1>2, <2>2, <2>3 DEF above, half
  <1> QED
    BY <1>3, <1>4

(* The node of the tree at an index of a level. *)
TreeNode(height, leaves, level, index) ==
  NodeAt(Layers(height, leaves)[level], index, Zeros(height)[level])

LEMMA TreeNodes ==
  ASSUME NEW height \in Nat, NEW leaves, Len(leaves) \in Nat
  PROVE  \A level \in 0 .. height - 1 : \A index \in Nat :
           TreeNode(height, leaves, level + 1, index)
             = Hash(TreeNode(height, leaves, level, 2 * index),
                    TreeNode(height, leaves, level, 2 * index + 1))
  <1> DEFINE layers == Layers(height, leaves)
             zeros == Zeros(height)
             S == {level \in Nat : level <= height => Len(layers[level]) \in Nat}
  <1>1. layers[0] = leaves /\ \A i \in 1 .. height : layers[i] = Above(layers[i - 1], zeros[i - 1])
    BY LayersAre
  <1>2. \A i \in 1 .. height : zeros[i] = Hash(zeros[i - 1], zeros[i - 1])
    BY ZerosAre
  <1> HIDE DEF layers, zeros
  <1>3. 0 \in S
    BY <1>1
  <1>4. ASSUME NEW level \in Nat, level \in S
        PROVE  level + 1 \in S
    <2> SUFFICES ASSUME level + 1 <= height
                 PROVE  Len(layers[level + 1]) \in Nat
      OBVIOUS
    <2>1. /\ level <= height /\ Len(layers[level]) \in Nat
          /\ layers[level + 1] = Above(layers[level], zeros[level])
      <3>1. level + 1 \in 1 .. height /\ level + 1 - 1 = level /\ level <= height
        OBVIOUS
      <3> QED
        BY <1>1, <1>4, <3>1
    <2>2. 0 \in Nat
      OBVIOUS
    <2>3. Len(layers[level + 1]) = (Len(layers[level]) + 1) \div 2
      BY <2>1, <2>2, ParentIs
    <2> DEFINE size == Len(layers[level])
    <2>4. size \in Nat
      BY <2>1
    <2> HIDE DEF size
    <2>5. (size + 1) \div 2 \in Nat
      BY <2>4
    <2> QED
      BY <2>3, <2>5 DEF size
  <1> HIDE DEF S
  <1>5. \A level \in Nat : level \in S
    BY <1>3, <1>4, UpFromZero
  <1> SUFFICES ASSUME NEW level \in 0 .. height - 1, NEW index \in Nat
               PROVE  TreeNode(height, leaves, level + 1, index)
                        = Hash(TreeNode(height, leaves, level, 2 * index),
                               TreeNode(height, leaves, level, 2 * index + 1))
    OBVIOUS
  <1>6. level + 1 \in 1 .. height /\ level + 1 - 1 = level /\ level \in Nat /\ level <= height
    OBVIOUS
  <1>7. Len(layers[level]) \in Nat
    BY <1>5, <1>6 DEF S
  <1>8. /\ layers[level + 1] = Above(layers[level], zeros[level])
        /\ zeros[level + 1] = Hash(zeros[level], zeros[level])
    BY <1>1, <1>2, <1>6
  <1>9. NodeAt(layers[level + 1], index, zeros[level + 1])
          = Hash(NodeAt(layers[level], 2 * index, zeros[level]),
                 NodeAt(layers[level], 2 * index + 1, zeros[level]))
    BY <1>7, <1>8, ParentIs
  <1> QED
    BY <1>9 DEF TreeNode, layers, zeros

(* The root the backend computes from the leaves there are is the root of   *)
(* the full tree (MerkleTree.rebuild and root), for every height and any    *)
(* number of leaves.                                                        *)
THEOREM RootsAgree ==
  ASSUME NEW height \in Nat, NEW leaves, Len(leaves) \in Nat
  PROVE  Root(height, leaves) = FullRoot(height, leaves)
  <1>1. PICK f : FullRoot(height, leaves) = f[height][0] /\ IsFullTree(f, height, leaves)
    BY FullRootIsLast
  <1> DEFINE Node(level, index) == TreeNode(height, leaves, level, index)
             S == {level \in Nat : level <= height =>
                     \A index \in 0 .. Capacity(height - level) - 1 :
                       f[level][index] = Node(level, index)}
  <1>2. /\ \A index : Node(0, index) = NodeAt(leaves, index, MerkleZero)
        /\ \A level \in 0 .. height - 1 : \A index \in Nat :
             Node(level + 1, index) = Hash(Node(level, 2 * index), Node(level, 2 * index + 1))
        /\ Node(height, 0) = Root(height, leaves)
    <2>1. \A index : Node(0, index) = NodeAt(leaves, index, MerkleZero)
      BY ZerosAre, LayersAre DEF TreeNode
    <2>2. \A level \in 0 .. height - 1 : \A index \in Nat :
            Node(level + 1, index) = Hash(Node(level, 2 * index), Node(level, 2 * index + 1))
      BY TreeNodes
    <2>3. Node(height, 0) = Root(height, leaves)
      BY DEF TreeNode, Root
    <2> QED
      BY <2>1, <2>2, <2>3
  <1> HIDE DEF Node
  <1>3. 0 \in S
    <2>1. f[0] = FullLayer(f, height, leaves, 0)
      BY <1>1 DEF IsFullTree
    <2>2. \A index \in 0 .. Capacity(height - 0) - 1 : f[0][index] = NodeAt(leaves, index, MerkleZero)
      BY <2>1 DEF FullLayer, FullNode
    <2> QED
      BY <1>2, <2>2
  <1>4. ASSUME NEW level \in Nat, level \in S
        PROVE  level + 1 \in S
    <2> SUFFICES ASSUME level + 1 <= height,
                        NEW index \in 0 .. Capacity(height - (level + 1)) - 1
                 PROVE  f[level + 1][index] = Node(level + 1, index)
      OBVIOUS
    <2>1. /\ height - (level + 1) \in Nat /\ height - level = (height - (level + 1)) + 1
          /\ level \in 0 .. height - 1 /\ level + 1 - 1 = level /\ level + 1 # 0
          /\ level + 1 \in 0 .. height /\ level <= height
      OBVIOUS
    <2>2. /\ Capacity(height - level) = 2 * Capacity(height - (level + 1))
          /\ Capacity(height - (level + 1)) \in Nat \ {0}
      BY <2>1, CapacityDoubles
    <2>3. /\ index \in Nat
          /\ 2 * index \in 0 .. Capacity(height - level) - 1
          /\ 2 * index + 1 \in 0 .. Capacity(height - level) - 1
      BY <2>2
    <2>4. f[level + 1] = FullLayer(f, height, leaves, level + 1)
      BY <1>1, <2>1 DEF IsFullTree
    <2>5. f[level + 1][index] = FullNode(f, leaves, level + 1, index)
      BY <2>4 DEF FullLayer
    <2>6. FullNode(f, leaves, level + 1, index)
            = Hash(f[level][2 * index], f[level][2 * index + 1])
      BY <2>1 DEF FullNode
    <2>7. /\ f[level][2 * index] = Node(level, 2 * index)
          /\ f[level][2 * index + 1] = Node(level, 2 * index + 1)
      BY <1>4, <2>1, <2>3
    <2> QED
      BY <1>2, <2>1, <2>3, <2>5, <2>6, <2>7
  <1> HIDE DEF S
  <1>5. height \in S
    BY <1>3, <1>4, UpFromZero
  <1>6. 0 \in 0 .. Capacity(height - height) - 1
    <2>1. height - height = 0
      OBVIOUS
    <2> QED
      BY <2>1, CapacityDoubles
  <1>7. f[height][0] = Node(height, 0)
    BY <1>5, <1>6 DEF S
  <1> QED
    BY <1>1, <1>2, <1>7

(* The path of every leaf leads to the root (MerkleTree.path), by what the  *)
(* circuit computes from it.                                                *)
THEOREM PathsLeadToTheRoot ==
  ASSUME NEW height \in Nat, NEW leaves, Len(leaves) \in Nat,
         NEW index \in Nat, index < Capacity(height), index < Len(leaves)
  PROVE  Fold(leaves[index + 1], index, Path(height, leaves, index)) = Root(height, leaves)
  <1> DEFINE path == Path(height, leaves, index)
             current == Indexes(height, index)
             Node(level, i) == TreeNode(height, leaves, level, i)
  <1>1. /\ current[0] = index
        /\ \A i \in 1 .. height : current[i] = current[i - 1] \div 2
    BY IndexesAre
  <1>2. Len(path) = height
        /\ \A i \in 1 .. height : path[i] = Node(i - 1, Sibling(current[i - 1]))
    BY DEF Path, TreeNode
  <1> HIDE DEF path
  <1>3. PICK f : /\ Fold(leaves[index + 1], index, path) = f[height]
                 /\ f[0] = leaves[index + 1]
                 /\ \A i \in 1 .. height : f[i] = FoldNode(f[i - 1], path[i], current[i - 1])
    <2>1. HasFold(leaves[index + 1], index, path, height)
      BY <1>2, FoldIsLast
    <2> QED
      BY <2>1 DEF HasFold, IsFold
  <1>4. /\ Node(0, index) = leaves[index + 1]
        /\ \A level \in 0 .. height - 1 : \A i \in Nat :
             Node(level + 1, i) = Hash(Node(level, 2 * i), Node(level, 2 * i + 1))
        /\ Node(height, 0) = Root(height, leaves)
    <2>1. Node(0, index) = NodeAt(leaves, index, MerkleZero)
      BY ZerosAre, LayersAre DEF TreeNode
    <2>2. NodeAt(leaves, index, MerkleZero) = leaves[index + 1]
      BY DEF NodeAt
    <2>3. \A level \in 0 .. height - 1 : \A i \in Nat :
            Node(level + 1, i) = Hash(Node(level, 2 * i), Node(level, 2 * i + 1))
      BY TreeNodes
    <2>4. Node(height, 0) = Root(height, leaves)
      BY DEF TreeNode, Root
    <2> QED
      BY <2>1, <2>2, <2>3, <2>4
  <1> HIDE DEF Node, current
  <1> DEFINE S == {level \in Nat : level <= height =>
                     /\ current[level] \in 0 .. Capacity(height - level) - 1
                     /\ f[level] = Node(level, current[level])}
  <1>5. 0 \in S
    <2>1. height - 0 = height /\ Capacity(height) \in Nat
      BY CapacityDoubles
    <2> QED
      BY <1>1, <1>3, <1>4, <2>1
  <1>6. ASSUME NEW level \in Nat, level \in S
        PROVE  level + 1 \in S
    <2> SUFFICES ASSUME level + 1 <= height
                 PROVE  /\ current[level + 1] \in 0 .. Capacity(height - (level + 1)) - 1
                        /\ f[level + 1] = Node(level + 1, current[level + 1])
      OBVIOUS
    <2>1. /\ height - (level + 1) \in Nat /\ height - level = (height - (level + 1)) + 1
          /\ level \in 0 .. height - 1 /\ level + 1 - 1 = level
          /\ level + 1 \in 1 .. height /\ level <= height
      OBVIOUS
    <2>2. /\ Capacity(height - level) = 2 * Capacity(height - (level + 1))
          /\ Capacity(height - (level + 1)) \in Nat \ {0}
      BY <2>1, CapacityDoubles
    <2> DEFINE now == current[level]
               half == now \div 2
    <2>3. now \in 0 .. Capacity(height - level) - 1 /\ f[level] = Node(level, now)
      BY <1>6, <2>1
    <2>4. current[level + 1] = half
      BY <1>1, <2>1
    <2> HIDE DEF now
    <2>5. half \in Nat /\ half \in 0 .. Capacity(height - (level + 1)) - 1
          /\ now \in Nat
      BY <2>2, <2>3
    <2>6. path[level + 1] = Node(level, Sibling(now))
      BY <1>2, <2>1 DEF now
    <2>7. f[level + 1] = FoldNode(f[level], path[level + 1], now)
      BY <1>3, <2>1 DEF now
    <2>8. Node(level + 1, half) = Hash(Node(level, 2 * half), Node(level, 2 * half + 1))
      BY <1>4, <2>1, <2>5
    <2>9. CASE now % 2 = 0
      <3>1. 2 * half = now /\ Sibling(now) = 2 * half + 1
        BY <2>5, <2>9 DEF Sibling
      <3>2. f[level + 1] = Hash(f[level], path[level + 1])
        BY <2>7, <2>9 DEF FoldNode
      <3> QED
        BY <2>3, <2>4, <2>5, <2>6, <2>8, <3>1, <3>2
    <2>10. CASE now % 2 # 0
      <3>1. 2 * half + 1 = now /\ Sibling(now) = 2 * half
        BY <2>5, <2>10 DEF Sibling
      <3>2. f[level + 1] = Hash(path[level + 1], f[level])
        BY <2>7, <2>10 DEF FoldNode
      <3> QED
        BY <2>3, <2>4, <2>5, <2>6, <2>8, <3>1, <3>2
    <2> QED
      BY <2>9, <2>10
  <1> HIDE DEF S
  <1>7. height \in S
    BY <1>5, <1>6, UpFromZero
  <1>8. height - height = 0 /\ height <= height
    OBVIOUS
  <1>9. current[height] \in 0 .. Capacity(0) - 1 /\ f[height] = Node(height, current[height])
    BY <1>7, <1>8 DEF S
  <1>10. current[height] = 0
    <2>1. Capacity(0) = 1
      BY CapacityDoubles
    <2>2. current[height] \in 0 .. 1 - 1
      BY <1>9, <2>1
    <2> QED
      BY <2>2
  <1> QED
    BY <1>3, <1>4, <1>9, <1>10 DEF path

===============================================================================
