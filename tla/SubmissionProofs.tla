-------------------------- MODULE SubmissionProofs --------------------------
(***************************************************************************)
(* Theorems about sending, for every set of operations and calls, every    *)
(* sharing of notes, every lifetime of a blockhash and every height.       *)
(***************************************************************************)
EXTENDS Submission, TLAPS

USE DEF Answers, Looping, Places, Caches, Transactions, Entries, TxOf, Tx

\* What the ledger needs: it holds what was sent, what was sent was asked for, no
\* two payments conflict, and a processed transaction is still valid.
ChainInv ==
  /\ \A tx \in sent : \E c \in Calls : op[c] = tx.op
  /\ \A e \in ledger \union block : e.tx \in sent
  /\ \A e, f \in ledger \union block :
       e.ok /\ f.ok /\ e.tx # f.tx => ~Conflict(e.tx.op, f.tx.op)
  /\ \A e \in block : height < e.tx.expires

\* What the answers need: a call with a place or an answer was made, and a call told
\* of a receipt or of an expiry has ended, the expiry being in the past.
CallInv ==
  \A c \in Calls :
    /\ pc[c] # "idle" \/ answer[c] # "none" => op[c] \in Operations
    /\ answer[c] \in {"receipt", "expired"} => pc[c] = "idle"
    /\ answer[c] = "expired" => height > expires[c]

SubmissionInv == TypeOK /\ ChainInv /\ CallInv /\ ReceiptIsTrue

-----------------------------------------------------------------------------
(* Facts about the operators.                                              *)

LEMMA ConflictIsSymmetric ==
  ASSUME NEW o, NEW p, Conflict(o, p)  PROVE Conflict(p, o)
<1>1. {o, p} = {p, o}
  OBVIOUS
<1>. QED  BY <1>1 DEF Conflict

LEMMA NoneIsNoOperation == \A o \in Operations : o # None
BY NoneAssumption

-----------------------------------------------------------------------------
(* Initial states and types.                                               *)

LEMMA InitHolds == Init => SubmissionInv
BY HeightAssumption
   DEF Init, SubmissionInv, TypeOK, ChainInv, CallInv, ReceiptIsTrue

LEMMA HeightIsNat == /\ MaxHeight \in Nat /\ Lifetime \in Nat /\ Lifetime > 0
                     /\ \A h \in 0..MaxHeight : h + Lifetime \in 0..(MaxHeight + Lifetime)
BY HeightAssumption

LEMMA TypeIsKept == TypeOK /\ CallInv /\ [Next]_vars => TypeOK'
<1>. SUFFICES ASSUME TypeOK, CallInv, [Next]_vars  PROVE TypeOK'
  OBVIOUS
<1>. USE HeightIsNat DEF TypeOK
<1>1. ASSUME NEW tx \in sent, Land(tx)  PROVE TypeOK'
  <2>1. Spendable(tx.op, ledger \union block) \in BOOLEAN
    BY Zenon DEF Spendable
  <2>2. [tx |-> tx, ok |-> Spendable(tx.op, ledger \union block)] \in Entries
    BY <2>1
  <2>. QED  BY <1>1, <2>2 DEF Land, cacheVars
<1>2. CASE NextBlock
  BY <1>2 DEF NextBlock, cacheVars
<1>3. ASSUME NEW o \in Operations, PrepareMessage(o)  PROVE TypeOK'
  BY <1>3 DEF PrepareMessage, cacheVars, chainVars
<1>4. ASSUME NEW c \in Calls, NEW o \in Operations,
             BeginRelayed(c, o) \/ BeginSigned(c, o)
      PROVE  TypeOK'
  BY <1>4 DEF BeginRelayed, BeginSigned, Begin, FirstPlace, cacheVars, chainVars
<1>5. ASSUME NEW c \in Calls, Advance(c) \/ Sign(c) \/ Deadline(c) \/ GiveUp(c)
      PROVE  TypeOK'
  <2>. USE DEF GoTo, End, Told, cacheVars, chainVars
  <2>1. CASE GetSigner(c)
    BY <2>1 DEF GetSigner, Cached, Load
  <2>2. CASE BuildSignedTransaction(c)
    BY <2>2 DEF BuildSignedTransaction
  <2>3. CASE CompressMessage(c)
    <3>1. op[c] \in Operations
      BY <2>3 DEF CompressMessage, CallInv
    <3>. QED  BY <2>3, <3>1 DEF CompressMessage, Cached, Load
  <2>4. CASE SimulateFirst(c)
    BY <2>4 DEF SimulateFirst, FirstPlace
  <2>5. CASE SimulateAgain(c)
    BY <2>5 DEF SimulateAgain
  <2>6. CASE SendRelayed(c) \/ SendSigned(c)
    <3>1. TxOf(c) \in Transactions
      BY <2>6 DEF SendRelayed, SendSigned, Send, CallInv
    <3>. QED  BY <2>6, <3>1 DEF SendRelayed, SendSigned, Send
  <2>7. CASE ReadStatus(c)
    BY <2>7 DEF ReadStatus
  <2>8. CASE ReadHeightRelayed(c) \/ ReadHeightSigned(c)
    BY <2>8 DEF ReadHeightRelayed, ReadHeightSigned
  <2>9. CASE Wake(c) \/ Reject(c) \/ Sign(c) \/ Deadline(c) \/ GiveUp(c)
    BY <2>9 DEF Wake, Reject, Sign, Deadline, GiveUp
  <2>. QED  BY <1>5, <2>1, <2>2, <2>3, <2>4, <2>5, <2>6, <2>7, <2>8, <2>9 DEF Advance
<1>6. CASE RelayerRestart \/ Reload
  BY <1>6 DEF RelayerRestart, Reload, Ends, chainVars
<1>7. CASE UNCHANGED vars
  BY <1>7 DEF vars, cacheVars, chainVars
<1>. QED  BY <1>1, <1>2, <1>3, <1>4, <1>5, <1>6, <1>7 DEF Next

-----------------------------------------------------------------------------
(* The chain.                                                              *)

\* Outside a send, a new request and the chain's own steps, nothing that ChainInv
\* reads changes.
LEMMA QuietSteps ==
  ASSUME TypeOK, ChainInv, UNCHANGED <<height, sent, block, ledger, op>>
  PROVE  ChainInv'
BY DEF ChainInv, Conflict

LEMMA ChainIsKept == TypeOK /\ CallInv /\ ChainInv /\ [Next]_vars => ChainInv'
<1>. SUFFICES ASSUME TypeOK, CallInv, ChainInv, [Next]_vars  PROVE ChainInv'
  OBVIOUS
<1>1. ASSUME NEW tx \in sent, Land(tx)  PROVE ChainInv'
  <2>. DEFINE new == [tx |-> tx, ok |-> Spendable(tx.op, ledger \union block)]
  <2>1. /\ ledger' \union block' = (ledger \union block) \union {new}
        /\ block' = block \union {new}
        /\ UNCHANGED <<height, sent, op>> /\ height < tx.expires
    BY <1>1 DEF Land
  <2>2. ASSUME NEW e \in ledger \union block, e.ok, new.ok
        PROVE  ~Conflict(tx.op, e.tx.op) /\ ~Conflict(e.tx.op, tx.op)
    BY <2>2, ConflictIsSymmetric DEF Spendable, Paid
  <2>3. \A e, f \in (ledger \union block) \union {new} :
           e.ok /\ f.ok /\ e.tx # f.tx => ~Conflict(e.tx.op, f.tx.op)
    <3>. SUFFICES ASSUME NEW e \in (ledger \union block) \union {new},
                         NEW f \in (ledger \union block) \union {new},
                         e.ok, f.ok, e.tx # f.tx
                  PROVE  ~Conflict(e.tx.op, f.tx.op)
      OBVIOUS
    <3>1. new.tx = tx
      OBVIOUS
    <3>. HIDE DEF new
    <3>2. CASE e \in ledger \union block /\ f \in ledger \union block
      BY <3>2 DEF ChainInv
    <3>3. CASE e = new /\ f \in ledger \union block
      BY <3>1, <3>3, <2>2
    <3>4. CASE f = new /\ e \in ledger \union block
      BY <3>1, <3>4, <2>2
    <3>. QED  BY <3>2, <3>3, <3>4
  <2>4. new.tx = tx
    OBVIOUS
  <2>. HIDE DEF new
  <2>5. /\ \A e \in ledger' \union block' : e.tx \in sent'
        /\ \A e \in block' : height' < e.tx.expires
        /\ \A ux \in sent' : \E c \in Calls : op'[c] = ux.op
    BY <2>1, <2>4 DEF ChainInv
  <2>. QED  BY <2>1, <2>3, <2>5 DEF ChainInv, Conflict
<1>2. CASE NextBlock
  <2>1. /\ ledger' \subseteq ledger \union block /\ block' = {}
        /\ UNCHANGED <<sent, op>>
    BY <1>2 DEF NextBlock
  <2>. QED  BY <2>1 DEF ChainInv, Conflict
<1>3. ASSUME NEW o \in Operations, PrepareMessage(o)  PROVE ChainInv'
  BY <1>3, QuietSteps DEF PrepareMessage, chainVars
<1>4. ASSUME NEW c \in Calls, NEW o \in Operations,
             BeginRelayed(c, o) \/ BeginSigned(c, o)
      PROVE  ChainInv'
  <2>1. op[c] = None /\ op' = [op EXCEPT ![c] = o] /\ UNCHANGED <<height, sent, block, ledger>>
    BY <1>4 DEF BeginRelayed, BeginSigned, Begin, chainVars
  <2>2. ASSUME NEW tx \in sent  PROVE \E d \in Calls : op'[d] = tx.op
    <3>1. PICK d \in Calls : op[d] = tx.op
      BY DEF ChainInv
    <3>2. tx.op \in Operations
      BY DEF TypeOK
    <3>. QED  BY <2>1, <3>1, <3>2, NoneIsNoOperation DEF TypeOK
  <2>. QED  BY <2>1, <2>2 DEF ChainInv, Conflict
<1>5. ASSUME NEW c \in Calls, Advance(c) \/ Sign(c) \/ Deadline(c) \/ GiveUp(c)
      PROVE  ChainInv'
  <2>1. CASE SendRelayed(c) \/ SendSigned(c)
    <3>1. /\ sent' = sent \/ sent' = sent \union {TxOf(c)}
          /\ UNCHANGED <<height, block, ledger, op>>
      BY <2>1 DEF SendRelayed, SendSigned, Send
    <3>. QED  BY <3>1 DEF ChainInv, Conflict
  <2>2. CASE ~(SendRelayed(c) \/ SendSigned(c))
    BY <1>5, <2>2, QuietSteps
       DEF Advance, GetSigner, BuildSignedTransaction, CompressMessage, SimulateFirst,
           SimulateAgain, ReadStatus, ReadHeightRelayed, ReadHeightSigned, Wake, Reject,
           Sign, Deadline, GiveUp, chainVars
  <2>. QED  BY <2>1, <2>2
<1>6. CASE RelayerRestart \/ Reload
  BY <1>6, QuietSteps DEF RelayerRestart, Reload, chainVars
<1>7. CASE UNCHANGED vars
  BY <1>7, QuietSteps DEF vars, chainVars
<1>. QED  BY <1>1, <1>2, <1>3, <1>4, <1>5, <1>6, <1>7 DEF Next

-----------------------------------------------------------------------------
(* The calls.                                                              *)

LEMMA CallsAreKept == TypeOK /\ CallInv /\ [Next]_vars => CallInv'
<1>. SUFFICES ASSUME TypeOK, CallInv, [Next]_vars  PROVE CallInv'
  OBVIOUS
<1>. USE DEF TypeOK, CallInv
<1>1. ASSUME NEW tx \in sent, Land(tx)  PROVE CallInv'
  BY <1>1 DEF Land
<1>2. CASE NextBlock
  BY <1>2 DEF NextBlock
<1>3. ASSUME NEW o \in Operations, PrepareMessage(o)  PROVE CallInv'
  BY <1>3 DEF PrepareMessage, chainVars
<1>4. ASSUME NEW c \in Calls, NEW o \in Operations,
             BeginRelayed(c, o) \/ BeginSigned(c, o)
      PROVE  CallInv'
  BY <1>4, NoneIsNoOperation DEF BeginRelayed, BeginSigned, Begin, chainVars
<1>5. ASSUME NEW c \in Calls, Advance(c) \/ Sign(c) \/ Deadline(c) \/ GiveUp(c)
      PROVE  CallInv'
  <2>. USE DEF GoTo, End, Told, chainVars
  <2>1. CASE GetSigner(c) \/ BuildSignedTransaction(c)
    BY <2>1 DEF GetSigner, BuildSignedTransaction
  <2>2. CASE CompressMessage(c)
    BY <2>2 DEF CompressMessage
  <2>3. CASE SimulateFirst(c) \/ SimulateAgain(c)
    BY <2>3 DEF SimulateFirst, SimulateAgain, FirstPlace
  <2>4. CASE SendRelayed(c) \/ SendSigned(c)
    BY <2>4 DEF SendRelayed, SendSigned, Send
  <2>5. CASE ReadStatus(c)
    BY <2>5 DEF ReadStatus
  <2>6. CASE ReadHeightRelayed(c) \/ ReadHeightSigned(c)
    BY <2>6 DEF ReadHeightRelayed, ReadHeightSigned, Expired
  <2>7. CASE Wake(c) \/ Reject(c) \/ Sign(c) \/ Deadline(c)
    BY <2>7 DEF Wake, Reject, Sign, Deadline
  <2>8. CASE GiveUp(c)
    BY <2>8, OperationsAssumption DEF GiveUp
  <2>. QED  BY <1>5, <2>1, <2>2, <2>3, <2>4, <2>5, <2>6, <2>7, <2>8 DEF Advance
<1>6. CASE RelayerRestart \/ Reload
  BY <1>6, OperationsAssumption DEF RelayerRestart, Reload, Ends, chainVars
<1>7. CASE UNCHANGED vars
  BY <1>7 DEF vars, chainVars
<1>. QED  BY <1>1, <1>2, <1>3, <1>4, <1>5, <1>6, <1>7 DEF Next

-----------------------------------------------------------------------------
(* What the answers say of the ledger.                                     *)

LEMMA ConfirmedIsPaid ==
  ASSUME TypeOK, NEW c \in Calls, ~(\E e \in Entry(c) : ~e.ok), Confirmed(Entry(c)) # {}
  PROVE  [tx |-> TxOf(c), ok |-> TRUE] \in ledger
<1>1. PICK e \in ledger : e \in Entry(c)
  BY DEF Confirmed
<1>2. e \in Entries /\ e.ok = TRUE /\ e.tx = TxOf(c)
  BY <1>1 DEF Entry, TypeOK
<1>3. e = [tx |-> TxOf(c), ok |-> TRUE]
  BY <1>2
<1>. QED  BY <1>1, <1>3

\* The ledger only grows, and the transaction of a call with a receipt is fixed.
LEMMA ReceiptsAreKept == TypeOK /\ CallInv /\ ReceiptIsTrue /\ [Next]_vars => ReceiptIsTrue'
<1>. SUFFICES ASSUME TypeOK, CallInv, ReceiptIsTrue, [Next]_vars, NEW d \in Calls,
                     answer'[d] = "receipt"
              PROVE  [tx |-> TxOf(d)', ok |-> TRUE] \in ledger'
  BY DEF ReceiptIsTrue
<1>. USE DEF TypeOK, CallInv
<1>1. ledger \subseteq ledger'
  BY DEF Next, Land, NextBlock, PrepareMessage, BeginRelayed, BeginSigned, Begin, Advance,
         GetSigner, BuildSignedTransaction, CompressMessage, SimulateFirst,
         SimulateAgain, SendRelayed, SendSigned, Send, ReadStatus, ReadHeightRelayed,
         ReadHeightSigned, Wake, Reject, Sign, Deadline, GiveUp, RelayerRestart, Reload,
         chainVars, vars
<1>2. CASE answer[d] = "receipt" /\ UNCHANGED <<op[d], expires[d]>>
  BY <1>1, <1>2 DEF ReceiptIsTrue
<1>3. ASSUME NEW tx \in sent, Land(tx)  PROVE answer[d] = "receipt" /\ UNCHANGED <<op[d], expires[d]>>
  BY <1>3 DEF Land
<1>4. CASE NextBlock
  BY <1>2, <1>4 DEF NextBlock
<1>5. ASSUME NEW o \in Operations, PrepareMessage(o)
      PROVE  answer[d] = "receipt" /\ UNCHANGED <<op[d], expires[d]>>
  BY <1>5 DEF PrepareMessage
<1>6. ASSUME NEW c \in Calls, NEW o \in Operations,
             BeginRelayed(c, o) \/ BeginSigned(c, o)
      PROVE  answer[d] = "receipt" /\ UNCHANGED <<op[d], expires[d]>>
  BY <1>6, NoneIsNoOperation DEF BeginRelayed, BeginSigned, Begin
<1>7. ASSUME NEW c \in Calls, Advance(c) \/ Sign(c) \/ Deadline(c) \/ GiveUp(c)
      PROVE  \/ answer[d] = "receipt" /\ UNCHANGED <<op[d], expires[d]>>
             \/ /\ UNCHANGED <<op, expires>>
                /\ [tx |-> TxOf(d), ok |-> TRUE] \in ledger
  <2>. USE DEF GoTo, End, Told
  <2>1. CASE ReadStatus(c)
    <3>1. UNCHANGED <<op, expires>>
      BY <2>1 DEF ReadStatus
    <3>2. CASE answer[d] = "receipt"
      BY <3>1, <3>2
    <3>3. CASE answer[d] # "receipt"
      <4>1. /\ c = d /\ ~(\E e \in Entry(c) : ~e.ok) /\ Confirmed(Entry(c)) # {}
        BY <2>1, <3>3 DEF ReadStatus
      <4>. QED  BY <3>1, <4>1, ConfirmedIsPaid
    <3>. QED  BY <3>2, <3>3
  <2>2. CASE ~ReadStatus(c)
    BY <1>7, <2>2
       DEF Advance, GetSigner, BuildSignedTransaction, CompressMessage, SimulateFirst,
           SimulateAgain, SendRelayed, SendSigned, Send, ReadHeightRelayed,
           ReadHeightSigned, Wake, Reject, Sign, Deadline, GiveUp
  <2>. QED  BY <2>1, <2>2
<1>8. CASE RelayerRestart \/ Reload
  <2>1. answer[d] = "receipt" /\ UNCHANGED <<op[d], expires[d]>>
    BY <1>8 DEF RelayerRestart, Reload, Ends
  <2>. QED  BY <1>2, <2>1
<1>9. CASE UNCHANGED vars
  BY <1>2, <1>9 DEF vars
<1>. QED  BY <1>1, <1>2, <1>3, <1>4, <1>5, <1>6, <1>7, <1>8, <1>9 DEF Next

\* The invariant that the theorems rest on.
THEOREM SubmissionInvHolds == Spec => []SubmissionInv
<1>1. SubmissionInv /\ [Next]_vars => SubmissionInv'
  BY TypeIsKept, ChainIsKept, CallsAreKept, ReceiptsAreKept DEF SubmissionInv
<1>. QED  BY <1>1, InitHolds, PTL DEF Spec

\* Every variable keeps its type; in particular no call waits on a blockhash beyond the
\* height at which the chain could have produced it.
THEOREM TypesHold == Spec => []TypeOK
<1>1. SubmissionInv => TypeOK
  BY DEF SubmissionInv
<1>. QED  BY <1>1, SubmissionInvHolds, PTL

\* A receipt is a payment: waitForConfirmation and confirmSignature return only for a
\* transaction that the confirmed ledger holds, and it stays there.
THEOREM ReceiptsAreTrue == Spec => []ReceiptIsTrue
<1>1. SubmissionInv => ReceiptIsTrue
  BY DEF SubmissionInv
<1>. QED  BY <1>1, SubmissionInvHolds, PTL

-----------------------------------------------------------------------------
(* An expired call and the blocks to come.                                 *)

LEMMA ExpiryStep ==
  ASSUME SubmissionInv, [Next]_vars
  PROVE  \A c \in Calls : answer[c] = "expired" =>
           \A e \in ledger' \ ledger : e.tx # TxOf(c)
<1>1. ledger' \ ledger \subseteq block
  BY DEF Next, Land, NextBlock, PrepareMessage, BeginRelayed, BeginSigned, Begin, Advance,
         GetSigner, BuildSignedTransaction, CompressMessage, SimulateFirst,
         SimulateAgain, SendRelayed, SendSigned, Send, ReadStatus, ReadHeightRelayed,
         ReadHeightSigned, Wake, Reject, Sign, Deadline, GiveUp, RelayerRestart, Reload,
         chainVars, vars
<1>2. ASSUME NEW c \in Calls, answer[c] = "expired", NEW e \in block, e.tx = TxOf(c)
      PROVE  FALSE
  <2>1. height < e.tx.expires /\ height > expires[c] /\ e.tx.expires = expires[c]
    BY <1>2 DEF SubmissionInv, ChainInv, CallInv
  <2>2. height \in Nat /\ expires[c] \in Nat
    BY HeightAssumption DEF SubmissionInv, TypeOK
  <2>. QED  BY <2>1, <2>2
<1>. QED  BY <1>1, <1>2

\* After "expired" the transaction never lands: a new attempt is not overtaken.
THEOREM ExpirySettles == Spec => ExpiredIsSettled
<1>1. SubmissionInv /\ [Next]_vars =>
        [\A c \in Calls : answer[c] = "expired" =>
           \A e \in ledger' \ ledger : e.tx # TxOf(c)]_vars
  BY ExpiryStep
<1>. QED  BY <1>1, SubmissionInvHolds, PTL DEF Spec, ExpiredIsSettled

-----------------------------------------------------------------------------
(* Submission implements Delivery.                                         *)

LEMMA InitDelivers == Init => D!Init
BY DEF Init, D!Init, Paid

\* A step of a call answers that call or nobody.
LEMMA TellOne ==
  ASSUME SubmissionInv, NEW c \in Calls, op[c] \in Operations,
         UNCHANGED <<ledger, op>>, answer' \in [Calls -> Answers \union {"none"}],
         \A d \in Calls \ {c} : answer'[d] = answer[d],
         answer'[c] # answer[c] => answer[c] = "none",
         answer'[c] = "receipt" => [tx |-> TxOf(c), ok |-> TRUE] \in ledger
  PROVE  D!Tell
<1>1. answer'[c] = "receipt" => \E tx \in Paid(ledger) : tx.op = op[c]
  <2>. SUFFICES ASSUME answer'[c] = "receipt"  PROVE \E tx \in Paid(ledger) : tx.op = op[c]
    OBVIOUS
  <2>1. TxOf(c) \in Paid(ledger)
    <3>. DEFINE e == [tx |-> TxOf(c), ok |-> TRUE]
    <3>1. e \in ledger /\ e.ok /\ e.tx = TxOf(c)
      OBVIOUS
    <3>. HIDE DEF e
    <3>. QED  BY <3>1 DEF Paid
  <2>2. TxOf(c).op = op[c]
    OBVIOUS
  <2>. QED  BY <2>1, <2>2
<1>2. op[c] # None
  BY NoneIsNoOperation
<1>. QED  BY <1>1, <1>2 DEF D!Tell, Paid

LEMMA StepsDeliver == SubmissionInv /\ SubmissionInv' /\ [Next]_vars => [D!Next]_(D!vars)
<1>. SUFFICES ASSUME SubmissionInv, SubmissionInv', [Next]_vars
              PROVE  D!Next \/ UNCHANGED D!vars
  OBVIOUS
<1>1. ASSUME NEW tx \in sent, Land(tx)  PROVE UNCHANGED D!vars
  BY <1>1 DEF Land, D!vars, Paid
<1>2. CASE NextBlock
  <2>1. /\ ledger \subseteq ledger' /\ ledger' \subseteq ledger \union block
        /\ UNCHANGED <<op, answer>>
    BY <1>2 DEF NextBlock
  <2>2. Paid(ledger) \subseteq Paid(ledger')
    BY <2>1 DEF Paid
  <2>3. ASSUME NEW tx \in Paid(ledger')  PROVE \E c \in Calls : op[c] = tx.op
    <3>1. PICK e \in ledger' : e.tx = tx
      BY DEF Paid
    <3>. QED  BY <2>1, <3>1 DEF SubmissionInv, ChainInv
  <2>4. ASSUME NEW tx \in Paid(ledger'), NEW ux \in Paid(ledger'), tx # ux
        PROVE  ~Conflict(tx.op, ux.op)
    <3>1. PICK e \in ledger', f \in ledger' : e.ok /\ f.ok /\ e.tx = tx /\ f.tx = ux
      BY DEF Paid
    <3>2. e \in ledger \union block /\ f \in ledger \union block
      BY <2>1, <3>1
    <3>. QED  BY <2>4, <3>1, <3>2 DEF SubmissionInv, ChainInv
  <2>5. D!Pay
    BY <2>1, <2>2, <2>3, <2>4 DEF D!Pay
  <2>. QED  BY <2>5 DEF D!Next
<1>3. ASSUME NEW o \in Operations, PrepareMessage(o)  PROVE UNCHANGED D!vars
  BY <1>3 DEF PrepareMessage, chainVars, D!vars
<1>4. ASSUME NEW c \in Calls, NEW o \in Operations,
             BeginRelayed(c, o) \/ BeginSigned(c, o)
      PROVE  D!Next
  <2>1. D!Ask(c, o)
    BY <1>4 DEF BeginRelayed, BeginSigned, Begin, chainVars, D!Ask
  <2>. QED  BY <2>1 DEF D!Next
<1>5. ASSUME NEW c \in Calls, Advance(c) \/ Sign(c) \/ Deadline(c) \/ GiveUp(c)
      PROVE  D!Next \/ UNCHANGED D!vars
  <2>. USE DEF GoTo, End, Told
  <2>1. UNCHANGED <<ledger, op>>
    BY <1>5
       DEF Advance, GetSigner, BuildSignedTransaction, CompressMessage, SimulateFirst,
           SimulateAgain, SendRelayed, SendSigned, Send, ReadStatus, ReadHeightRelayed,
           ReadHeightSigned, Wake, Reject, Sign, Deadline, GiveUp, chainVars
  <2>2. answer' \in [Calls -> Answers \union {"none"}]
    BY DEF SubmissionInv, TypeOK
  <2>3. /\ \A d \in Calls \ {c} : answer'[d] = answer[d]
        /\ answer'[c] # answer[c] => answer[c] = "none"
    BY <1>5
       DEF Advance, GetSigner, BuildSignedTransaction, CompressMessage, SimulateFirst,
           SimulateAgain, SendRelayed, SendSigned, Send, ReadStatus, ReadHeightRelayed,
           ReadHeightSigned, Wake, Reject, Sign, Deadline, GiveUp, SubmissionInv, TypeOK
  <2>4. CASE answer'[c] = answer[c]
    <3>1. answer' = answer
      BY <2>2, <2>3, <2>4 DEF SubmissionInv, TypeOK
    <3>. QED  BY <2>1, <3>1 DEF D!vars
  <2>5. CASE answer'[c] # answer[c]
    <3>1. op[c] \in Operations
      BY <1>5, <2>5, OperationsAssumption
         DEF Advance, GetSigner, BuildSignedTransaction, CompressMessage, SimulateFirst,
             SimulateAgain, SendRelayed, SendSigned, Send, ReadStatus, ReadHeightRelayed,
             ReadHeightSigned, Wake, Reject, Sign, Deadline, GiveUp, SubmissionInv, CallInv
    <3>2. answer'[c] = "receipt" => [tx |-> TxOf(c), ok |-> TRUE] \in ledger
      <4>1. CASE ReadStatus(c)
        BY <2>5, <4>1, ConfirmedIsPaid DEF ReadStatus, SubmissionInv, TypeOK
      <4>2. CASE ~ReadStatus(c)
        BY <1>5, <2>5, <4>2
           DEF Advance, GetSigner, BuildSignedTransaction, CompressMessage,
               SimulateFirst, SimulateAgain, SendRelayed, SendSigned, Send,
               ReadHeightRelayed, ReadHeightSigned, Wake, Reject, Sign, Deadline, GiveUp,
               SubmissionInv, TypeOK
      <4>. QED  BY <4>1, <4>2
    <3>3. D!Tell
      BY <2>1, <2>2, <2>3, <3>1, <3>2, TellOne
    <3>. QED  BY <3>3 DEF D!Next
  <2>. QED  BY <2>4, <2>5
<1>6. CASE RelayerRestart \/ Reload
  <2>1. /\ UNCHANGED <<ledger, op>>
        /\ answer' \in [Calls -> Answers \union {"none"}]
        /\ \A c \in Calls : answer'[c] # answer[c] =>
             answer[c] = "none" /\ op[c] \in Operations /\ answer'[c] # "receipt"
    BY <1>6, OperationsAssumption
       DEF RelayerRestart, Reload, Ends, chainVars, SubmissionInv, TypeOK
  <2>2. D!Tell
    BY <2>1, NoneIsNoOperation DEF D!Tell
  <2>. QED  BY <2>2 DEF D!Next
<1>7. CASE UNCHANGED vars
  BY <1>7 DEF vars, chainVars, D!vars
<1>. QED  BY <1>1, <1>2, <1>3, <1>4, <1>5, <1>6, <1>7 DEF Next

\* Sending implements Delivery: nothing is paid that nobody asked for, no note is spent
\* twice and no caller is told twice, whatever is lost, restarted or retried.
THEOREM SubmissionDelivers == Spec => Delivers
<1>1. SubmissionInv /\ SubmissionInv' /\ [Next]_vars => [D!Next]_(D!vars)
  BY StepsDeliver
<1>. QED  BY <1>1, InitDelivers, SubmissionInvHolds, PTL DEF Spec, Delivers, D!Spec

=============================================================================
