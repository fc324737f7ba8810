--------------------------- MODULE IndexerProofs ---------------------------
(***************************************************************************)
(* Theorems about the indexer, for every history length, every number of   *)
(* API callers, every page and batch size, attempt limit and budget.       *)
(***************************************************************************)
EXTENDS Indexer, TLAPS

USE DEF Sigs, Callers, Awaits, Steps, Statuses, AllKinds

ItemSteps == {"insertRows", "markDone", "markFailed"}
PageSteps == {"insertSignatures", "upsertState"}

HasNewest(S) == \E n \in S : n <= confirmed /\ \A t \in S : t <= n

\* What a caller's locals satisfy at each of its awaits.
CallOK ==
  \A c \in Callers :
    /\ pc[c] \in PageSteps => HasNewest(page[c])
    /\ pc[c] \in ItemSteps => item[c] \in batch[c]
    /\ pc[c] # "insertRows" => awaiting[c] = {}
    /\ \A s \in batch[c] : attempts[s] > 0

QueueInv == TypeOK /\ CallOK /\ AttemptsAccounted

-----------------------------------------------------------------------------

LEMMA PageNewest ==
  ASSUME TypeOK, NEW c \in Callers, NEW limit \in Nat \ {0}, Page(until[c], limit) # {}
  PROVE  confirmed \in Page(until[c], limit) /\ HasNewest(Page(until[c], limit))
<1>1. PICK s \in (until[c] + 1)..confirmed : s > confirmed - limit
  BY DEF Page
<1>2. confirmed \in Nat /\ until[c] \in Nat
  BY HistoryAssumption DEF TypeOK
<1>3. confirmed \in Page(until[c], limit)
  BY <1>1, <1>2 DEF Page
<1>4. \A t \in Page(until[c], limit) : t <= confirmed
  BY <1>2 DEF Page
<1>. QED  BY <1>2, <1>3, <1>4 DEF HasNewest

LEMMA NewestIsMember ==
  ASSUME NEW S, HasNewest(S), S \subseteq Int, confirmed \in Int
  PROVE  Newest(S) \in S /\ Newest(S) <= confirmed /\ \A t \in S : t <= Newest(S)
<1>1. PICK n \in S : n <= confirmed /\ \A t \in S : t <= n
  BY DEF HasNewest
<1>2. Newest(S) \in S /\ \A t \in S : t <= Newest(S)
  BY <1>1 DEF Newest
<1>3. n \in Int /\ Newest(S) \in Int /\ Newest(S) <= n
  BY <1>1, <1>2
<1>. QED  BY <1>1, <1>2, <1>3

LEMMA QueueInit == Init => QueueInv
BY HistoryAssumption, AttemptsAssumption, BudgetAssumption
   DEF Init, QueueInv, TypeOK, CallOK, AttemptsAccounted, PageSteps, ItemSteps

\* The rejection of an await, whatever was written before it.
LEMMA RejectKeepsCalls ==
  ASSUME QueueInv, NEW c \in Callers, Reject(c),
         attempts' \in [Sigs -> 0..MaxAttempts], \A s \in Sigs : attempts[s] > 0 => attempts'[s] > 0,
         item' \in [Callers -> 0..MaxTx], \A d \in Callers \ {c} : item'[d] = item[d],
         pc'[c] = "markFailed" => item'[c] \in batch[c]
  PROVE  /\ CallOK'
         /\ pc' \in [Callers -> Steps]
         /\ until' \in [Callers -> 0..MaxTx]
         /\ page' \in [Callers -> SUBSET Sigs]
         /\ batch' \in [Callers -> SUBSET Sigs]
         /\ awaiting' \in [Callers -> SUBSET Tables]
         /\ orphans' \subseteq Tables \X Sigs
         /\ faults' \in 0..MaxFaults
         /\ UNCHANGED <<chainVars, rows, phase, omitted, budgetVars>>
<1>. USE DEF QueueInv, TypeOK
<1>1. awaiting[c] \X {item[c]} \subseteq Tables \X Sigs
  <2>1. CASE pc[c] = "insertRows"
    BY <2>1 DEF CallOK, ItemSteps
  <2>2. CASE pc[c] # "insertRows"
    BY <2>2 DEF CallOK
  <2>. QED  BY <2>1, <2>2
<1>2. orphans' \subseteq Tables \X Sigs
  BY <1>1 DEF Reject
<1>3. /\ pc' \in [Callers -> Steps]
      /\ until' \in [Callers -> 0..MaxTx]
      /\ page' \in [Callers -> SUBSET Sigs]
      /\ batch' \in [Callers -> SUBSET Sigs]
      /\ awaiting' \in [Callers -> SUBSET Tables]
      /\ UNCHANGED <<chainVars, rows, phase, omitted, budgetVars>>
  BY HistoryAssumption DEF Reject, AfterThrow
<1>4. faults' \in 0..MaxFaults
  BY BudgetAssumption DEF Reject
<1>5. CallOK'
  <2>1. SUFFICES ASSUME NEW d \in Callers
                 PROVE  (/\ pc[d] \in PageSteps => HasNewest(page[d])
                         /\ pc[d] \in ItemSteps => item[d] \in batch[d]
                         /\ pc[d] # "insertRows" => awaiting[d] = {}
                         /\ \A s \in batch[d] : attempts[s] > 0)'
    BY DEF CallOK
  <2>2. CASE d = c
    <3>1. /\ pc'[c] \in {"markFailed", "idle"} /\ awaiting'[c] = {}
          /\ batch'[c] \subseteq batch[c] /\ (pc'[c] = "markFailed" => batch'[c] = batch[c])
      BY DEF Reject, AfterThrow
    <3>2. \A s \in batch[c] : attempts'[s] > 0
      BY DEF CallOK
    <3>. QED  BY <2>2, <3>1, <3>2 DEF PageSteps, ItemSteps
  <2>3. CASE d # c
    <3>1. /\ pc'[d] = pc[d] /\ page'[d] = page[d] /\ batch'[d] = batch[d]
          /\ awaiting'[d] = awaiting[d] /\ item'[d] = item[d] /\ confirmed' = confirmed
      BY <2>3 DEF Reject, chainVars
    <3>2. \A s \in batch[d] : attempts'[s] > 0
      BY DEF CallOK
    <3>3. HasNewest(page[d]) => HasNewest(page[d])'
      BY <3>1 DEF HasNewest
    <3>. QED  BY <3>1, <3>2, <3>3 DEF CallOK
  <2>. QED  BY <2>2, <2>3
<1>. QED  BY <1>2, <1>3, <1>4, <1>5

LEMMA QueueFindState ==
  ASSUME QueueInv, NEW c \in Callers, FindState(c)
  PROVE  QueueInv'
<1>. USE DEF QueueInv, TypeOK
<1>1. /\ pc' = [pc EXCEPT ![c] = "getSignatures"] /\ until' = [until EXCEPT ![c] = watermark]
      /\ UNCHANGED <<chainVars, queueVars, watermark, rows, orphans, phase, page,
                     batch, itemVars, omitted, faults, budgetVars>>
  BY DEF FindState, Answered, itemVars
<1>2. until[c]' \in 0..MaxTx
  BY <1>1, HistoryAssumption
<1>3. TypeOK'
  BY <1>1, <1>2, HistoryAssumption DEF chainVars, queueVars, itemVars, budgetVars
<1>4. CallOK'
  BY <1>1 DEF CallOK, HasNewest, PageSteps, ItemSteps, chainVars, queueVars, itemVars,
              FindState
<1>5. AttemptsAccounted'
  BY <1>1 DEF AttemptsAccounted, queueVars
<1>. QED  BY <1>3, <1>4, <1>5

LEMMA QueueGetSignatures ==
  ASSUME QueueInv, NEW c \in Callers, GetSignatures(c)
  PROVE  QueueInv'
<1>. USE DEF QueueInv, TypeOK
<1>1. PICK limit \in DiscoveryLimits : 
        /\ page' = [page EXCEPT ![c] = Page(until[c], limit)]
        /\ omitted' = omitted \union {s \in (until[c] + 1)..confirmed : s <= confirmed - limit}
        /\ pc' = [pc EXCEPT ![c] = IF Page(until[c], limit) = {} THEN AfterDiscovery(c)
                                                                ELSE "insertSignatures"]
  BY DEF GetSignatures
<1>2. /\ until' = [until EXCEPT ![c] = 0]
      /\ UNCHANGED <<chainVars, queueVars, watermark, rows, orphans, phase, batch,
                     itemVars, faults, budgetVars>>
      /\ pc[c] = "getSignatures"
  BY DEF GetSignatures
<1>3. (until[c] + 1)..confirmed \subseteq Sigs
  BY HistoryAssumption
<1>4. TypeOK'
  <2>1. Page(until[c], limit) \subseteq Sigs
    BY <1>3 DEF Page
  <2>2. omitted' \subseteq Sigs
    BY <1>1, <1>3
  <2>3. /\ page' \in [Callers -> SUBSET Sigs] /\ until' \in [Callers -> 0..MaxTx]
        /\ pc' \in [Callers -> Steps]
    BY <1>1, <1>2, <2>1, HistoryAssumption DEF AfterDiscovery
  <2>. QED  BY <1>2, <2>2, <2>3 DEF chainVars, queueVars, itemVars, budgetVars
<1>5. CallOK'
  <2>1. Page(until[c], limit) # {} => HasNewest(Page(until[c], limit))
    BY PageNewest, LimitsAssumption
  <2>. SUFFICES ASSUME NEW d \in Callers
                PROVE  (/\ pc[d] \in PageSteps => HasNewest(page[d])
                        /\ pc[d] \in ItemSteps => item[d] \in batch[d]
                        /\ pc[d] # "insertRows" => awaiting[d] = {}
                        /\ \A s \in batch[d] : attempts[s] > 0)'
    BY DEF CallOK
  <2>2. CASE d = c
    BY <2>1, <2>2, <1>1, <1>2
       DEF AfterDiscovery, CallOK, HasNewest, PageSteps, ItemSteps, chainVars, queueVars, itemVars
  <2>3. CASE d # c
    BY <2>3, <1>1, <1>2 DEF CallOK, HasNewest, chainVars, queueVars, itemVars
  <2>. QED  BY <2>2, <2>3
<1>6. AttemptsAccounted'
  BY <1>2 DEF AttemptsAccounted, queueVars
<1>. QED  BY <1>4, <1>5, <1>6

LEMMA QueueInsertSignatures ==
  ASSUME QueueInv, NEW c \in Callers, InsertSignatures(c)
  PROVE  QueueInv'
<1>. USE DEF QueueInv, TypeOK
<1>1. /\ pc[c] = "insertSignatures"
      /\ status' = [s \in Sigs |-> IF s \in page[c] /\ status[s] = "unseen"
                                     THEN "pending" ELSE status[s]]
      /\ UNCHANGED <<attempts, watermark, item>>
  BY DEF InsertSignatures
<1>2. status' \in [Sigs -> Statuses] /\ AttemptsAccounted'
  BY <1>1 DEF AttemptsAccounted
<1>3. CASE Answered(c, "upsertState") /\ UNCHANGED <<pageVars, batch>>
  <2>1. TypeOK'
    BY <1>1, <1>2, <1>3 DEF Answered, chainVars, pageVars, budgetVars
  <2>2. CallOK'
    BY <1>1, <1>3 DEF CallOK, HasNewest, PageSteps, ItemSteps, Answered, chainVars, pageVars
  <2>. QED  BY <1>2, <2>1, <2>2
<1>4. CASE Reject(c)
  <2>1. pc'[c] # "markFailed"
    BY <1>1, <1>4 DEF Reject, AfterThrow
  <2>2. \A s \in Sigs : attempts[s] > 0 => attempts'[s] > 0
    BY <1>1
  <2>3. TypeOK' /\ CallOK'
    BY <1>1, <1>2, <1>4, <2>1, <2>2, RejectKeepsCalls DEF chainVars, budgetVars
  <2>. QED  BY <1>2, <2>3
<1>. QED  BY <1>3, <1>4 DEF InsertSignatures

LEMMA QueueUpsertState ==
  ASSUME QueueInv, NEW c \in Callers, UpsertState(c)
  PROVE  QueueInv'
<1>. USE DEF QueueInv, TypeOK
<1>1. /\ pc[c] = "upsertState"
      /\ watermark' = Newest(page[c])
      /\ UNCHANGED <<status, attempts, item>>
  BY DEF UpsertState, queueVars
<1>2. watermark' \in 0..confirmed
  <2>1. HasNewest(page[c]) /\ page[c] \subseteq Int /\ confirmed \in Int
    BY <1>1, HistoryAssumption DEF CallOK, PageSteps
  <2>2. Newest(page[c]) \in page[c] /\ Newest(page[c]) <= confirmed
    BY <2>1, NewestIsMember
  <2>. QED  BY <1>1, <2>2
<1>3. AttemptsAccounted'
  BY <1>1 DEF AttemptsAccounted
<1>4. CASE /\ Answered(c, AfterDiscovery(c))
           /\ page' = [page EXCEPT ![c] = {}]
           /\ UNCHANGED <<until, batch>>
  <2>1. TypeOK'
    BY <1>1, <1>2, <1>4 DEF Answered, AfterDiscovery, chainVars, budgetVars
  <2>2. CallOK'
    BY <1>1, <1>4 DEF CallOK, HasNewest, PageSteps, ItemSteps, Answered, AfterDiscovery, chainVars
  <2>. QED  BY <1>3, <2>1, <2>2
<1>5. CASE Reject(c)
  <2>1. pc'[c] # "markFailed"
    BY <1>1, <1>5 DEF Reject, AfterThrow
  <2>2. \A s \in Sigs : attempts[s] > 0 => attempts'[s] > 0
    BY <1>1
  <2>3. TypeOK' /\ CallOK'
    BY <1>1, <1>2, <1>5, <2>1, <2>2, RejectKeepsCalls DEF chainVars, budgetVars
  <2>. QED  BY <1>3, <2>3
<1>. QED  BY <1>4, <1>5 DEF UpsertState

LEMMA QueueClaim ==
  ASSUME QueueInv, NEW c \in Callers, ClaimPendingSignatures(c)
  PROVE  QueueInv'
<1>. USE DEF QueueInv, TypeOK
<1>1. PICK limit \in ProcessingLimits :
        LET claimed == Lowest(limit, Claimable) IN
        /\ status' = [s \in Sigs |-> IF s \in claimed THEN "processing" ELSE status[s]]
        /\ attempts' = [s \in Sigs |-> IF s \in claimed THEN attempts[s] + 1 ELSE attempts[s]]
        /\ \/ /\ Answered(c, IF claimed = {} THEN "idle" ELSE "getTransaction")
              /\ batch' = [batch EXCEPT ![c] = claimed]
              /\ UNCHANGED pageVars
           \/ Reject(c)
  BY DEF ClaimPendingSignatures
<1>. DEFINE claimed == Lowest(limit, Claimable)
<1>2. pc[c] = "claim" /\ UNCHANGED <<watermark, item>>
  BY DEF ClaimPendingSignatures
<1>3. claimed \subseteq Sigs /\ \A s \in claimed : status[s] \in {"pending", "failed_transient"}
  BY DEF Lowest, Claimable, ClaimableStatuses
<1>4. \A s \in claimed : attempts[s] + 1 \in 1..MaxAttempts
  BY <1>3, AttemptsAssumption DEF AttemptsAccounted
<1>. HIDE DEF claimed
<1>5. /\ status' = [s \in Sigs |-> IF s \in claimed THEN "processing" ELSE status[s]]
      /\ attempts' = [s \in Sigs |-> IF s \in claimed THEN attempts[s] + 1 ELSE attempts[s]]
  BY <1>1 DEF claimed
<1>6. /\ status' \in [Sigs -> Statuses]
      /\ attempts' \in [Sigs -> 0..MaxAttempts]
      /\ \A s \in Sigs : attempts[s] > 0 => attempts'[s] > 0
      /\ \A s \in claimed : attempts'[s] > 0
  BY <1>3, <1>4, <1>5, AttemptsAssumption
<1>7. AttemptsAccounted'
  BY <1>3, <1>4, <1>5, AttemptsAssumption DEF AttemptsAccounted
<1>8. CASE /\ Answered(c, IF claimed = {} THEN "idle" ELSE "getTransaction")
           /\ batch' = [batch EXCEPT ![c] = claimed]
           /\ UNCHANGED pageVars
  <2>1. TypeOK'
    BY <1>2, <1>3, <1>6, <1>8 DEF Answered, chainVars, pageVars, budgetVars
  <2>2. CallOK'
    BY <1>2, <1>3, <1>6, <1>8
       DEF CallOK, HasNewest, PageSteps, ItemSteps, Answered, chainVars, pageVars
  <2>. QED  BY <1>7, <2>1, <2>2
<1>9. CASE Reject(c)
  <2>1. pc'[c] # "markFailed"
    BY <1>2, <1>9 DEF Reject, AfterThrow
  <2>2. TypeOK' /\ CallOK'
    BY <1>2, <1>6, <1>9, <2>1, RejectKeepsCalls DEF chainVars, budgetVars
  <2>. QED  BY <1>7, <2>2
<1>. QED  BY <1>1, <1>8, <1>9 DEF claimed

LEMMA QueueGetTransaction ==
  ASSUME QueueInv, NEW c \in Callers, GetTransaction(c)
  PROVE  QueueInv'
<1>. USE DEF QueueInv, TypeOK
<1>1. PICK s \in batch[c] :
        /\ item' = [item EXCEPT ![c] = s]
        /\ pc' = [pc EXCEPT ![c] = AfterTransaction(s)]
        /\ awaiting' = [awaiting EXCEPT ![c] =
                          IF AfterTransaction(s) = "insertRows" THEN Tables ELSE {}]
  BY DEF GetTransaction
<1>2. UNCHANGED <<chainVars, queueVars, watermark, rows, orphans, phase, pageVars,
                  batch, omitted, faults, budgetVars>>
  BY DEF GetTransaction
<1>3. AfterTransaction(s) \in ItemSteps /\ s \in Sigs
  BY DEF AfterTransaction, ItemSteps
<1>4. TypeOK'
  BY <1>1, <1>2, <1>3, HistoryAssumption
     DEF ItemSteps, chainVars, queueVars, pageVars, budgetVars
<1>5. CallOK'
  BY <1>1, <1>2, <1>3
     DEF CallOK, HasNewest, PageSteps, ItemSteps, chainVars, queueVars, pageVars
<1>6. AttemptsAccounted'
  BY <1>2 DEF AttemptsAccounted, queueVars
<1>. QED  BY <1>4, <1>5, <1>6

LEMMA QueueInsertRows ==
  ASSUME QueueInv, NEW c \in Callers, NEW t \in Tables, InsertRows(c, t)
  PROVE  QueueInv'
<1>. USE DEF QueueInv, TypeOK
<1>1. /\ pc[c] = "insertRows"
      /\ rows' = [rows EXCEPT ![t] = @ \union {item[c]}]
      /\ awaiting' = [awaiting EXCEPT ![c] = awaiting[c] \ {t}]
      /\ pc' = [pc EXCEPT ![c] = IF InsertsAnswered(awaiting[c] \ {t}) THEN "markDone"
                                                                      ELSE "insertRows"]
      /\ UNCHANGED <<chainVars, queueVars, watermark, orphans, phase, pageVars, batch,
                     item, omitted, faults, budgetVars>>
  BY DEF InsertRows
<1>2. item[c] \in batch[c]
  BY <1>1 DEF CallOK, ItemSteps
<1>3. TypeOK'
  BY <1>1, <1>2 DEF chainVars, queueVars, pageVars, budgetVars
<1>4. CallOK'
  BY <1>1, <1>2 DEF InsertsAnswered, CallOK, HasNewest, PageSteps, ItemSteps, chainVars,
                    queueVars, pageVars
<1>5. AttemptsAccounted'
  BY <1>1 DEF AttemptsAccounted, queueVars
<1>. QED  BY <1>3, <1>4, <1>5

\* markDone and markProcessingFailure write the status of the item in work, then go
\* on to the next item or reject.
LEMMA QueueItemSettled ==
  ASSUME QueueInv, NEW c \in Callers, pc[c] \in {"markDone", "markFailed"},
         NEW settled \in Statuses, status' = [status EXCEPT ![item[c]] = settled],
         settled \in {"done", "failed_transient", "failed_terminal"},
         settled = "failed_transient" => attempts[item[c]] < MaxAttempts,
         settled = "failed_terminal" => attempts[item[c]] = MaxAttempts,
         UNCHANGED <<attempts, watermark>>,
         \/ NextItem(c)
         \/ Reject(c) /\ item' = [item EXCEPT ![c] = IF pc[c] = "markDone" THEN @ ELSE 0]
  PROVE  QueueInv'
<1>. USE DEF QueueInv, TypeOK
<1>1. item[c] \in batch[c] /\ item[c] \in Sigs /\ attempts[item[c]] > 0
  BY DEF CallOK, ItemSteps
<1>2. status' \in [Sigs -> Statuses]
  OBVIOUS
<1>3. AttemptsAccounted'
  BY <1>1 DEF AttemptsAccounted
<1>4. CASE NextItem(c)
  <2>1. TypeOK'
    <3>1. /\ pc' \in [Callers -> Steps] /\ batch' \in [Callers -> SUBSET Sigs]
          /\ item' \in [Callers -> 0..MaxTx]
      BY <1>4, HistoryAssumption DEF NextItem, Answered
    <3>. QED  BY <1>2, <1>4, <3>1 DEF NextItem, Answered, chainVars, pageVars, budgetVars
  <2>2. CallOK'
    BY <1>1, <1>4 DEF NextItem, Answered, CallOK, HasNewest, PageSteps, ItemSteps,
                      chainVars, pageVars
  <2>. QED  BY <1>3, <2>1, <2>2
<1>5. CASE Reject(c) /\ item' = [item EXCEPT ![c] = IF pc[c] = "markDone" THEN @ ELSE 0]
  <2>1. item' \in [Callers -> 0..MaxTx] /\ \A d \in Callers \ {c} : item'[d] = item[d]
    BY <1>5, HistoryAssumption
  <2>2. pc'[c] = "markFailed" => item'[c] \in batch[c]
    BY <1>1, <1>5 DEF Reject, AfterThrow
  <2>3. \A s \in Sigs : attempts[s] > 0 => attempts'[s] > 0
    OBVIOUS
  <2>4. TypeOK' /\ CallOK'
    BY <1>2, <1>5, <2>1, <2>2, <2>3, RejectKeepsCalls DEF chainVars, budgetVars
  <2>. QED  BY <1>3, <2>4
<1>. QED  BY <1>4, <1>5

LEMMA QueueThrow ==
  ASSUME QueueInv, NEW c \in Callers, Throw(c)
  PROVE  QueueInv'
<1>. USE DEF QueueInv, TypeOK
<1>1. Reject(c) /\ UNCHANGED <<queueVars, watermark>>
  BY DEF Throw
<1>2. /\ item' \in [Callers -> 0..MaxTx] /\ \A d \in Callers \ {c} : item'[d] = item[d]
      /\ pc'[c] = "markFailed" => item'[c] \in batch[c]
  <2>1. CASE pc[c] = "getTransaction"
    <3>1. PICK s \in batch[c] : item' = [item EXCEPT ![c] = s]
      BY <2>1 DEF Throw
    <3>. QED  BY <3>1, HistoryAssumption
  <2>2. CASE pc[c] # "getTransaction" /\ AfterThrow(pc[c]) = "idle"
    <3>1. pc'[c] = "idle"
      BY <2>2, <1>1 DEF Reject
    <3>2. item' = [item EXCEPT ![c] = 0]
      BY <2>2 DEF Throw
    <3>. QED  BY <3>1, <3>2, HistoryAssumption
  <2>3. CASE pc[c] # "getTransaction" /\ AfterThrow(pc[c]) # "idle"
    BY <2>3 DEF Throw, AfterThrow, CallOK, ItemSteps
  <2>. QED  BY <2>1, <2>2, <2>3
<1>3. TypeOK' /\ CallOK'
  BY <1>1, <1>2, RejectKeepsCalls DEF queueVars, chainVars, budgetVars
<1>4. AttemptsAccounted'
  BY <1>1 DEF AttemptsAccounted, queueVars
<1>. QED  BY <1>3, <1>4

LEMMA QueueRestart ==
  ASSUME QueueInv, Restart,
         crashes' \in 0..MaxCrashes, shutdowns' \in 0..MaxShutdowns
  PROVE  QueueInv'
<1>. USE DEF QueueInv, TypeOK
<1>1. \A c \in Callers : awaiting[c] \X {item[c]} \subseteq Tables \X Sigs
  <2>. TAKE c \in Callers
  <2>1. CASE pc[c] = "insertRows"
    BY <2>1 DEF CallOK, ItemSteps
  <2>2. CASE pc[c] # "insertRows"
    BY <2>2 DEF CallOK
  <2>. QED  BY <2>1, <2>2
<1>2. orphans' \subseteq Tables \X Sigs
  BY <1>1 DEF Restart
<1>3. TypeOK'
  BY <1>2, HistoryAssumption DEF Restart, chainVars, queueVars
<1>4. CallOK'
  BY DEF Restart, CallOK, PageSteps, ItemSteps
<1>5. AttemptsAccounted'
  BY DEF Restart, AttemptsAccounted, queueVars
<1>. QED  BY <1>3, <1>4, <1>5

LEMMA QueueNext == QueueInv /\ [Next]_vars => QueueInv'
<1>. SUFFICES ASSUME QueueInv, [Next]_vars
              PROVE  QueueInv'
  OBVIOUS
<1>. USE DEF QueueInv, TypeOK
<1>1. CASE Confirm
  <2>1. TypeOK'
    BY <1>1, HistoryAssumption DEF Confirm, queueVars, pageVars, itemVars, budgetVars
  <2>2. CallOK'
    BY <1>1, HistoryAssumption DEF Confirm, CallOK, HasNewest, queueVars, pageVars, itemVars
  <2>. QED  BY <1>1, <2>1, <2>2 DEF Confirm, AttemptsAccounted, queueVars
<1>2. CASE Finalize
  <2>1. TypeOK'
    BY <1>2, HistoryAssumption DEF Finalize, queueVars, pageVars, itemVars, budgetVars
  <2>2. CallOK'
    BY <1>2 DEF Finalize, CallOK, HasNewest, queueVars, pageVars, itemVars
  <2>. QED  BY <1>2, <2>1, <2>2 DEF Finalize, AttemptsAccounted, queueVars
<1>3. ASSUME NEW c \in Callers, NEW await \in {"findState", "claim"}, Begin(c, await)
      PROVE  QueueInv'
  <2>1. TypeOK'
    BY <1>3 DEF Begin, chainVars, queueVars, pageVars, itemVars, budgetVars
  <2>2. CallOK'
    BY <1>3 DEF Begin, CallOK, HasNewest, PageSteps, ItemSteps, chainVars, queueVars,
                pageVars, itemVars
  <2>. QED  BY <1>3, <2>1, <2>2 DEF Begin, AttemptsAccounted, queueVars
<1>4. ASSUME NEW t \in Tables, NEW s \in Sigs, OrphanEnds(t, s)
      PROVE  QueueInv'
  <2>1. TypeOK'
    <3>1. rows[t] \union {s} \in SUBSET Sigs
      BY <1>4
    <3>2. rows' = [rows EXCEPT ![t] = rows[t] \union {s}] \/ rows' = rows
      BY <1>4 DEF OrphanEnds
    <3>3. rows' \in [Tables -> SUBSET Sigs]
      BY <3>1, <3>2
    <3>4. orphans' \subseteq Tables \X Sigs
      BY <1>4 DEF OrphanEnds
    <3>. QED  BY <1>4, <3>3, <3>4 DEF OrphanEnds, chainVars, queueVars, pageVars, itemVars, budgetVars
  <2>2. CallOK'
    BY <1>4 DEF OrphanEnds, CallOK, HasNewest, chainVars, queueVars, pageVars, itemVars
  <2>. QED  BY <1>4, <2>1, <2>2 DEF OrphanEnds, AttemptsAccounted, queueVars
<1>5. ASSUME NEW from, NEW to \in {"up", "closing", "stopping"}, ShutdownStep(from, to),
             shutdowns' \in 0..MaxShutdowns
      PROVE  QueueInv'
  <2>1. TypeOK'
    BY <1>5 DEF ShutdownStep, chainVars, queueVars, pageVars, itemVars
  <2>2. CallOK'
    BY <1>5 DEF ShutdownStep, CallOK, HasNewest, chainVars, queueVars, pageVars, itemVars
  <2>. QED  BY <1>5, <2>1, <2>2 DEF ShutdownStep, AttemptsAccounted, queueVars
<1>6. ASSUME NEW c \in Callers, Discover(c)
      PROVE  QueueInv'
  BY <1>6, QueueFindState, QueueGetSignatures, QueueInsertSignatures, QueueUpsertState
     DEF Discover
<1>7. ASSUME NEW c \in Callers, MarkDone(c)
      PROVE  QueueInv'
  BY <1>7, QueueItemSettled DEF MarkDone
<1>8. ASSUME NEW c \in Callers, MarkProcessingFailure(c)
      PROVE  QueueInv'
  <2>. DEFINE settled == IF Exhausted(item[c]) THEN "failed_terminal" ELSE "failed_transient"
  <2>1. item[c] \in Sigs
    BY <1>8 DEF MarkProcessingFailure, CallOK, ItemSteps
  <2>2. /\ settled = "failed_transient" => attempts[item[c]] < MaxAttempts
        /\ settled = "failed_terminal" => attempts[item[c]] = MaxAttempts
    BY <2>1, AttemptsAssumption DEF Exhausted
  <2>. QED  BY <1>8, <2>2, QueueItemSettled DEF MarkProcessingFailure
<1>9. ASSUME NEW c \in Callers, Process(c)
      PROVE  QueueInv'
  BY <1>9, <1>7, <1>8, QueueClaim, QueueGetTransaction, QueueInsertRows DEF Process
<1>10. CASE Crash
  <2>1. crashes' \in 0..MaxCrashes /\ shutdowns' \in 0..MaxShutdowns
    BY <1>10, BudgetAssumption DEF Crash
  <2>. QED  BY <1>10, <2>1, QueueRestart DEF Crash
<1>11. CASE Exit
  BY <1>11, QueueRestart DEF Exit, budgetVars
<1>12. CASE BeginShutdown
  <2>1. shutdowns' \in 0..MaxShutdowns
    BY <1>12, BudgetAssumption DEF BeginShutdown
  <2>. QED  BY <1>12, <1>5, <2>1 DEF BeginShutdown
<1>13. CASE StopWorker
  BY <1>13, <1>5 DEF StopWorker
<1>14. CASE UNCHANGED vars
  BY <1>14 DEF vars, CallOK, HasNewest, AttemptsAccounted, chainVars, queueVars, pageVars,
               itemVars, budgetVars
<1>. QED
  BY <1>1, <1>2, <1>3, <1>4, <1>6, <1>9, <1>10, <1>11, <1>12, <1>13, <1>14, QueueThrow
     DEF Next, Tick, RequestDiscover, RequestProcess

\* Types, and with them the attempt bound, hold of every reachable state.
THEOREM TypeInvariant == Spec => []TypeOK
<1>1. QueueInv => TypeOK
  BY DEF QueueInv
<1>. QED  BY <1>1, QueueInit, QueueNext, PTL DEF Spec

\* The retry budget is kept: a signature is given up exactly at its last attempt,
\* and one waiting for a retry has attempts left.
THEOREM RetryBudget == Spec => []AttemptsAccounted
<1>1. QueueInv => AttemptsAccounted
  BY DEF QueueInv
<1>. QED  BY <1>1, QueueInit, QueueNext, PTL DEF Spec

-----------------------------------------------------------------------------
(* A claim belongs to one call.                                            *)

\* A step of c that takes no new row, and touches no claimed row but its own.
LEMMA ExclusiveStep ==
  ASSUME QueueInv, ClaimExclusive, NEW c \in Callers,
         \A d \in Callers \ {c} : pc'[d] = pc[d] /\ batch'[d] = batch[d] /\ item'[d] = item[d],
         batch'[c] \subseteq batch[c],
         \A s \in Sigs : status[s] \in {"processing", "done"} /\ s \notin batch[c]
                           => status'[s] = status[s],
         \A s \in batch'[c] :
           status'[s] = "processing"
             \/ (status'[s] = "done" /\ s = item'[c] /\ pc'[c] = "markFailed")
  PROVE  ClaimExclusive'
<1>. USE DEF QueueInv, TypeOK
<1>1. ASSUME NEW d \in Callers, NEW e \in Callers, d # e
      PROVE  batch'[d] \intersect batch'[e] = {}
  <2>1. batch'[d] \subseteq batch[d] /\ batch'[e] \subseteq batch[e]
    OBVIOUS
  <2>. QED  BY <1>1, <2>1 DEF ClaimExclusive
<1>2. ASSUME NEW d \in Callers, NEW s \in batch'[d]
      PROVE  status'[s] = "processing"
               \/ (status'[s] = "done" /\ s = item'[d] /\ pc'[d] = "markFailed")
  <2>1. CASE d # c
    <3>1. s \in batch[d] /\ s \in Sigs /\ s \notin batch[c]
      BY <1>2, <2>1 DEF ClaimExclusive
    <3>. QED  BY <2>1, <3>1 DEF ClaimExclusive
  <2>. QED  BY <1>2, <2>1
<1>. QED  BY <1>1, <1>2 DEF ClaimExclusive

\* Away from markFailed a caller's rows are all "processing".
LEMMA HeldProcessing ==
  ASSUME ClaimExclusive, NEW c \in Callers, pc[c] # "markFailed"
  PROVE  \A s \in batch[c] : status[s] = "processing"
BY DEF ClaimExclusive

LEMMA ExclusiveReject ==
  ASSUME QueueInv, ClaimExclusive, NEW c \in Callers, Reject(c),
         pc[c] \notin {"markDone", "markFailed", "claim"},
         \A d \in Callers \ {c} : item'[d] = item[d],
         \A s \in Sigs : status[s] \in {"processing", "done"} => status'[s] = status[s]
  PROVE  ClaimExclusive'
<1>. USE DEF QueueInv, TypeOK
<1>1. \A d \in Callers \ {c} : pc'[d] = pc[d] /\ batch'[d] = batch[d]
  BY DEF Reject
<1>2. batch'[c] \subseteq batch[c]
  BY DEF Reject
<1>3. \A s \in batch[c] : status'[s] = "processing"
  BY HeldProcessing
<1>. QED  BY <1>1, <1>2, <1>3, ExclusiveStep

LEMMA ExclusiveDiscover ==
  ASSUME QueueInv, ClaimExclusive, NEW c \in Callers, Discover(c)
  PROVE  ClaimExclusive'
<1>. USE DEF QueueInv, TypeOK
<1>1. pc[c] \in {"findState", "getSignatures", "insertSignatures", "upsertState"}
  BY DEF Discover, FindState, GetSignatures, InsertSignatures, UpsertState
<1>2. item' = item
  BY DEF Discover, FindState, GetSignatures, InsertSignatures, UpsertState, itemVars
<1>3. \A s \in Sigs : status[s] # "unseen" => status'[s] = status[s]
  BY DEF Discover, FindState, GetSignatures, InsertSignatures, UpsertState, queueVars
<1>4. CASE Reject(c)
  BY <1>1, <1>2, <1>3, <1>4, ExclusiveReject
<1>5. CASE /\ batch' = batch
           /\ \A d \in Callers \ {c} : pc'[d] = pc[d]
  <2>1. \A s \in batch[c] : status'[s] = "processing"
    BY <1>1, <1>3, HeldProcessing
  <2>. QED  BY <1>2, <1>3, <1>5, <2>1, ExclusiveStep
<1>. QED
  BY <1>4, <1>5 DEF Discover, FindState, GetSignatures, InsertSignatures, UpsertState, Answered

LEMMA ExclusiveClaim ==
  ASSUME QueueInv, ClaimExclusive, NEW c \in Callers, ClaimPendingSignatures(c)
  PROVE  ClaimExclusive'
<1>. USE DEF QueueInv, TypeOK
<1>1. PICK claimed \in SUBSET Claimable :
        /\ status' = [s \in Sigs |-> IF s \in claimed THEN "processing" ELSE status[s]]
        /\ \A d \in Callers \ {c} : pc'[d] = pc[d] /\ batch'[d] = batch[d]
        /\ batch'[c] = claimed \/ batch'[c] = {}
  <2>1. PICK limit \in ProcessingLimits :
          LET claimed == Lowest(limit, Claimable) IN
          /\ status' = [s \in Sigs |-> IF s \in claimed THEN "processing" ELSE status[s]]
          /\ \/ /\ Answered(c, IF claimed = {} THEN "idle" ELSE "getTransaction")
                /\ batch' = [batch EXCEPT ![c] = claimed]
             \/ Reject(c)
    BY DEF ClaimPendingSignatures
  <2>2. Lowest(limit, Claimable) \in SUBSET Claimable
    BY DEF Lowest
  <2>3. Reject(c) => batch' = [batch EXCEPT ![c] = {}]
    BY DEF Reject, AfterThrow, ClaimPendingSignatures
  <2>4. \A d \in Callers \ {c} : pc'[d] = pc[d]
    BY <2>1 DEF Reject, Answered
  <2>. QED  BY <2>1, <2>2, <2>3, <2>4
<1>2. item' = item /\ pc[c] = "claim"
  BY DEF ClaimPendingSignatures
<1>3. claimed \subseteq Sigs /\ \A s \in claimed : status[s] \notin {"processing", "done"}
  BY DEF Claimable, ClaimableStatuses
<1>4. ASSUME NEW d \in Callers \ {c}
      PROVE  claimed \intersect batch[d] = {}
  BY <1>3 DEF ClaimExclusive
<1>5. ASSUME NEW d \in Callers, NEW e \in Callers, d # e
      PROVE  batch'[d] \intersect batch'[e] = {}
  <2>1. batch[d] \intersect batch[e] = {}
    BY <1>5 DEF ClaimExclusive
  <2>2. CASE d = c
    BY <1>1, <1>4, <1>5, <2>2
  <2>3. CASE e = c
    BY <1>1, <1>4, <1>5, <2>3
  <2>4. CASE d # c /\ e # c
    BY <1>1, <2>1, <2>4
  <2>. QED  BY <2>2, <2>3, <2>4
<1>6. ASSUME NEW d \in Callers, NEW s \in batch'[d]
      PROVE  status'[s] = "processing"
               \/ (status'[s] = "done" /\ s = item'[d] /\ pc'[d] = "markFailed")
  <2>1. CASE d # c
    <3>1. s \in batch[d] /\ s \in Sigs /\ s \notin claimed
      BY <1>1, <1>4, <1>6, <2>1
    <3>. QED  BY <1>1, <1>2, <2>1, <3>1 DEF ClaimExclusive
  <2>2. CASE d = c
    BY <1>1, <1>3, <1>6, <2>2
  <2>. QED  BY <2>1, <2>2
<1>. QED  BY <1>5, <1>6 DEF ClaimExclusive

LEMMA ExclusiveItemSettled ==
  ASSUME QueueInv, ClaimExclusive, NEW c \in Callers, MarkDone(c) \/ MarkProcessingFailure(c)
  PROVE  ClaimExclusive'
<1>. USE DEF QueueInv, TypeOK
<1>1. item[c] \in batch[c] /\ item[c] \in Sigs
  BY DEF MarkDone, MarkProcessingFailure, CallOK, ItemSteps
<1>2. PICK settled \in {"done", "failed_transient", "failed_terminal"} :
        status' = [status EXCEPT ![item[c]] = settled]
  BY DEF MarkDone, MarkProcessingFailure
<1>3. \A s \in Sigs : s # item[c] => status'[s] = status[s]
  BY <1>2
<1>4. \A s \in batch[c] : s # item[c] => status'[s] = "processing"
  BY <1>3 DEF ClaimExclusive
<1>5. CASE NextItem(c)
  <2>1. /\ \A d \in Callers \ {c} : pc'[d] = pc[d] /\ batch'[d] = batch[d] /\ item'[d] = item[d]
        /\ batch'[c] = batch[c] \ {item[c]}
    BY <1>5 DEF NextItem, Answered
  <2>2. \A s \in Sigs : s \notin batch[c] => status'[s] = status[s]
    BY <1>1, <1>3
  <2>3. batch'[c] \subseteq batch[c] /\ \A s \in batch'[c] : status'[s] = "processing"
    BY <1>4, <2>1
  <2>. QED  BY <2>1, <2>2, <2>3, ExclusiveStep
<1>6. CASE Reject(c) /\ MarkDone(c) /\ item' = item
  <2>1. /\ \A d \in Callers \ {c} : pc'[d] = pc[d] /\ batch'[d] = batch[d]
        /\ batch'[c] = batch[c] /\ pc'[c] = "markFailed"
    BY <1>6 DEF Reject, AfterThrow, MarkDone
  <2>2. status'[item[c]] = "done"
    BY <1>1, <1>6 DEF MarkDone
  <2>3. \A s \in Sigs : s \notin batch[c] => status'[s] = status[s]
    BY <1>1, <1>3
  <2>4. ASSUME NEW s \in batch'[c]
        PROVE  status'[s] = "processing"
                 \/ (status'[s] = "done" /\ s = item'[c] /\ pc'[c] = "markFailed")
    <3>1. CASE s = item[c]
      BY <1>6, <2>1, <2>2, <3>1
    <3>2. CASE s # item[c]
      BY <1>4, <2>1, <2>4, <3>2
    <3>. QED  BY <3>1, <3>2
  <2>5. \A d \in Callers \ {c} : item'[d] = item[d]
    BY <1>6
  <2>. QED  BY <2>1, <2>3, <2>4, <2>5, ExclusiveStep
<1>7. CASE Reject(c) /\ MarkProcessingFailure(c) /\ item' = [item EXCEPT ![c] = 0]
  <2>1. /\ \A d \in Callers \ {c} : pc'[d] = pc[d] /\ batch'[d] = batch[d] /\ item'[d] = item[d]
        /\ batch'[c] = {}
    BY <1>7 DEF Reject, AfterThrow, MarkProcessingFailure
  <2>. QED  BY <1>1, <1>3, <2>1, ExclusiveStep
<1>. QED  BY <1>5, <1>6, <1>7 DEF MarkDone, MarkProcessingFailure

\* An item's steps away from its own status: no row changes status, no batch changes.
LEMMA ExclusiveIdle ==
  ASSUME QueueInv, ClaimExclusive, NEW c \in Callers, pc[c] # "markFailed",
         status' = status, batch' = batch,
         \A d \in Callers \ {c} : pc'[d] = pc[d] /\ item'[d] = item[d]
  PROVE  ClaimExclusive'
<1>1. \A s \in batch[c] : status[s] = "processing"
  BY HeldProcessing
<1>. QED  BY <1>1, ExclusiveStep

LEMMA ExclusiveThrow ==
  ASSUME QueueInv, ClaimExclusive, NEW c \in Callers, Throw(c)
  PROVE  ClaimExclusive'
<1>. USE DEF QueueInv, TypeOK
<1>1. /\ status' = status
      /\ \A d \in Callers \ {c} : pc'[d] = pc[d] /\ batch'[d] = batch[d]
      /\ batch'[c] = batch[c] \/ batch'[c] = {}
  BY DEF Throw, Reject, queueVars
<1>2. \A d \in Callers \ {c} : item'[d] = item[d]
  BY DEF Throw
<1>3. CASE batch'[c] = {}
  BY <1>1, <1>2, <1>3, ExclusiveStep
<1>4. CASE batch'[c] = batch[c] /\ pc[c] # "markFailed"
  <2>1. \A s \in batch[c] : status[s] = "processing"
    BY <1>4, HeldProcessing
  <2>. QED  BY <1>1, <1>2, <1>4, <2>1, ExclusiveStep
<1>5. CASE pc[c] = "markFailed"
  BY <1>1, <1>3, <1>5 DEF Throw, Reject, AfterThrow
<1>. QED  BY <1>1, <1>3, <1>4, <1>5

LEMMA ExclusiveNext == QueueInv /\ ClaimExclusive /\ [Next]_vars => ClaimExclusive'
<1>. SUFFICES ASSUME QueueInv, ClaimExclusive, [Next]_vars
              PROVE  ClaimExclusive'
  OBVIOUS
<1>1. CASE status' = status /\ batch' = batch /\ pc' = pc /\ item' = item
  BY <1>1 DEF ClaimExclusive
<1>2. ASSUME Confirm \/ Finalize \/ BeginShutdown \/ StopWorker
             \/ (\E t \in Tables, s \in Sigs : OrphanEnds(t, s)) \/ UNCHANGED vars
      PROVE  ClaimExclusive'
  BY <1>1, <1>2 DEF Confirm, Finalize, BeginShutdown, StopWorker, ShutdownStep, OrphanEnds,
                    vars, queueVars, itemVars
<1>3. ASSUME NEW c \in Callers, Begin(c, "findState") \/ Begin(c, "claim")
      PROVE  ClaimExclusive'
  <2>1. /\ pc[c] # "markFailed" /\ status' = status /\ batch' = batch
        /\ \A d \in Callers \ {c} : pc'[d] = pc[d] /\ item'[d] = item[d]
    BY <1>3 DEF Begin, QueueInv, TypeOK, queueVars, itemVars
  <2>. QED  BY <2>1, ExclusiveIdle
<1>4. ASSUME NEW c \in Callers, GetTransaction(c) \/ \E t \in Tables : InsertRows(c, t)
      PROVE  ClaimExclusive'
  <2>1. /\ pc[c] # "markFailed" /\ status' = status /\ batch' = batch
        /\ \A d \in Callers \ {c} : pc'[d] = pc[d] /\ item'[d] = item[d]
    BY <1>4 DEF GetTransaction, InsertRows, QueueInv, TypeOK, queueVars
  <2>. QED  BY <2>1, ExclusiveIdle
<1>5. ASSUME NEW c \in Callers, Process(c)
      PROVE  ClaimExclusive'
  BY <1>4, <1>5, ExclusiveClaim, ExclusiveItemSettled DEF Process
<1>6. CASE Crash \/ Exit
  BY <1>6 DEF Crash, Exit, Restart, ClaimExclusive
<1>. QED
  BY <1>2, <1>3, <1>5, <1>6, ExclusiveDiscover, ExclusiveThrow
     DEF Next, Tick, RequestDiscover, RequestProcess

\* No signature is ever in the batch of two calls, and a claimed row stays
\* "processing" until the call that claimed it settles it.
THEOREM ClaimsExclusive == Spec => []ClaimExclusive
<1>1. Init => ClaimExclusive
  BY DEF Init, ClaimExclusive
<1>. QED  BY <1>1, QueueInit, QueueNext, ExclusiveNext, PTL DEF Spec

-----------------------------------------------------------------------------
(* What the pool tables hold.                                              *)

Indexable(s) == s <= finalized /\ kind[s] = "transact"
Indexed(s) == \A t \in Tables : s \in rows[t]

\* While c waits for its inserts the answered ones are stored; at markDone all are.
InsertsOK(c) ==
  /\ pc[c] = "insertRows" => /\ Indexable(item[c])
                             /\ \A t \in Tables \ awaiting[c] : item[c] \in rows[t]
  /\ pc[c] = "markDone" /\ kind[item[c]] = "transact" => Indexed(item[c])

PoolInv ==
  /\ NothingPremature
  /\ DoneIsIndexed
  /\ \A o \in orphans : Indexable(o[2])
  /\ \A c \in Callers : InsertsOK(c)

\* What a step is newly "done" with was indexed before it.
FreshDoneIndexed ==
  \A s \in Sigs : status'[s] = "done" => status[s] = "done" \/ (kind[s] = "transact" => Indexed(s))
CallKept(c) == pc'[c] = pc[c] /\ item'[c] = item[c] /\ awaiting'[c] = awaiting[c]
InsertsKept == \A c \in Callers : CallKept(c) \/ InsertsOK(c)'

\* A step that adds only rows of finalized pool transactions, marks done only what
\* is indexed, and keeps InsertsOK where it moves a caller.
LEMMA PoolStep ==
  ASSUME QueueInv, PoolInv, kind' = kind, finalized' \in Nat, finalized <= finalized',
         \A t \in Tables : /\ rows[t] \subseteq rows'[t]
                           /\ \A s \in rows'[t] : s \in rows[t] \/ Indexable(s),
         \A o \in orphans' : o \in orphans \/ Indexable(o[2]),
         rows' \in [Tables -> SUBSET Sigs], orphans' \subseteq Tables \X Sigs,
         FreshDoneIndexed, InsertsKept
  PROVE  PoolInv'
<1>. USE DEF QueueInv, TypeOK
<1>1. \A s \in Sigs : Indexable(s) => Indexable(s)'
  BY HistoryAssumption DEF Indexable
<1>2. \A s \in Sigs : Indexed(s) => Indexed(s)'
  BY DEF Indexed
<1>3. NothingPremature'
  BY <1>1 DEF NothingPremature, PoolInv, Indexable
<1>4. DoneIsIndexed'
  BY <1>2 DEF DoneIsIndexed, FreshDoneIndexed, PoolInv, Indexed
<1>5. \A o \in orphans' : Indexable(o[2])'
  <2>. TAKE o \in orphans'
  <2>1. o[2] \in Sigs
    OBVIOUS
  <2>. QED  BY <1>1, <2>1 DEF PoolInv
<1>6. ASSUME NEW c \in Callers
      PROVE  InsertsOK(c)'
  <2>1. CASE CallKept(c)
    <3>1. pc[c] \in ItemSteps => item[c] \in Sigs
      BY DEF CallOK
    <3>2. InsertsOK(c)
      BY DEF PoolInv
    <3>. QED  BY <1>1, <1>2, <2>1, <3>1, <3>2 DEF InsertsOK, ItemSteps, CallKept
  <2>. QED  BY <2>1 DEF InsertsKept
<1>. QED  BY <1>3, <1>4, <1>5, <1>6 DEF PoolInv

\* A step of c that leaves chain and tables alone and takes c out of the inserts.
LEMMA PoolCallStep ==
  ASSUME QueueInv, PoolInv, NEW c \in Callers,
         UNCHANGED <<kind, finalized, rows>>, pc'[c] \notin {"insertRows", "markDone"},
         \A d \in Callers \ {c} : CallKept(d),
         \/ orphans' = orphans
         \/ orphans' = orphans \union (awaiting[c] \X {item[c]}),
         FreshDoneIndexed
  PROVE  PoolInv'
<1>. USE DEF QueueInv, TypeOK
<1>1. \A o \in awaiting[c] \X {item[c]} : o \in Tables \X Sigs /\ Indexable(o[2])
  <2>1. CASE pc[c] = "insertRows"
    BY <2>1 DEF CallOK, ItemSteps, PoolInv, InsertsOK
  <2>2. CASE pc[c] # "insertRows"
    BY <2>2 DEF CallOK
  <2>. QED  BY <2>1, <2>2
<1>2. /\ orphans' \subseteq Tables \X Sigs
      /\ \A o \in orphans' : o \in orphans \/ Indexable(o[2])
  BY <1>1
<1>3. InsertsOK(c)'
  BY DEF InsertsOK
<1>4. finalized' \in Nat /\ finalized <= finalized'
  BY HistoryAssumption
<1>5. InsertsKept
  BY <1>3 DEF InsertsKept
<1>. QED  BY <1>2, <1>4, <1>5, PoolStep

LEMMA PoolDiscover ==
  ASSUME QueueInv, PoolInv, NEW c \in Callers, Discover(c)
  PROVE  PoolInv'
<1>1. FreshDoneIndexed
  BY DEF FreshDoneIndexed, QueueInv, TypeOK, Discover, FindState, GetSignatures,
         InsertSignatures, UpsertState, queueVars
<1>2. /\ UNCHANGED <<kind, finalized, rows>>
      /\ pc'[c] \notin {"insertRows", "markDone"}
  BY DEF QueueInv, TypeOK, Discover, FindState, GetSignatures, InsertSignatures, UpsertState,
         Answered, AfterDiscovery, Reject, AfterThrow, chainVars
<1>3. /\ \A d \in Callers \ {c} : CallKept(d)
      /\ \/ orphans' = orphans
         \/ orphans' = orphans \union (awaiting[c] \X {item[c]})
  BY DEF QueueInv, TypeOK, CallKept, Discover, FindState, GetSignatures, InsertSignatures,
         UpsertState, Answered, Reject, itemVars
<1>. QED  BY <1>1, <1>2, <1>3, PoolCallStep

LEMMA PoolClaim ==
  ASSUME QueueInv, PoolInv, NEW c \in Callers, ClaimPendingSignatures(c)
  PROVE  PoolInv'
<1>1. PICK limit \in ProcessingLimits :
        LET claimed == Lowest(limit, Claimable) IN
        /\ status' = [s \in Sigs |-> IF s \in claimed THEN "processing" ELSE status[s]]
        /\ Answered(c, IF claimed = {} THEN "idle" ELSE "getTransaction") \/ Reject(c)
  BY DEF ClaimPendingSignatures
<1>2. FreshDoneIndexed
  BY <1>1 DEF FreshDoneIndexed
<1>3. item' = item /\ pc[c] = "claim"
  BY DEF ClaimPendingSignatures
<1>4. UNCHANGED <<kind, finalized, rows>> /\ pc'[c] \notin {"insertRows", "markDone"}
  BY <1>1, <1>3 DEF QueueInv, TypeOK, Answered, Reject, AfterThrow, chainVars
<1>5. /\ \A d \in Callers \ {c} : CallKept(d)
      /\ \/ orphans' = orphans
         \/ orphans' = orphans \union (awaiting[c] \X {item[c]})
  BY <1>1, <1>3 DEF QueueInv, TypeOK, CallKept, Answered, Reject
<1>. QED  BY <1>2, <1>4, <1>5, PoolCallStep

LEMMA PoolThrow ==
  ASSUME QueueInv, PoolInv, NEW c \in Callers, Throw(c)
  PROVE  PoolInv'
<1>1. FreshDoneIndexed
  BY DEF FreshDoneIndexed, Throw, queueVars
<1>2. /\ UNCHANGED <<kind, finalized, rows>>
      /\ pc'[c] \notin {"insertRows", "markDone"}
      /\ orphans' = orphans \union (awaiting[c] \X {item[c]})
  BY DEF QueueInv, TypeOK, Throw, Reject, AfterThrow, chainVars
<1>3. \A d \in Callers \ {c} : item'[d] = item[d]
  BY DEF QueueInv, TypeOK, Throw
<1>4. \A d \in Callers \ {c} : CallKept(d)
  BY <1>3 DEF QueueInv, TypeOK, CallKept, Throw, Reject
<1>. QED  BY <1>1, <1>2, <1>4, PoolCallStep

LEMMA PoolGetTransaction ==
  ASSUME QueueInv, PoolInv, NEW c \in Callers, GetTransaction(c)
  PROVE  PoolInv'
<1>1. PICK s \in batch[c] :
        /\ item' = [item EXCEPT ![c] = s]
        /\ pc' = [pc EXCEPT ![c] = AfterTransaction(s)]
        /\ awaiting' = [awaiting EXCEPT ![c] =
                          IF AfterTransaction(s) = "insertRows" THEN Tables ELSE {}]
  BY DEF GetTransaction
<1>2. UNCHANGED <<kind, finalized, status, rows, orphans>>
  BY DEF GetTransaction, chainVars, queueVars
<1>3. InsertsOK(c)'
  BY <1>1, <1>2 DEF QueueInv, TypeOK, InsertsOK, Indexable, AfterTransaction, Found
<1>4. \A d \in Callers \ {c} : CallKept(d)
  BY <1>1 DEF QueueInv, TypeOK, CallKept
<1>5. InsertsKept /\ FreshDoneIndexed
  BY <1>2, <1>3, <1>4 DEF InsertsKept, FreshDoneIndexed
<1>6. /\ finalized' \in Nat /\ finalized <= finalized'
      /\ rows' \in [Tables -> SUBSET Sigs] /\ orphans' \subseteq Tables \X Sigs
  BY <1>2, HistoryAssumption DEF QueueInv, TypeOK
<1>. QED  BY <1>2, <1>5, <1>6, PoolStep

LEMMA PoolInsertRows ==
  ASSUME QueueInv, PoolInv, NEW c \in Callers, NEW t \in Tables, InsertRows(c, t)
  PROVE  PoolInv'
<1>1. /\ pc[c] = "insertRows"
      /\ rows' = [rows EXCEPT ![t] = @ \union {item[c]}]
      /\ awaiting' = [awaiting EXCEPT ![c] = awaiting[c] \ {t}]
      /\ pc' = [pc EXCEPT ![c] = IF awaiting[c] \ {t} = {} THEN "markDone" ELSE "insertRows"]
      /\ UNCHANGED <<kind, finalized, status, orphans, item>>
  BY DEF InsertRows, InsertsAnswered, chainVars, queueVars
<1>2. item[c] \in Sigs /\ Indexable(item[c])
  BY <1>1 DEF QueueInv, TypeOK, CallOK, ItemSteps, PoolInv, InsertsOK
<1>3. rows' \in [Tables -> SUBSET Sigs]
  BY <1>1, <1>2 DEF QueueInv, TypeOK
<1>4. \A u \in Tables : /\ rows[u] \subseteq rows'[u]
                        /\ \A s \in rows'[u] : s \in rows[u] \/ Indexable(s)
  BY <1>1, <1>2 DEF QueueInv, TypeOK
<1>5. \A u \in Tables \ (awaiting[c] \ {t}) : item[c] \in rows'[u]
  <2>1. \A u \in Tables \ awaiting[c] : item[c] \in rows[u]
    BY <1>1 DEF PoolInv, InsertsOK
  <2>. QED  BY <1>1, <2>1 DEF QueueInv, TypeOK
<1>6. InsertsOK(c)'
  BY <1>1, <1>2, <1>5 DEF QueueInv, TypeOK, InsertsOK, Indexable, Indexed
<1>7. \A d \in Callers \ {c} : CallKept(d)
  BY <1>1 DEF QueueInv, TypeOK, CallKept
<1>8. InsertsKept /\ FreshDoneIndexed
  BY <1>1, <1>6, <1>7 DEF InsertsKept, FreshDoneIndexed
<1>9. finalized' \in Nat /\ finalized <= finalized' /\ orphans' \subseteq Tables \X Sigs
  BY <1>1, HistoryAssumption DEF QueueInv, TypeOK
<1>. QED  BY <1>1, <1>3, <1>4, <1>8, <1>9, PoolStep

LEMMA PoolItemSettled ==
  ASSUME QueueInv, PoolInv, NEW c \in Callers, MarkDone(c) \/ MarkProcessingFailure(c)
  PROVE  PoolInv'
<1>1. item[c] \in Sigs
  BY DEF QueueInv, TypeOK, MarkDone, MarkProcessingFailure, CallOK, ItemSteps
<1>2. FreshDoneIndexed
  <2>1. CASE MarkDone(c)
    <3>1. kind[item[c]] = "transact" => Indexed(item[c])
      BY <2>1 DEF MarkDone, PoolInv, InsertsOK
    <3>2. status' = [status EXCEPT ![item[c]] = "done"]
      BY <2>1 DEF MarkDone
    <3>3. \A s \in Sigs : s # item[c] => status'[s] = status[s]
      BY <3>2 DEF QueueInv, TypeOK
    <3>. QED  BY <3>1, <3>3 DEF FreshDoneIndexed
  <2>2. CASE MarkProcessingFailure(c)
    <3>1. PICK failed \in {"failed_terminal", "failed_transient"} :
            status' = [status EXCEPT ![item[c]] = failed]
      BY <2>2 DEF MarkProcessingFailure
    <3>. QED  BY <1>1, <3>1 DEF FreshDoneIndexed, QueueInv, TypeOK
  <2>. QED  BY <2>1, <2>2
<1>3. CASE NextItem(c)
  <2>1. /\ UNCHANGED <<kind, finalized, rows, orphans>>
        /\ pc'[c] \notin {"insertRows", "markDone"}
        /\ \A d \in Callers \ {c} : CallKept(d)
    BY <1>3 DEF QueueInv, TypeOK, NextItem, Answered, CallKept, chainVars
  <2>. QED  BY <1>2, <2>1, PoolCallStep
<1>4. CASE Reject(c) /\ \A d \in Callers \ {c} : item'[d] = item[d]
  <2>1. /\ UNCHANGED <<kind, finalized, rows>>
        /\ pc'[c] \notin {"insertRows", "markDone"}
        /\ orphans' = orphans \union (awaiting[c] \X {item[c]})
        /\ \A d \in Callers \ {c} : CallKept(d)
    BY <1>4 DEF QueueInv, TypeOK, Reject, AfterThrow, CallKept, chainVars
  <2>. QED  BY <1>2, <2>1, PoolCallStep
<1>. QED  BY <1>3, <1>4 DEF QueueInv, TypeOK, MarkDone, MarkProcessingFailure

LEMMA PoolRestart ==
  ASSUME QueueInv, PoolInv, Restart
  PROVE  PoolInv'
<1>1. ASSUME NEW c \in Callers, NEW o \in awaiting[c] \X {item[c]}
      PROVE  o \in Tables \X Sigs /\ Indexable(o[2])
  <2>. USE DEF QueueInv, TypeOK
  <2>1. CASE pc[c] = "insertRows"
    BY <1>1, <2>1 DEF CallOK, ItemSteps, PoolInv, InsertsOK
  <2>2. CASE pc[c] # "insertRows"
    BY <1>1, <2>2 DEF CallOK
  <2>. QED  BY <2>1, <2>2
<1>2. /\ orphans' \subseteq Tables \X Sigs
      /\ \A o \in orphans' : o \in orphans \/ Indexable(o[2])
  BY <1>1 DEF Restart, QueueInv, TypeOK
<1>3. UNCHANGED <<kind, finalized, status, rows>> /\ \A c \in Callers : InsertsOK(c)'
  BY DEF Restart, InsertsOK, chainVars, queueVars
<1>4. InsertsKept /\ FreshDoneIndexed
  BY <1>3 DEF InsertsKept, FreshDoneIndexed
<1>5. finalized' \in Nat /\ finalized <= finalized' /\ rows' \in [Tables -> SUBSET Sigs]
  BY <1>3, HistoryAssumption DEF QueueInv, TypeOK
<1>. QED  BY <1>2, <1>3, <1>4, <1>5, PoolStep

LEMMA PoolNext == QueueInv /\ PoolInv /\ [Next]_vars => PoolInv'
<1>. SUFFICES ASSUME QueueInv, PoolInv, [Next]_vars
              PROVE  PoolInv'
  OBVIOUS
<1>1. ASSUME UNCHANGED <<kind, status, pc, item, awaiting>>
      PROVE  InsertsKept /\ FreshDoneIndexed
  BY <1>1 DEF InsertsKept, CallKept, FreshDoneIndexed
<1>2. CASE Confirm \/ Finalize \/ BeginShutdown \/ StopWorker \/ UNCHANGED vars
  <2>1. UNCHANGED <<kind, status, rows, orphans, pc, item, awaiting>>
    BY <1>2 DEF Confirm, Finalize, BeginShutdown, StopWorker, ShutdownStep, vars, chainVars,
                queueVars, itemVars
  <2>2. finalized' \in Nat /\ finalized <= finalized'
    BY <1>2, HistoryAssumption DEF QueueInv, TypeOK, Confirm, Finalize, BeginShutdown,
                                   StopWorker, ShutdownStep, vars, chainVars
  <2>3. rows' \in [Tables -> SUBSET Sigs] /\ orphans' \subseteq Tables \X Sigs
    BY <2>1 DEF QueueInv, TypeOK
  <2>. QED  BY <1>1, <2>1, <2>2, <2>3, PoolStep
<1>3. ASSUME NEW t \in Tables, NEW s \in Sigs, OrphanEnds(t, s)
      PROVE  PoolInv'
  <2>1. Indexable(s)
    BY <1>3 DEF OrphanEnds, PoolInv
  <2>2. /\ UNCHANGED <<kind, finalized, status, pc, item, awaiting>>
        /\ orphans' \subseteq Tables \X Sigs /\ orphans' \subseteq orphans
    BY <1>3 DEF OrphanEnds, chainVars, queueVars, itemVars, QueueInv, TypeOK
  <2>3. finalized' \in Nat /\ finalized <= finalized'
    BY <2>2, HistoryAssumption DEF QueueInv, TypeOK
  <2>4. CASE rows' = rows
    <3>1. rows' \in [Tables -> SUBSET Sigs]
      BY <2>4 DEF QueueInv, TypeOK
    <3>. QED  BY <1>1, <2>2, <2>3, <2>4, <3>1, PoolStep
  <2>5. CASE rows' = [rows EXCEPT ![t] = rows[t] \union {s}]
    <3>1. rows' \in [Tables -> SUBSET Sigs]
      BY <2>5 DEF QueueInv, TypeOK
    <3>2. \A u \in Tables : /\ rows[u] \subseteq rows'[u]
                            /\ \A r \in rows'[u] : r \in rows[u] \/ Indexable(r)
      BY <2>1, <2>5 DEF QueueInv, TypeOK
    <3>. QED  BY <1>1, <2>2, <2>3, <3>1, <3>2, PoolStep
  <2>. QED  BY <1>3, <2>4, <2>5 DEF OrphanEnds
<1>4. ASSUME NEW c \in Callers, Begin(c, "findState") \/ Begin(c, "claim")
      PROVE  PoolInv'
  <2>1. /\ UNCHANGED <<kind, finalized, status, rows, orphans>>
        /\ pc'[c] \notin {"insertRows", "markDone"} /\ \A d \in Callers \ {c} : CallKept(d)
    BY <1>4 DEF Begin, CallKept, chainVars, queueVars, itemVars, QueueInv, TypeOK
  <2>2. FreshDoneIndexed
    BY <2>1 DEF FreshDoneIndexed
  <2>. QED  BY <2>1, <2>2, PoolCallStep
<1>5. ASSUME NEW c \in Callers, Process(c)
      PROVE  PoolInv'
  BY <1>5, PoolClaim, PoolGetTransaction, PoolInsertRows, PoolItemSettled DEF Process
<1>6. CASE Crash \/ Exit
  BY <1>6, PoolRestart DEF Crash, Exit
<1>. QED
  BY <1>2, <1>3, <1>4, <1>5, <1>6, PoolDiscover, PoolThrow
     DEF Next, Tick, RequestDiscover, RequestProcess

LEMMA PoolInit == Init => PoolInv
BY DEF Init, PoolInv, NothingPremature, DoneIsIndexed, InsertsOK

\* Only transactions that succeeded at finalized commitment reach the pool tables.
THEOREM NeverPremature == Spec => []NothingPremature
<1>1. PoolInv => NothingPremature
  BY DEF PoolInv
<1>. QED  BY <1>1, QueueInit, PoolInit, QueueNext, PoolNext, PTL DEF Spec

\* A signature marked done has all its rows in every table.
THEOREM DoneHasItsRows == Spec => []DoneIsIndexed
<1>1. PoolInv => DoneIsIndexed
  BY DEF PoolInv
<1>. QED  BY <1>1, QueueInit, PoolInit, QueueNext, PoolNext, PTL DEF Spec

-----------------------------------------------------------------------------
(* The watermark.  A discovery carries what it has seen across its awaits: *)
(* everything up to the watermark it started from is recorded, and so is   *)
(* everything below its page that is not in the page.                      *)

Recorded(s) == status[s] # "unseen" \/ s \in omitted

DiscoveryOK(c) ==
  /\ pc[c] = "getSignatures" => \A s \in 1..until[c] : Recorded(s)
  /\ pc[c] \in PageSteps => \A n \in page[c] : \A s \in 1..n : Recorded(s) \/ s \in page[c]
  /\ pc[c] = "upsertState" => \A s \in page[c] : Recorded(s)

DiscoveryInv == WatermarkCovered /\ \A c \in Callers : DiscoveryOK(c)

\* What a step owes to the invariant: it unrecords nothing, and it leaves the
\* locals of a discovery under way as they are.
RecordsKept == \A s \in Sigs : Recorded(s) => Recorded(s)'
DiscoveryKept(c) ==
  pc'[c] \in PageSteps \union {"getSignatures"} =>
    pc'[c] = pc[c] /\ until'[c] = until[c] /\ page'[c] = page[c]

LEMMA DiscoveryKeeps ==
  ASSUME QueueInv, DiscoveryInv, RecordsKept, NEW c \in Callers, DiscoveryKept(c)
  PROVE  DiscoveryOK(c)'
<1>1. DiscoveryOK(c)
  BY DEF DiscoveryInv
<1>2. MaxTx \in Nat /\ until[c] \in 0..MaxTx /\ page[c] \subseteq Sigs
  BY HistoryAssumption DEF QueueInv, TypeOK
<1>3. \A s \in 1..until[c] : Recorded(s) => Recorded(s)'
  BY <1>2 DEF RecordsKept
<1>4. \A n \in page[c] : \A s \in 1..n : Recorded(s) => Recorded(s)'
  BY <1>2 DEF RecordsKept
<1>5. \A s \in page[c] : Recorded(s) => Recorded(s)'
  BY <1>2 DEF RecordsKept
<1>. HIDE DEF Sigs
<1>. QED  BY <1>1, <1>3, <1>4, <1>5 DEF DiscoveryOK, DiscoveryKept, PageSteps

LEMMA WatermarkKeeps ==
  ASSUME QueueInv, DiscoveryInv, RecordsKept, UNCHANGED watermark
  PROVE  WatermarkCovered'
<1>1. 1..watermark \subseteq Sigs
  BY HistoryAssumption DEF QueueInv, TypeOK
<1>2. \A s \in 1..watermark : Recorded(s)
  BY DEF DiscoveryInv, WatermarkCovered, Recorded
<1>. QED  BY <1>1, <1>2 DEF RecordsKept, WatermarkCovered, Recorded

LEMMA DiscoveryStep ==
  ASSUME QueueInv, DiscoveryInv, RecordsKept, UNCHANGED watermark,
         \A c \in Callers : DiscoveryKept(c)
  PROVE  DiscoveryInv'
BY DiscoveryKeeps, WatermarkKeeps DEF DiscoveryInv

LEMMA DiscoveryCallStep ==
  ASSUME QueueInv, DiscoveryInv, RecordsKept, WatermarkCovered',
         NEW c \in Callers, DiscoveryOK(c)', \A d \in Callers \ {c} : DiscoveryKept(d)
  PROVE  DiscoveryInv'
BY DiscoveryKeeps DEF DiscoveryInv

\* A rejection ends the discovery it hits, whatever its write did before.
LEMMA RejectEndsDiscovery ==
  ASSUME QueueInv, NEW c \in Callers, Reject(c)
  PROVE  DiscoveryOK(c)' /\ \A d \in Callers \ {c} : DiscoveryKept(d)
BY DEF Reject, AfterThrow, DiscoveryOK, DiscoveryKept, PageSteps, QueueInv, TypeOK

LEMMA DiscoveryFindState ==
  ASSUME QueueInv, DiscoveryInv, NEW c \in Callers, FindState(c)
  PROVE  DiscoveryInv'
<1>1. RecordsKept /\ UNCHANGED watermark
  BY DEF FindState, Answered, RecordsKept, Recorded, queueVars
<1>2. \A d \in Callers \ {c} : DiscoveryKept(d)
  BY DEF FindState, Answered, DiscoveryKept, QueueInv, TypeOK
<1>3. pc'[c] = "getSignatures" /\ until'[c] = watermark /\ UNCHANGED <<status, omitted>>
  BY DEF FindState, Answered, QueueInv, TypeOK, queueVars
<1>4. DiscoveryOK(c)'
  BY <1>3 DEF DiscoveryInv, WatermarkCovered, DiscoveryOK, Recorded, PageSteps
<1>. QED  BY <1>1, <1>2, <1>4, WatermarkKeeps, DiscoveryCallStep

LEMMA DiscoveryGetSignatures ==
  ASSUME QueueInv, DiscoveryInv, NEW c \in Callers, GetSignatures(c)
  PROVE  DiscoveryInv'
<1>1. PICK limit \in DiscoveryLimits :
        /\ page' = [page EXCEPT ![c] = Page(until[c], limit)]
        /\ omitted' = omitted \union {s \in (until[c] + 1)..confirmed : s <= confirmed - limit}
        /\ pc' = [pc EXCEPT ![c] = IF Page(until[c], limit) = {} THEN AfterDiscovery(c)
                                   ELSE "insertSignatures"]
  BY DEF GetSignatures
<1>2. /\ limit \in Nat /\ confirmed \in Nat /\ until[c] \in Nat
      /\ UNCHANGED <<status, watermark>> /\ pc[c] = "getSignatures"
  BY LimitsAssumption, HistoryAssumption DEF QueueInv, TypeOK, GetSignatures, queueVars
<1>3. RecordsKept
  BY <1>1, <1>2 DEF RecordsKept, Recorded
<1>4. \A d \in Callers \ {c} : DiscoveryKept(d)
  BY <1>1 DEF GetSignatures, DiscoveryKept, QueueInv, TypeOK
<1>5. page'[c] = Page(until[c], limit) /\ pc'[c] \notin {"getSignatures", "upsertState"}
  BY <1>1 DEF AfterDiscovery, QueueInv, TypeOK
<1>6. \A s \in 1..until[c] : Recorded(s)
  BY <1>2 DEF DiscoveryInv, DiscoveryOK
<1>7. ASSUME NEW n \in page'[c], NEW s \in 1..n
      PROVE  Recorded(s)' \/ s \in page'[c]
  <2>1. n \in Int /\ s \in Int /\ 1 <= s /\ s <= confirmed
    BY <1>2, <1>5, <1>7 DEF Page
  <2>2. CASE s <= until[c]
    BY <1>1, <1>2, <1>6, <2>1, <2>2 DEF Recorded
  <2>3. CASE s > until[c] /\ s > confirmed - limit
    BY <1>2, <1>5, <2>1, <2>3 DEF Page
  <2>4. CASE s > until[c] /\ s <= confirmed - limit
    BY <1>1, <1>2, <2>1, <2>4 DEF Recorded
  <2>. QED  BY <1>2, <2>1, <2>2, <2>3, <2>4
<1>8. DiscoveryOK(c)'
  BY <1>5, <1>7 DEF DiscoveryOK
<1>. QED  BY <1>2, <1>3, <1>4, <1>8, WatermarkKeeps, DiscoveryCallStep

LEMMA DiscoveryInsertSignatures ==
  ASSUME QueueInv, DiscoveryInv, NEW c \in Callers, InsertSignatures(c)
  PROVE  DiscoveryInv'
<1>1. /\ status' = [s \in Sigs |-> IF s \in page[c] /\ status[s] = "unseen"
                                     THEN "pending" ELSE status[s]]
      /\ UNCHANGED <<watermark, omitted>> /\ pc[c] = "insertSignatures"
  BY DEF InsertSignatures, Answered, Reject
<1>2. RecordsKept
  BY <1>1 DEF RecordsKept, Recorded
<1>3. CASE Reject(c)
  BY <1>1, <1>2, <1>3, RejectEndsDiscovery, WatermarkKeeps, DiscoveryCallStep
<1>4. CASE Answered(c, "upsertState") /\ UNCHANGED <<pageVars, batch>>
  <2>1. /\ pc'[c] = "upsertState" /\ page'[c] = page[c]
        /\ \A d \in Callers \ {c} : DiscoveryKept(d)
    BY <1>4 DEF Answered, DiscoveryKept, pageVars, QueueInv, TypeOK
  <2>2. MaxTx \in Nat /\ page[c] \subseteq Sigs
    BY HistoryAssumption DEF QueueInv, TypeOK
  <2>3. \A s \in page[c] : Recorded(s)'
    BY <1>1, <2>2 DEF Recorded
  <2>4. \A n \in page[c] : \A s \in 1..n : Recorded(s) \/ s \in page[c]
    BY <1>1 DEF DiscoveryInv, DiscoveryOK, PageSteps
  <2>5. \A n \in page[c] : \A s \in 1..n : Recorded(s)'
    <3>1. \A n \in page[c] : \A s \in 1..n : s \in Sigs
      BY <2>2
    <3>. HIDE DEF Sigs
    <3>. QED  BY <1>2, <2>3, <2>4, <3>1 DEF RecordsKept
  <2>6. DiscoveryOK(c)'
    BY <2>1, <2>3, <2>5 DEF DiscoveryOK
  <2>. QED  BY <1>1, <1>2, <2>1, <2>6, WatermarkKeeps, DiscoveryCallStep
<1>. QED  BY <1>3, <1>4 DEF InsertSignatures

\* The only write of the watermark: everything up to the newest signature of the
\* page is recorded, the page itself by the insert that came before.
LEMMA DiscoveryUpsertState ==
  ASSUME QueueInv, DiscoveryInv, NEW c \in Callers, UpsertState(c)
  PROVE  DiscoveryInv'
<1>1. /\ watermark' = Newest(page[c]) /\ pc[c] = "upsertState"
      /\ UNCHANGED <<status, omitted>>
  BY DEF UpsertState, Answered, Reject, queueVars
<1>2. RecordsKept
  BY <1>1 DEF RecordsKept, Recorded
<1>3. HasNewest(page[c]) /\ page[c] \subseteq Int /\ confirmed \in Int
  BY <1>1, HistoryAssumption DEF QueueInv, TypeOK, CallOK, PageSteps
<1>4. Newest(page[c]) \in page[c]
  BY <1>3, NewestIsMember
<1>5. \A s \in 1..Newest(page[c]) : Recorded(s)
  <2>1. /\ \A n \in page[c] : \A s \in 1..n : Recorded(s) \/ s \in page[c]
        /\ \A s \in page[c] : Recorded(s)
    BY <1>1 DEF DiscoveryInv, DiscoveryOK, PageSteps
  <2>. QED  BY <1>4, <2>1
<1>6. WatermarkCovered'
  BY <1>1, <1>5 DEF WatermarkCovered, Recorded
<1>7. DiscoveryOK(c)' /\ \A d \in Callers \ {c} : DiscoveryKept(d)
  <2>1. CASE Reject(c)
    BY <2>1, RejectEndsDiscovery
  <2>2. CASE /\ Answered(c, AfterDiscovery(c)) /\ page' = [page EXCEPT ![c] = {}]
             /\ UNCHANGED <<until, batch>>
    <3>1. pc'[c] \notin PageSteps \union {"getSignatures"}
      BY <2>2 DEF Answered, AfterDiscovery, PageSteps, QueueInv, TypeOK
    <3>2. \A d \in Callers \ {c} : DiscoveryKept(d)
      BY <2>2 DEF Answered, DiscoveryKept, QueueInv, TypeOK
    <3>. QED  BY <3>1, <3>2 DEF DiscoveryOK, PageSteps
  <2>. QED  BY <2>1, <2>2 DEF UpsertState
<1>. QED  BY <1>2, <1>6, <1>7, DiscoveryCallStep

\* Claiming and settling change statuses, and never back to "unseen".
LEMMA DiscoveryProcess ==
  ASSUME QueueInv, DiscoveryInv, NEW c \in Callers, Process(c)
  PROVE  DiscoveryInv'
<1>. SUFFICES /\ RecordsKept /\ watermark' = watermark
              /\ DiscoveryOK(c)' /\ \A d \in Callers \ {c} : DiscoveryKept(d)
  BY WatermarkKeeps, DiscoveryCallStep
<1>1. ASSUME NEW next \in {"idle", "getTransaction", "markFailed", "insertRows", "markDone"},
             pc' = [pc EXCEPT ![c] = next], UNCHANGED pageVars
      PROVE  DiscoveryOK(c)' /\ \A d \in Callers \ {c} : DiscoveryKept(d)
  BY <1>1 DEF DiscoveryOK, DiscoveryKept, PageSteps, pageVars, QueueInv, TypeOK
<1>2. CASE ClaimPendingSignatures(c)
  <2>1. PICK limit \in ProcessingLimits :
          /\ status' = [s \in Sigs |-> IF s \in Lowest(limit, Claimable)
                                         THEN "processing" ELSE status[s]]
          /\ \/ /\ Answered(c, IF Lowest(limit, Claimable) = {} THEN "idle" ELSE "getTransaction")
                /\ UNCHANGED pageVars
             \/ Reject(c)
    BY <1>2 DEF ClaimPendingSignatures
  <2>2. omitted' = omitted /\ watermark' = watermark
    BY <1>2 DEF ClaimPendingSignatures, Answered, Reject
  <2>3. RecordsKept
    BY <2>1, <2>2 DEF RecordsKept, Recorded
  <2>. QED  BY <1>1, <2>1, <2>2, <2>3, RejectEndsDiscovery DEF Answered
<1>3. CASE GetTransaction(c)
  <2>1. RecordsKept /\ watermark' = watermark /\ UNCHANGED pageVars
    BY <1>3 DEF GetTransaction, RecordsKept, Recorded, queueVars
  <2>2. PICK s \in batch[c] : pc' = [pc EXCEPT ![c] = AfterTransaction(s)]
    BY <1>3 DEF GetTransaction
  <2>3. AfterTransaction(s) \in {"markFailed", "insertRows", "markDone"}
    BY DEF AfterTransaction
  <2>. QED  BY <1>1, <2>1, <2>2, <2>3
<1>4. CASE \E t \in Tables : InsertRows(c, t)
  <2>1. RecordsKept /\ watermark' = watermark /\ UNCHANGED pageVars
    BY <1>4 DEF InsertRows, RecordsKept, Recorded, queueVars
  <2>2. \E next \in {"insertRows", "markDone"} : pc' = [pc EXCEPT ![c] = next]
    BY <1>4 DEF InsertRows
  <2>. QED  BY <1>1, <2>1, <2>2
<1>5. CASE MarkDone(c) \/ MarkProcessingFailure(c)
  <2>1. /\ \E settled \in Statuses \ {"unseen"} : status' = [status EXCEPT ![item[c]] = settled]
        /\ NextItem(c) \/ Reject(c)
        /\ watermark' = watermark
    BY <1>5 DEF MarkDone, MarkProcessingFailure
  <2>2. omitted' = omitted
    BY <2>1 DEF NextItem, Answered, Reject
  <2>3. RecordsKept
    BY <2>1, <2>2 DEF RecordsKept, Recorded, QueueInv, TypeOK
  <2>4. CASE NextItem(c)
    BY <1>1, <2>1, <2>3, <2>4 DEF NextItem, Answered
  <2>5. CASE Reject(c)
    BY <2>1, <2>3, <2>5, RejectEndsDiscovery
  <2>. QED  BY <2>1, <2>4, <2>5
<1>. QED  BY <1>2, <1>3, <1>4, <1>5 DEF Process

LEMMA DiscoveryNext == QueueInv /\ DiscoveryInv /\ [Next]_vars => DiscoveryInv'
<1>. SUFFICES ASSUME QueueInv, DiscoveryInv, [Next]_vars
              PROVE  DiscoveryInv'
  OBVIOUS
<1>1. ASSUME UNCHANGED <<status, omitted, watermark, pc, until, page>>
      PROVE  DiscoveryInv'
  <2>1. RecordsKept /\ \A c \in Callers : DiscoveryKept(c)
    BY <1>1 DEF RecordsKept, Recorded, DiscoveryKept
  <2>. QED  BY <1>1, <2>1, DiscoveryStep
<1>2. CASE Confirm \/ Finalize \/ BeginShutdown \/ StopWorker \/ UNCHANGED vars
  BY <1>1, <1>2 DEF Confirm, Finalize, BeginShutdown, StopWorker, ShutdownStep, vars,
                    queueVars, pageVars
<1>3. CASE \E t \in Tables, s \in Sigs : OrphanEnds(t, s)
  BY <1>1, <1>3 DEF OrphanEnds, queueVars, pageVars
<1>4. ASSUME NEW c \in Callers, NEW await \in {"findState", "claim"}, Begin(c, await)
      PROVE  DiscoveryInv'
  <2>1. RecordsKept /\ UNCHANGED watermark
    BY <1>4 DEF Begin, RecordsKept, Recorded, queueVars
  <2>2. \A d \in Callers : DiscoveryKept(d)
    BY <1>4 DEF Begin, DiscoveryKept, PageSteps, pageVars, QueueInv, TypeOK
  <2>. QED  BY <2>1, <2>2, DiscoveryStep
<1>5. ASSUME NEW c \in Callers, Throw(c)
      PROVE  DiscoveryInv'
  <2>1. RecordsKept /\ UNCHANGED watermark /\ Reject(c)
    BY <1>5 DEF Throw, Reject, RecordsKept, Recorded, queueVars
  <2>. QED  BY <2>1, RejectEndsDiscovery, WatermarkKeeps, DiscoveryCallStep
<1>6. ASSUME NEW c \in Callers, Discover(c)
      PROVE  DiscoveryInv'
  BY <1>6, DiscoveryFindState, DiscoveryGetSignatures, DiscoveryInsertSignatures,
     DiscoveryUpsertState DEF Discover
<1>7. CASE Crash \/ Exit
  <2>1. RecordsKept /\ UNCHANGED watermark
    BY <1>7 DEF Crash, Exit, Restart, RecordsKept, Recorded, queueVars
  <2>2. \A c \in Callers : DiscoveryKept(c)
    BY <1>7 DEF Crash, Exit, Restart, DiscoveryKept, PageSteps
  <2>. QED  BY <2>1, <2>2, DiscoveryStep
<1>. QED
  BY <1>2, <1>3, <1>4, <1>5, <1>6, <1>7, DiscoveryProcess
     DEF Next, Tick, RequestDiscover, RequestProcess

LEMMA DiscoveryInit == Init => DiscoveryInv
BY DEF Init, DiscoveryInv, WatermarkCovered, DiscoveryOK, PageSteps

\* No signature is skipped: whatever discoveries interleave, fail or are killed
\* between their two writes, all up to the watermark is recorded, but for what a
\* full page left out.
THEOREM NothingSkipped == Spec => []WatermarkCovered
<1>1. DiscoveryInv => WatermarkCovered
  BY DEF DiscoveryInv
<1>. QED  BY <1>1, QueueInit, DiscoveryInit, QueueNext, DiscoveryNext, PTL DEF Spec

-----------------------------------------------------------------------------
(* What is settled stays settled.  Only the call that holds a done row can *)
(* take it back, and it holds one only after the answer to its markDone    *)
(* was lost.                                                               *)

LostAnswer == \A c \in Callers : \A s \in batch[c] : status[s] = "done" => faults > 0

SettledKept ==
  /\ \A t \in Tables : rows[t] \subseteq rows'[t]
  /\ \A s \in Sigs : /\ status[s] = "failed_terminal" => status'[s] = "failed_terminal"
                     /\ status[s] = "done" /\ status'[s] # "done" => faults > 0

\* A step of anything but the two writes that settle an item.
LEMMA SettledStep ==
  ASSUME QueueInv, LostAnswer, faults' \in Nat, faults <= faults',
         \A t \in Tables : rows[t] \subseteq rows'[t],
         \A s \in Sigs : \/ status'[s] = status[s]
                         \/ /\ status[s] \notin {"done", "failed_terminal"}
                            /\ status'[s] # "done",
         \A c \in Callers : /\ batch'[c] \subseteq Sigs
                            /\ \A s \in batch'[c] : s \in batch[c] \/ status'[s] # "done"
  PROVE  LostAnswer' /\ SettledKept
<1>1. faults \in Nat
  BY BudgetAssumption DEF QueueInv, TypeOK
<1>2. SettledKept
  BY DEF SettledKept
<1>3. ASSUME NEW c \in Callers, NEW s \in batch'[c], status'[s] = "done"
      PROVE  faults' > 0
  <2>1. s \in batch[c] /\ s \in Sigs
    BY <1>3
  <2>2. status[s] = "done"
    BY <1>3, <2>1
  <2>. QED  BY <1>1, <2>1, <2>2 DEF LostAnswer
<1>. QED  BY <1>2, <1>3 DEF LostAnswer

LEMMA SettledItem ==
  ASSUME QueueInv, ClaimExclusive, LostAnswer, NEW c \in Callers,
         MarkDone(c) \/ MarkProcessingFailure(c)
  PROVE  LostAnswer' /\ SettledKept
<1>1. /\ item[c] \in batch[c] /\ batch[c] \subseteq Sigs
      /\ faults \in Nat /\ status \in [Sigs -> Statuses]
  BY BudgetAssumption DEF QueueInv, TypeOK, CallOK, ItemSteps, MarkDone, MarkProcessingFailure
<1>2. PICK settled : /\ status' = [status EXCEPT ![item[c]] = settled]
                     /\ MarkDone(c) \/ settled # "done"
  BY DEF MarkDone, MarkProcessingFailure
<1>3. status[item[c]] = "processing" \/ (status[item[c]] = "done" /\ faults > 0)
  BY <1>1 DEF ClaimExclusive, LostAnswer
<1>4. UNCHANGED rows /\ (NextItem(c) \/ Reject(c))
  BY DEF MarkDone, MarkProcessingFailure, NextItem, Answered, Reject
<1>5. SettledKept
  BY <1>1, <1>2, <1>3, <1>4 DEF SettledKept
<1>6. \A d \in Callers \ {c} : batch'[d] = batch[d] /\ item[c] \notin batch[d]
  BY <1>1, <1>4 DEF NextItem, Reject, ClaimExclusive, QueueInv, TypeOK
<1>7. CASE NextItem(c)
  <2>1. faults' = faults /\ batch'[c] = batch[c] \ {item[c]}
    BY <1>7 DEF NextItem, Answered, QueueInv, TypeOK
  <2>2. \A d \in Callers : batch'[d] \subseteq batch[d] \ {item[c]} /\ batch[d] \subseteq Sigs
    BY <1>6, <2>1 DEF QueueInv, TypeOK
  <2>3. \A d \in Callers : \A s \in batch'[d] : status'[s] = status[s]
    BY <1>1, <1>2, <2>2
  <2>. QED  BY <1>5, <2>1, <2>2, <2>3 DEF LostAnswer
<1>8. CASE Reject(c)
  BY <1>1, <1>5, <1>8 DEF Reject, LostAnswer
<1>. QED  BY <1>4, <1>7, <1>8

LEMMA SettledNext ==
  QueueInv /\ ClaimExclusive /\ LostAnswer /\ [Next]_vars => LostAnswer' /\ SettledKept
<1>. SUFFICES ASSUME QueueInv, ClaimExclusive, LostAnswer, [Next]_vars
              PROVE  LostAnswer' /\ SettledKept
  OBVIOUS
<1>1. /\ faults \in Nat /\ rows \in [Tables -> SUBSET Sigs] /\ status \in [Sigs -> Statuses]
      /\ batch \in [Callers -> SUBSET Sigs] /\ item \in [Callers -> 0..MaxTx]
      /\ MaxTx \in Nat
  BY BudgetAssumption, HistoryAssumption DEF QueueInv, TypeOK
<1>2. ASSUME UNCHANGED <<status, rows, batch>>, faults' \in Nat, faults <= faults'
      PROVE  LostAnswer' /\ SettledKept
  BY <1>1, <1>2, SettledStep
<1>3. CASE Confirm \/ Finalize \/ BeginShutdown \/ StopWorker \/ UNCHANGED vars
  BY <1>1, <1>2, <1>3 DEF Confirm, Finalize, BeginShutdown, StopWorker, ShutdownStep, vars,
                          queueVars
<1>4. ASSUME NEW c \in Callers, Begin(c, "findState") \/ Begin(c, "claim")
      PROVE  LostAnswer' /\ SettledKept
  BY <1>1, <1>2, <1>4 DEF Begin, queueVars
<1>5. ASSUME NEW c \in Callers, Reject(c)
      PROVE  /\ faults' \in Nat /\ faults <= faults' /\ UNCHANGED rows
             /\ \A d \in Callers : batch'[d] \subseteq batch[d]
  BY <1>1, <1>5 DEF Reject
<1>6. ASSUME NEW c \in Callers, Throw(c)
      PROVE  LostAnswer' /\ SettledKept
  <2>1. Reject(c) /\ UNCHANGED status
    BY <1>6 DEF Throw, queueVars
  <2>. QED  BY <1>1, <1>5, <2>1, SettledStep
<1>7. ASSUME NEW c \in Callers, Discover(c)
      PROVE  LostAnswer' /\ SettledKept
  <2>1. \A s \in Sigs : \/ status'[s] = status[s]
                        \/ status[s] = "unseen" /\ status'[s] = "pending"
    BY <1>7 DEF Discover, FindState, GetSignatures, InsertSignatures, UpsertState, queueVars
  <2>2. UNCHANGED <<rows, faults, batch>> \/ Reject(c)
    BY <1>7 DEF Discover, FindState, GetSignatures, InsertSignatures, UpsertState, Answered
  <2>. QED  BY <1>1, <1>5, <2>1, <2>2, SettledStep
<1>8. ASSUME NEW c \in Callers, ClaimPendingSignatures(c)
      PROVE  LostAnswer' /\ SettledKept
  <2>1. PICK limit \in ProcessingLimits :
          /\ status' = [s \in Sigs |-> IF s \in Lowest(limit, Claimable)
                                         THEN "processing" ELSE status[s]]
          /\ \/ /\ Answered(c, IF Lowest(limit, Claimable) = {} THEN "idle" ELSE "getTransaction")
                /\ batch' = [batch EXCEPT ![c] = Lowest(limit, Claimable)]
             \/ Reject(c)
    BY <1>8 DEF ClaimPendingSignatures
  <2>2. \A s \in Lowest(limit, Claimable) : s \in Sigs /\ status[s] \in ClaimableStatuses
    BY DEF Lowest, Claimable
  <2>3. \A s \in Sigs : \/ status'[s] = status[s]
                        \/ /\ status[s] \notin {"done", "failed_terminal"}
                           /\ status'[s] # "done"
    BY <2>1, <2>2 DEF ClaimableStatuses
  <2>4. CASE Reject(c)
    BY <1>1, <1>5, <2>3, <2>4, SettledStep
  <2>5. CASE /\ UNCHANGED <<rows, faults>>
             /\ batch' = [batch EXCEPT ![c] = Lowest(limit, Claimable)]
    <3>1. ASSUME NEW d \in Callers
          PROVE  /\ batch'[d] \subseteq Sigs
                 /\ \A s \in batch'[d] : s \in batch[d] \/ status'[s] # "done"
      <4>1. CASE d = c
        <5>1. batch'[d] = Lowest(limit, Claimable)
          BY <1>1, <2>5, <4>1
        <5>2. \A s \in Lowest(limit, Claimable) : s \in Sigs /\ status'[s] = "processing"
          BY <2>1, <2>2
        <5>. QED  BY <5>1, <5>2
      <4>2. CASE d # c
        BY <1>1, <2>5, <4>2
      <4>. QED  BY <4>1, <4>2
    <3>2. /\ faults' \in Nat /\ faults <= faults'
          /\ \A t \in Tables : rows[t] \subseteq rows'[t]
      BY <1>1, <2>5
    <3>. HIDE DEF Sigs, Callers
    <3>. QED  BY <2>3, <3>1, <3>2, SettledStep
  <2>. QED  BY <2>1, <2>4, <2>5 DEF Answered
<1>9. ASSUME NEW c \in Callers, GetTransaction(c) \/ \E t \in Tables : InsertRows(c, t)
      PROVE  LostAnswer' /\ SettledKept
  <2>1. \/ rows' = rows
        \/ \E t \in Tables : rows' = [rows EXCEPT ![t] = rows[t] \union {item[c]}]
    BY <1>9 DEF GetTransaction, InsertRows
  <2>2. UNCHANGED <<status, batch, faults>>
    BY <1>9 DEF GetTransaction, InsertRows, queueVars
  <2>3. \A t \in Tables : rows[t] \subseteq rows'[t]
    BY <1>1, <2>1
  <2>. QED  BY <1>1, <2>2, <2>3, SettledStep
<1>10. ASSUME NEW c \in Callers, Process(c)
       PROVE  LostAnswer' /\ SettledKept
  BY <1>8, <1>9, <1>10, SettledItem DEF Process
<1>11. CASE \E t \in Tables, s \in Sigs : OrphanEnds(t, s)
  <2>1. UNCHANGED <<status, batch, faults>> /\ \A t \in Tables : rows[t] \subseteq rows'[t]
    BY <1>1, <1>11 DEF OrphanEnds, queueVars
  <2>. QED  BY <1>1, <2>1, SettledStep
<1>12. CASE Crash \/ Exit
  <2>1. UNCHANGED <<status, rows, faults>> /\ \A c \in Callers : batch'[c] = {}
    BY <1>12 DEF Crash, Exit, Restart, queueVars
  <2>. QED  BY <1>1, <2>1, SettledStep
<1>. QED
  BY <1>3, <1>4, <1>6, <1>7, <1>10, <1>11, <1>12 DEF Next, Tick, RequestDiscover, RequestProcess

LEMMA SettledInit == Init => LostAnswer
BY DEF Init, LostAnswer

\* Indexed rows are never taken back, a given-up signature stays given up, and a
\* done one is queued again only after the answer to a write was lost.
THEOREM SettledForGood == Spec => SettledStays
<1>1. QueueInv /\ ClaimExclusive /\ LostAnswer /\ [Next]_vars =>
        [/\ \A t \in Tables : rows[t] \subseteq rows'[t]
         /\ \A s \in Sigs : /\ status[s] = "failed_terminal" => status'[s] = "failed_terminal"
                            /\ status[s] = "done" /\ status'[s] # "done" => faults > 0]_vars
  BY SettledNext DEF SettledKept
<1>. QED
  BY <1>1, QueueInit, QueueNext, ClaimsExclusive, SettledInit, SettledNext,
     PTL DEF Spec, SettledStays

-----------------------------------------------------------------------------
(* The outputs table.  Signatures are recorded without a gap but for what  *)
(* full pages left out, and only what was claimed, hence recorded, reaches *)
(* the pool tables, whatever inserts outlive their calls.                  *)

Claimed(s) == attempts[s] > 0

HoleInv ==
  /\ \A n \in Sigs : status[n] # "unseen" => \A s \in 1..n : Recorded(s)
  /\ \A t \in Tables : \A s \in rows[t] : Claimed(s)
  /\ \A o \in orphans : Claimed(o[2])

\* What every step owes: nothing recorded or claimed is forgotten.
NothingForgotten ==
  /\ RecordsKept
  /\ \A s \in Sigs : Claimed(s) => Claimed(s)'

LEMMA SettlingRecords ==
  ASSUME QueueInv, NEW c \in Callers, MarkDone(c) \/ MarkProcessingFailure(c)
  PROVE  /\ NothingForgotten /\ UNCHANGED <<attempts, rows>>
         /\ \A s \in Sigs : status'[s] # "unseen" => status[s] # "unseen"
<1>1. PICK settled \in Statuses \ {"unseen"} : status' = [status EXCEPT ![item[c]] = settled]
  BY DEF MarkDone, MarkProcessingFailure
<1>2. UNCHANGED <<attempts, rows, omitted>>
  BY DEF MarkDone, MarkProcessingFailure, NextItem, Answered, Reject
<1>3. item[c] \in batch[c]
  BY DEF MarkDone, MarkProcessingFailure, QueueInv, CallOK, ItemSteps
<1>4. item[c] \in Sigs /\ attempts[item[c]] # 0
  BY <1>3 DEF QueueInv, CallOK, TypeOK
<1>5. status[item[c]] # "unseen"
  BY <1>4 DEF QueueInv, AttemptsAccounted
<1>. QED
  BY <1>1, <1>2, <1>4, <1>5
     DEF NothingForgotten, RecordsKept, Recorded, Claimed, QueueInv, TypeOK

LEMMA ClaimingRecords ==
  ASSUME QueueInv, NEW c \in Callers, ClaimPendingSignatures(c)
  PROVE  /\ NothingForgotten /\ UNCHANGED rows
         /\ \A s \in Sigs : status'[s] # "unseen" => status[s] # "unseen"
<1>1. PICK limit \in ProcessingLimits :
        /\ status' = [s \in Sigs |-> IF s \in Lowest(limit, Claimable)
                                       THEN "processing" ELSE status[s]]
        /\ attempts' = [s \in Sigs |-> IF s \in Lowest(limit, Claimable)
                                         THEN attempts[s] + 1 ELSE attempts[s]]
        /\ UNCHANGED <<rows, omitted>>
  BY DEF ClaimPendingSignatures, Answered, Reject
<1>2. \A s \in Lowest(limit, Claimable) : status[s] # "unseen"
  BY DEF Lowest, Claimable, ClaimableStatuses
<1>3. \A s \in Sigs : attempts[s] \in Nat
  <2>1. attempts \in [Sigs -> 0..MaxAttempts] /\ 0..MaxAttempts \subseteq Nat
    BY AttemptsAssumption DEF QueueInv, TypeOK
  <2>. HIDE DEF Sigs
  <2>. QED  BY <2>1
<1>4. RecordsKept
  BY <1>1 DEF RecordsKept, Recorded
<1>5. \A s \in Sigs : Claimed(s) => Claimed(s)'
  BY <1>1, <1>3 DEF Claimed
<1>6. \A s \in Sigs : status'[s] # "unseen" => status[s] # "unseen"
  BY <1>1, <1>2
<1>. QED
  BY <1>1, <1>4, <1>5, <1>6 DEF NothingForgotten

\* A step whose rows and orphans were claimed, and that records a signature only
\* with all below it.
LEMMA HoleStep ==
  ASSUME QueueInv, HoleInv, NothingForgotten,
         \A n \in Sigs : status'[n] # "unseen" =>
           status[n] # "unseen" \/ \A s \in 1..n : Recorded(s)',
         rows' \in [Tables -> SUBSET Sigs],
         \A t \in Tables : \A s \in rows'[t] : s \in rows[t] \/ Claimed(s),
         \A o \in orphans' : o \in orphans \/ (o[2] \in Sigs /\ Claimed(o[2]))
  PROVE  HoleInv'
<1>1. /\ \A n \in Sigs : \A s \in 1..n : s \in Sigs
      /\ \A t \in Tables : rows[t] \subseteq Sigs
      /\ \A o \in orphans : o[2] \in Sigs
  BY HistoryAssumption DEF QueueInv, TypeOK
<1>. HIDE DEF Sigs
<1>2. \A n \in Sigs : status'[n] # "unseen" => \A s \in 1..n : Recorded(s)'
  BY <1>1 DEF HoleInv, NothingForgotten, RecordsKept
<1>3. \A t \in Tables : \A s \in rows'[t] : Claimed(s)'
  BY <1>1 DEF HoleInv, NothingForgotten
<1>4. \A o \in orphans' : Claimed(o[2])'
  BY <1>1 DEF HoleInv, NothingForgotten
<1>. QED  BY <1>2, <1>3, <1>4 DEF HoleInv

\* The inserts that a rejection leaves behind are of the item at hand.
LEMMA AwaitedIsClaimed ==
  ASSUME QueueInv, NEW c \in Callers, NEW o \in awaiting[c] \X {item[c]}
  PROVE  o[2] \in Sigs /\ Claimed(o[2])
<1>1. item[c] \in batch[c] /\ o[2] = item[c]
  BY DEF QueueInv, CallOK, ItemSteps
<1>. QED  BY <1>1 DEF QueueInv, CallOK, TypeOK, Claimed

LEMMA HoleInsertSignatures ==
  ASSUME QueueInv, DiscoveryInv, HoleInv, NEW c \in Callers, InsertSignatures(c)
  PROVE  HoleInv'
<1>1. /\ status' = [s \in Sigs |-> IF s \in page[c] /\ status[s] = "unseen"
                                     THEN "pending" ELSE status[s]]
      /\ UNCHANGED <<rows, attempts, omitted>> /\ pc[c] = "insertSignatures"
  BY DEF InsertSignatures, Answered, Reject
<1>2. NothingForgotten
  BY <1>1 DEF NothingForgotten, RecordsKept, Recorded, Claimed
<1>3. MaxTx \in Nat /\ page[c] \subseteq Sigs /\ rows \in [Tables -> SUBSET Sigs]
  BY HistoryAssumption DEF QueueInv, TypeOK
<1>4. ASSUME NEW n \in Sigs, status'[n] # "unseen"
      PROVE  status[n] # "unseen" \/ \A s \in 1..n : Recorded(s)'
  <2>1. CASE n \notin page[c]
    BY <1>1, <1>4, <2>1
  <2>2. CASE n \in page[c]
    <3>1. \A s \in 1..n : s \in Sigs /\ (Recorded(s) \/ s \in page[c])
      BY <1>1, <1>3, <2>2 DEF DiscoveryInv, DiscoveryOK, PageSteps
    <3>2. \A s \in page[c] : Recorded(s)'
      BY <1>1, <1>3 DEF Recorded
    <3>. HIDE DEF Sigs
    <3>. QED  BY <1>2, <3>1, <3>2 DEF NothingForgotten, RecordsKept
  <2>. QED  BY <2>1, <2>2
<1>5. \A o \in orphans' : o \in orphans \/ o \in awaiting[c] \X {item[c]}
  BY DEF InsertSignatures, Answered, Reject
<1>6. \A o \in orphans' : o \in orphans \/ (o[2] \in Sigs /\ Claimed(o[2]))
  BY <1>5, AwaitedIsClaimed
<1>. HIDE DEF Sigs
<1>. QED  BY <1>1, <1>2, <1>3, <1>4, <1>6, HoleStep

LEMMA HoleNext == QueueInv /\ DiscoveryInv /\ HoleInv /\ [Next]_vars => HoleInv'
<1>. SUFFICES ASSUME QueueInv, DiscoveryInv, HoleInv, [Next]_vars
              PROVE  HoleInv'
  OBVIOUS
<1>1. /\ rows \in [Tables -> SUBSET Sigs] /\ orphans \subseteq Tables \X Sigs
      /\ item \in [Callers -> 0..MaxTx] /\ batch \in [Callers -> SUBSET Sigs]
  BY DEF QueueInv, TypeOK
\* Steps that leave the queue and the tables alone.
<1>2. ASSUME UNCHANGED <<status, attempts, rows>>, omitted \subseteq omitted',
             \A o \in orphans' : o \in orphans \/ \E c \in Callers : o \in awaiting[c] \X {item[c]}
      PROVE  HoleInv'
  <2>1. NothingForgotten
    BY <1>2 DEF NothingForgotten, RecordsKept, Recorded, Claimed
  <2>2. \A o \in orphans' : o \in orphans \/ (o[2] \in Sigs /\ Claimed(o[2]))
    BY <1>2, AwaitedIsClaimed
  <2>. HIDE DEF Sigs
  <2>. QED  BY <1>1, <1>2, <2>1, <2>2, HoleStep
<1>3. CASE Confirm \/ Finalize \/ BeginShutdown \/ StopWorker \/ UNCHANGED vars
  BY <1>2, <1>3 DEF Confirm, Finalize, BeginShutdown, StopWorker, ShutdownStep, vars, queueVars
<1>4. ASSUME NEW c \in Callers, NEW await \in {"findState", "claim"}, Begin(c, await)
      PROVE  HoleInv'
  BY <1>2, <1>4 DEF Begin, queueVars
<1>5. ASSUME NEW c \in Callers, Throw(c)
      PROVE  HoleInv'
  BY <1>2, <1>5 DEF Throw, Reject, queueVars
<1>6. ASSUME NEW c \in Callers, Discover(c)
      PROVE  HoleInv'
  <2>1. CASE FindState(c)
    BY <1>2, <2>1 DEF FindState, Answered, queueVars
  <2>2. CASE GetSignatures(c)
    BY <1>2, <2>2 DEF GetSignatures, queueVars
  <2>3. CASE UpsertState(c)
    BY <1>2, <2>3 DEF UpsertState, Answered, Reject, queueVars
  <2>. QED  BY <1>6, <2>1, <2>2, <2>3, HoleInsertSignatures DEF Discover
<1>7. ASSUME NEW c \in Callers, Process(c)
      PROVE  HoleInv'
  <2>1. CASE GetTransaction(c)
    BY <1>2, <2>1 DEF GetTransaction, queueVars
  <2>2. ASSUME NEW t \in Tables, InsertRows(c, t)
        PROVE  HoleInv'
    <3>1. rows' = [rows EXCEPT ![t] = rows[t] \union {item[c]}]
          /\ UNCHANGED <<status, attempts, orphans, omitted>>
      BY <2>2 DEF InsertRows, queueVars
    <3>2. item[c] \in batch[c]
      BY <2>2 DEF InsertRows, QueueInv, CallOK, ItemSteps
    <3>3. item[c] \in Sigs /\ Claimed(item[c])
      BY <1>1, <3>2 DEF QueueInv, CallOK, Claimed
    <3>4. NothingForgotten
      BY <3>1 DEF NothingForgotten, RecordsKept, Recorded, Claimed
    <3>5. /\ rows' \in [Tables -> SUBSET Sigs]
          /\ \A u \in Tables : \A s \in rows'[u] : s \in rows[u] \/ Claimed(s)
      BY <1>1, <3>1, <3>3
    <3>. HIDE DEF Sigs
    <3>. QED  BY <3>1, <3>4, <3>5, HoleStep
  <2>3. CASE ClaimPendingSignatures(c) \/ MarkDone(c) \/ MarkProcessingFailure(c)
    <3>1. /\ NothingForgotten /\ UNCHANGED rows
          /\ \A s \in Sigs : status'[s] # "unseen" => status[s] # "unseen"
      BY <2>3, ClaimingRecords, SettlingRecords
    <3>2. \A o \in orphans' : o \in orphans \/ o \in awaiting[c] \X {item[c]}
      BY <2>3 DEF ClaimPendingSignatures, MarkDone, MarkProcessingFailure, NextItem,
                  Answered, Reject
    <3>3. \A o \in orphans' : o \in orphans \/ (o[2] \in Sigs /\ Claimed(o[2]))
      BY <3>2, AwaitedIsClaimed
    <3>. HIDE DEF Sigs
    <3>. QED  BY <1>1, <3>1, <3>3, HoleStep
  <2>. QED  BY <1>7, <2>1, <2>2, <2>3 DEF Process
<1>8. CASE \E t \in Tables, s \in Sigs : OrphanEnds(t, s)
  <2>1. PICK t \in Tables, s \in Sigs : OrphanEnds(t, s)
    BY <1>8
  <2>2. /\ <<t, s>> \in orphans /\ orphans' \subseteq orphans
        /\ UNCHANGED <<status, attempts, omitted>>
        /\ rows' = rows \/ rows' = [rows EXCEPT ![t] = rows[t] \union {s}]
    BY <2>1 DEF OrphanEnds, queueVars
  <2>3. Claimed(s)
    BY <2>2 DEF HoleInv
  <2>4. NothingForgotten
    BY <2>2 DEF NothingForgotten, RecordsKept, Recorded, Claimed
  <2>5. /\ rows' \in [Tables -> SUBSET Sigs]
        /\ \A u \in Tables : \A r \in rows'[u] : r \in rows[u] \/ Claimed(r)
    BY <1>1, <2>2, <2>3
  <2>. HIDE DEF Sigs
  <2>. QED  BY <2>2, <2>4, <2>5, HoleStep
<1>9. CASE Crash \/ Exit
  BY <1>2, <1>9 DEF Crash, Exit, Restart, queueVars
<1>. QED
  BY <1>3, <1>4, <1>5, <1>6, <1>7, <1>8, <1>9 DEF Next, Tick, RequestDiscover, RequestProcess

LEMMA HoleInit == Init => HoleInv
BY DEF Init, HoleInv

\* Once the queue is quiet, what is missing below an indexed output was left out by
\* a full page of signatures, and by nothing else.
HolesWereOmitted ==
  Quiet => \A s \in rows["outputs"] : \A p \in 1..s :
             kind[p] = "transact" => p \in rows["outputs"] \union omitted

LEMMA HolesExplained == QueueInv /\ PoolInv /\ HoleInv => HolesWereOmitted
<1>. SUFFICES ASSUME QueueInv, PoolInv, HoleInv, Quiet,
                     NEW s \in rows["outputs"], NEW p \in 1..s, kind[p] = "transact"
              PROVE  p \in rows["outputs"] \union omitted
  BY DEF HolesWereOmitted
<1>1. s \in Sigs /\ p \in Sigs
  BY TablesAssumption, HistoryAssumption DEF QueueInv, TypeOK
<1>2. Claimed(s)
  BY TablesAssumption DEF HoleInv
<1>3. status[s] # "unseen"
  BY <1>1, <1>2 DEF Claimed, QueueInv, AttemptsAccounted
<1>4. Recorded(p)
  BY <1>1, <1>3 DEF HoleInv
<1>5. CASE status[p] # "unseen"
  <2>1. status[p] = "done"
    BY <1>1, <1>5 DEF Quiet
  <2>. QED  BY <1>1, <2>1, TablesAssumption DEF PoolInv, DoneIsIndexed
<1>. QED  BY <1>4, <1>5 DEF Recorded

\* Whatever rejects, and whenever the process dies or stops, every hole of a quiet
\* outputs table is one that a full discovery page left behind.
THEOREM HolesComeFromFullPages == Spec => []HolesWereOmitted
<1>. QED
  BY HolesExplained, QueueInit, PoolInit, DiscoveryInit, HoleInit,
     QueueNext, PoolNext, DiscoveryNext, HoleNext, PTL DEF Spec

\* Every discovery page has room for the program's whole history.
LargePages == \A limit \in DiscoveryLimits : limit >= MaxTx
NothingOmitted == LargePages /\ omitted = {}

LEMMA LargePagesOmitNothing == QueueInv /\ NothingOmitted /\ [Next]_vars => NothingOmitted'
<1>. SUFFICES ASSUME QueueInv, LargePages, omitted = {}, [Next]_vars  PROVE omitted' = {}
  BY DEF NothingOmitted, LargePages
<1>1. ASSUME NEW c \in Callers, GetSignatures(c)
      PROVE  omitted' = {}
  <2>1. PICK limit \in DiscoveryLimits :
          omitted' = omitted \union {s \in (until[c] + 1)..confirmed : s <= confirmed - limit}
    BY <1>1 DEF GetSignatures
  <2>2. /\ limit \in Nat /\ limit >= MaxTx /\ MaxTx \in Nat
        /\ until[c] \in 0..MaxTx /\ confirmed \in 0..MaxTx
    BY LimitsAssumption, HistoryAssumption DEF QueueInv, TypeOK, LargePages
  <2>3. \A s \in (until[c] + 1)..confirmed : ~(s <= confirmed - limit)
    BY <2>2
  <2>. QED  BY <2>1, <2>3
<1>2. ASSUME ~ \E c \in Callers : GetSignatures(c)
      PROVE  UNCHANGED omitted
  BY <1>2 DEF Next, Confirm, Finalize, Tick, RequestDiscover, RequestProcess, Begin, Discover,
              FindState, InsertSignatures, UpsertState, Process, ClaimPendingSignatures,
              GetTransaction, InsertRows, MarkDone, MarkProcessingFailure, NextItem, Answered,
              Throw, Reject, OrphanEnds, Crash, Exit, Restart, BeginShutdown, StopWorker,
              ShutdownStep, vars
<1>. QED  BY <1>1, <1>2

\* With a discovery page that holds all new signatures, a quiet outputs table has no
\* hole: the Merkle service can build its tree.
THEOREM LargePagesLeaveNoHole == LargePages /\ Spec => []OutputsContiguous
<1>1. LargePages /\ Init => NothingOmitted
  BY DEF Init, NothingOmitted
<1>2. HolesWereOmitted /\ NothingOmitted => OutputsContiguous
  BY DEF HolesWereOmitted, NothingOmitted, OutputsContiguous
<1>. QED
  BY <1>1, <1>2, LargePagesOmitNothing, QueueInit, QueueNext, HolesComeFromFullPages, PTL DEF Spec

-----------------------------------------------------------------------------
(* Claims and the calls that hold them.  Only a rejection or a kill parts  *)
(* a call from its batch: a shutdown waits for both kinds of callers.      *)

BatchSteps == ItemSteps \union {"getTransaction"}

CallersOK ==
  /\ \A c \in Callers : pc[c] \notin BatchSteps => batch[c] = {}
  /\ phase = "stopping" => \A c \in ApiCallers : pc[c] = "idle"

HeldInv == CallersOK /\ ClaimsAreHeld

\* A step that leaves the batches and statuses alone and starts or ends no batch.
LEMMA HeldQuietly ==
  ASSUME HeldInv, UNCHANGED <<status, batch>>,
         \A c \in Callers : pc'[c] \notin BatchSteps => pc[c] \notin BatchSteps,
         phase' = "stopping" => \A c \in ApiCallers : pc'[c] = "idle",
         faults' = 0 /\ crashes' = 0 => faults = 0 /\ crashes = 0
  PROVE  HeldInv'
BY DEF HeldInv, CallersOK, ClaimsAreHeld

LEMMA RejectHolds ==
  ASSUME QueueInv, HeldInv, NEW c \in Callers, Reject(c)
  PROVE  HeldInv'
<1>1. faults' # 0
  BY BudgetAssumption DEF QueueInv, TypeOK, Reject
<1>2. pc'[c] \in {"idle", "markFailed"} /\ (pc'[c] = "idle" => batch'[c] = {})
  BY DEF Reject, AfterThrow, QueueInv, TypeOK
<1>3. \A d \in Callers \ {c} : pc'[d] = pc[d] /\ batch'[d] = batch[d]
  BY DEF Reject, QueueInv, TypeOK
<1>4. phase' = phase /\ (phase = "stopping" => c \notin ApiCallers)
  <2>1. pc[c] # "idle"
    BY BudgetAssumption DEF Reject
  <2>. QED  BY <2>1 DEF Reject, HeldInv, CallersOK
<1>5. CallersOK'
  <2>1. ASSUME NEW d \in Callers, pc'[d] \notin BatchSteps
        PROVE  batch'[d] = {}
    BY <1>2, <1>3, <2>1 DEF BatchSteps, ItemSteps, HeldInv, CallersOK
  <2>2. ASSUME phase' = "stopping", NEW d \in ApiCallers
        PROVE  pc'[d] = "idle"
    BY <1>3, <1>4, <2>2 DEF HeldInv, CallersOK
  <2>. QED  BY <2>1, <2>2 DEF CallersOK
<1>. QED  BY <1>1, <1>5 DEF HeldInv, ClaimsAreHeld

LEMMA ClaimHolds ==
  ASSUME QueueInv, HeldInv, NEW c \in Callers, ClaimPendingSignatures(c)
  PROVE  HeldInv'
<1>1. PICK limit \in ProcessingLimits :
        /\ status' = [s \in Sigs |-> IF s \in Lowest(limit, Claimable)
                                       THEN "processing" ELSE status[s]]
        /\ \/ /\ Answered(c, IF Lowest(limit, Claimable) = {} THEN "idle" ELSE "getTransaction")
              /\ batch' = [batch EXCEPT ![c] = Lowest(limit, Claimable)]
           \/ Reject(c)
  BY DEF ClaimPendingSignatures
<1>2. CASE /\ Answered(c, IF Lowest(limit, Claimable) = {} THEN "idle" ELSE "getTransaction")
           /\ batch' = [batch EXCEPT ![c] = Lowest(limit, Claimable)]
  <2>1. /\ pc'[c] \notin BatchSteps => batch'[c] = {}
        /\ batch'[c] = Lowest(limit, Claimable) /\ batch[c] = {}
        /\ \A d \in Callers \ {c} : pc'[d] = pc[d] /\ batch'[d] = batch[d]
    BY <1>2 DEF Answered, ClaimPendingSignatures, BatchSteps, ItemSteps, HeldInv, CallersOK,
                QueueInv, TypeOK
  <2>2. /\ phase' = phase /\ faults' = faults /\ crashes' = crashes
        /\ (phase = "stopping" => c \notin ApiCallers)
    BY <1>2 DEF Answered, ClaimPendingSignatures, HeldInv, CallersOK, budgetVars
  <2>3. CallersOK'
    BY <2>1, <2>2 DEF HeldInv, CallersOK
  <2>4. ASSUME faults = 0, crashes = 0, NEW s \in Sigs, status'[s] = "processing"
        PROVE  \E d \in Callers : s \in batch'[d]
    <3>1. CASE s \in Lowest(limit, Claimable)
      BY <2>1, <3>1
    <3>2. CASE s \notin Lowest(limit, Claimable)
      <4>1. PICK d \in Callers : s \in batch[d]
        BY <1>1, <2>4, <3>2 DEF HeldInv, ClaimsAreHeld
      <4>2. d # c
        BY <2>1, <4>1
      <4>. QED  BY <2>1, <4>1, <4>2
    <3>. QED  BY <3>1, <3>2
  <2>. QED  BY <2>2, <2>3, <2>4 DEF HeldInv, ClaimsAreHeld
<1>. QED  BY <1>1, <1>2, RejectHolds

LEMMA SettlingHolds ==
  ASSUME QueueInv, HeldInv, NEW c \in Callers, MarkDone(c) \/ MarkProcessingFailure(c)
  PROVE  HeldInv'
<1>1. PICK settled \in Statuses \ {"processing"} : status' = [status EXCEPT ![item[c]] = settled]
  BY DEF MarkDone, MarkProcessingFailure
<1>2. CASE NextItem(c)
  <2>1. /\ batch'[c] = batch[c] \ {item[c]}
        /\ pc'[c] \notin BatchSteps => batch'[c] = {}
        /\ \A d \in Callers \ {c} : pc'[d] = pc[d] /\ batch'[d] = batch[d]
    BY <1>2 DEF NextItem, Answered, BatchSteps, ItemSteps, QueueInv, TypeOK
  <2>2. /\ phase' = phase /\ faults' = faults /\ crashes' = crashes
        /\ (phase = "stopping" => c \notin ApiCallers)
    BY <1>2 DEF NextItem, Answered, MarkDone, MarkProcessingFailure, HeldInv, CallersOK, budgetVars
  <2>3. CallersOK'
    BY <2>1, <2>2 DEF HeldInv, CallersOK
  <2>4. ASSUME faults = 0, crashes = 0, NEW s \in Sigs, status'[s] = "processing"
        PROVE  \E d \in Callers : s \in batch'[d]
    <3>1. s # item[c] /\ status[s] = "processing"
      BY <1>1, <2>4 DEF QueueInv, TypeOK
    <3>2. PICK d \in Callers : s \in batch[d]
      BY <2>4, <3>1 DEF HeldInv, ClaimsAreHeld
    <3>. QED  BY <2>1, <3>1, <3>2
  <2>. QED  BY <2>2, <2>3, <2>4 DEF HeldInv, ClaimsAreHeld
<1>. QED  BY <1>2, RejectHolds DEF MarkDone, MarkProcessingFailure

LEMMA HeldNext == QueueInv /\ HeldInv /\ [Next]_vars => HeldInv'
<1>. SUFFICES ASSUME QueueInv, HeldInv, [Next]_vars  PROVE HeldInv'
  OBVIOUS
<1>0. pc \in [Callers -> Steps] /\ batch \in [Callers -> SUBSET Sigs]
  BY DEF QueueInv, TypeOK
<1>1. CASE Confirm \/ Finalize \/ BeginShutdown \/ StopWorker \/ UNCHANGED vars
           \/ \E t \in Tables, s \in Sigs : OrphanEnds(t, s)
  <2>1. /\ UNCHANGED <<status, batch, pc, faults, crashes>>
        /\ phase' = "stopping" => \A c \in ApiCallers : pc[c] = "idle"
    BY <1>1 DEF Confirm, Finalize, BeginShutdown, StopWorker, ShutdownStep, OrphanEnds, vars,
                queueVars, budgetVars, HeldInv, CallersOK
  <2>. QED  BY <2>1, HeldQuietly
<1>2. ASSUME NEW c \in Callers, NEW await \in {"findState", "claim"}, Begin(c, await),
             phase = "stopping" => c \notin ApiCallers
      PROVE  HeldInv'
  <2>1. /\ UNCHANGED <<status, batch, phase, faults, crashes>>
        /\ pc[c] \notin BatchSteps /\ \A d \in Callers \ {c} : pc'[d] = pc[d]
    BY <1>0, <1>2 DEF Begin, queueVars, budgetVars, BatchSteps, ItemSteps
  <2>. QED  BY <1>2, <2>1, HeldQuietly DEF HeldInv, CallersOK
<1>3. ASSUME NEW c \in Callers, Discover(c) \/ GetTransaction(c) \/ \E t \in Tables : InsertRows(c, t),
             ~Reject(c)
      PROVE  HeldInv'
  <2>1. phase' = phase /\ faults' = faults /\ crashes' = crashes /\ pc[c] # "idle"
        /\ batch' = batch
    BY <1>3 DEF Discover, FindState, GetSignatures, InsertSignatures, UpsertState, Answered,
                GetTransaction, InsertRows, budgetVars
  <2>2. \A d \in Callers \ {c} : pc'[d] = pc[d]
    BY <1>0, <1>3 DEF Discover, FindState, GetSignatures, InsertSignatures, UpsertState, Answered,
                      GetTransaction, InsertRows
  <2>3. pc'[c] \notin BatchSteps => pc[c] \notin BatchSteps
    BY <1>0, <1>3 DEF Discover, FindState, GetSignatures, InsertSignatures, UpsertState, Answered,
                      GetTransaction, AfterTransaction, InsertRows, BatchSteps, ItemSteps
  <2>4. phase = "stopping" => c \notin ApiCallers
    BY <2>1 DEF HeldInv, CallersOK
  <2>5. \A s \in Sigs : status'[s] = "processing" => status[s] = "processing"
    BY <1>3 DEF Discover, FindState, GetSignatures, InsertSignatures, UpsertState,
                GetTransaction, InsertRows, queueVars
  <2>6. CallersOK'
    BY <2>1, <2>2, <2>3, <2>4 DEF HeldInv, CallersOK
  <2>. QED  BY <2>1, <2>5, <2>6 DEF HeldInv, ClaimsAreHeld
<1>4. ASSUME NEW c \in Callers, Discover(c) \/ Process(c)
      PROVE  HeldInv'
  BY <1>3, <1>4, ClaimHolds, SettlingHolds, RejectHolds DEF Process
<1>5. CASE Crash
  <2>1. crashes' # 0
    BY <1>5, BudgetAssumption DEF Crash, QueueInv, TypeOK
  <2>2. CallersOK'
    BY <1>5 DEF Crash, Restart, CallersOK
  <2>. QED  BY <2>1, <2>2 DEF HeldInv, ClaimsAreHeld
<1>6. CASE Exit
  <2>1. \A c \in Callers : pc[c] = "idle"
    BY <1>6 DEF Exit, ActiveRunEnded, HeldInv, CallersOK
  <2>2. \A c \in Callers : batch[c] = {}
    BY <2>1 DEF HeldInv, CallersOK, BatchSteps, ItemSteps
  <2>3. CallersOK' /\ UNCHANGED <<status, faults, crashes>>
    BY <1>6 DEF Exit, Restart, CallersOK, queueVars, budgetVars
  <2>. QED  BY <2>2, <2>3 DEF HeldInv, ClaimsAreHeld
<1>7. ASSUME NEW c \in Callers, Throw(c)
      PROVE  HeldInv'
  BY <1>7, RejectHolds DEF Throw
<1>. QED
  BY <1>1, <1>2, <1>4, <1>5, <1>6, <1>7, CallersAssumption
     DEF Next, Tick, RequestDiscover, RequestProcess

LEMMA HeldInit == Init => HeldInv
BY DEF Init, HeldInv, CallersOK, ClaimsAreHeld

\* As long as no await has rejected and nothing was killed, every row in work is in
\* the batch of some call: an orderly shutdown abandons no claim, whoever is calling.
THEOREM ClaimsHeld == Spec => []ClaimsAreHeld
<1>1. HeldInv => ClaimsAreHeld
  BY DEF HeldInv
<1>. QED  BY <1>1, QueueInit, HeldInit, QueueNext, HeldNext, PTL DEF Spec

=============================================================================
