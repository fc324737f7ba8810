------------------------------ MODULE Indexer ------------------------------
(***************************************************************************)
(* The backend's indexer: discoverSignatures and processSignatures of      *)
(* indexer.service.ts, the rows they keep in Postgres, and their callers,  *)
(* which run interleaved in one Node process: the polling worker (one tick *)
(* at a time) and the requests POST /discover and POST /process.  A step   *)
(* is what happens between two awaits.  Any await may reject, a rejected   *)
(* write may have reached the database, and the process may be killed.     *)
(*                                                                         *)
(* A transaction is named by its position in the program's history, which  *)
(* is also its slot order.  Its signature row and its pool rows carry that *)
(* name; "rows[t]" holds the transactions whose rows table t contains.     *)
(***************************************************************************)
EXTENDS Integers, FiniteSets

CONSTANTS
  MaxTx,            \* length of the program's history
  Kinds,            \* kinds of transaction the history may hold
  Worker,           \* the polling worker
  ApiCallers,       \* concurrent API requests
  DiscoveryLimits,  \* page sizes a discovery may ask for, after resolveLimit
  ProcessingLimits, \* batch sizes a claim may ask for, after resolveLimit
  Tables,           \* tables a transaction inserts into: outputs, roots, nullifiers
  MaxAttempts,      \* maxProcessingAttempts
  FaultPoints,      \* awaits that may reject
  MaxFaults, MaxCrashes, MaxShutdowns  \* budgets of the environment

Sigs == 1..MaxTx
Callers == {Worker} \union ApiCallers
AllKinds == {"transact", "other", "failed", "malformed"}
Awaits == {"findState", "getSignatures", "insertSignatures", "upsertState",
           "claim", "getTransaction", "insertRows", "markDone", "markFailed"}

ASSUME HistoryAssumption == MaxTx \in Nat /\ Kinds \subseteq AllKinds
ASSUME CallersAssumption == Worker \notin ApiCallers
ASSUME LimitsAssumption == /\ DiscoveryLimits \subseteq Nat \ {0}
                           /\ ProcessingLimits \subseteq Nat \ {0}
ASSUME TablesAssumption == "outputs" \in Tables
ASSUME AttemptsAssumption == MaxAttempts \in Nat \ {0}
ASSUME BudgetAssumption == /\ FaultPoints \subseteq Awaits
                           /\ {MaxFaults, MaxCrashes, MaxShutdowns} \subseteq Nat

VARIABLES
  kind, confirmed, finalized,            \* the chain: kinds, confirmed and finalized prefix
  status, attempts,                      \* table indexer_signatures
  watermark,                             \* indexer_state.high_watermark_signature, 0 when null
  rows,                                  \* tables pool_outputs, pool_observed_roots, spent_nullifiers
  orphans,                               \* inserts still running whose caller no longer waits
  phase,                                 \* "up", or how far an orderly shutdown has come
  pc, until, page, batch, item, awaiting,  \* each caller's place in the code and its locals
  omitted,                               \* history: signatures a full page left out
  faults, crashes, shutdowns             \* budgets spent

chainVars == <<kind, confirmed, finalized>>
queueVars == <<status, attempts>>
pageVars == <<until, page>>
itemVars == <<item, awaiting>>
budgetVars == <<crashes, shutdowns>>
vars == <<chainVars, queueVars, watermark, rows, orphans, phase, pc, pageVars,
          batch, itemVars, omitted, faults, budgetVars>>

Statuses == {"unseen", "pending", "processing", "done",
             "failed_transient", "failed_terminal"}

Init ==
  /\ kind \in [Sigs -> Kinds]
  /\ confirmed = 0 /\ finalized = 0
  /\ status = [s \in Sigs |-> "unseen"]
  /\ attempts = [s \in Sigs |-> 0]
  /\ watermark = 0
  /\ rows = [t \in Tables |-> {}]
  /\ orphans = {}
  /\ phase = "up"
  /\ pc = [c \in Callers |-> "idle"]
  /\ until = [c \in Callers |-> 0]
  /\ page = [c \in Callers |-> {}]
  /\ batch = [c \in Callers |-> {}]
  /\ item = [c \in Callers |-> 0]
  /\ awaiting = [c \in Callers |-> {}]
  /\ omitted = {}
  /\ faults = 0 /\ crashes = 0 /\ shutdowns = 0

-----------------------------------------------------------------------------
(* The chain, external to the repository.                                  *)

Confirm ==
  /\ confirmed < MaxTx
  /\ confirmed' = confirmed + 1
  /\ UNCHANGED <<kind, finalized, queueVars, watermark, rows, orphans, phase, pc,
                 pageVars, batch, itemVars, omitted, faults, budgetVars>>

Finalize ==
  /\ finalized < confirmed
  /\ finalized' = finalized + 1
  /\ UNCHANGED <<kind, confirmed, queueVars, watermark, rows, orphans, phase, pc,
                 pageVars, batch, itemVars, omitted, faults, budgetVars>>

-----------------------------------------------------------------------------
(* Callers.  runOnce returns the active run while there is one, so the     *)
(* worker is one sequential caller.                                        *)

Begin(c, await) ==
  /\ pc[c] = "idle"
  /\ pc' = [pc EXCEPT ![c] = await]
  /\ UNCHANGED <<chainVars, queueVars, watermark, rows, orphans, phase, pageVars,
                 batch, itemVars, omitted, faults, budgetVars>>

Tick == phase # "stopping" /\ Begin(Worker, "findState")
RequestDiscover(c) == phase = "up" /\ Begin(c, "findState")
RequestProcess(c) == phase = "up" /\ Begin(c, "claim")

\* Where the rejection of an await takes its caller: inside the try block of
\* processSignatures to markProcessingFailure, anywhere else out of the call.
AfterThrow(await) ==
  IF await \in {"getTransaction", "insertRows", "markDone"} THEN "markFailed" ELSE "idle"

\* The await c is at rejects.  Promise.all rejects with its first failure: the
\* inserts it still waited for keep running and may yet commit or be lost.
Reject(c) ==
  LET next == AfterThrow(pc[c]) IN
  /\ pc[c] \in FaultPoints
  /\ faults < MaxFaults
  /\ faults' = faults + 1
  /\ pc' = [pc EXCEPT ![c] = next]
  /\ until' = [until EXCEPT ![c] = 0]
  /\ page' = [page EXCEPT ![c] = {}]
  /\ batch' = IF next = "idle" THEN [batch EXCEPT ![c] = {}] ELSE batch
  /\ orphans' = orphans \union (awaiting[c] \X {item[c]})
  /\ awaiting' = [awaiting EXCEPT ![c] = {}]
  /\ UNCHANGED <<chainVars, rows, phase, omitted, budgetVars>>

\* A rejection that changed nothing in the database.
Throw(c) ==
  /\ Reject(c)
  /\ IF pc[c] = "getTransaction"
       THEN \E s \in batch[c] : item' = [item EXCEPT ![c] = s]
       ELSE item' = IF AfterThrow(pc[c]) = "idle" THEN [item EXCEPT ![c] = 0] ELSE item
  /\ UNCHANGED <<queueVars, watermark>>

\* After a write: its answer arrives, or is lost and the await rejects.
Answered(c, next) ==
  /\ pc' = [pc EXCEPT ![c] = next]
  /\ UNCHANGED <<chainVars, rows, phase, omitted, budgetVars, faults, orphans, awaiting>>

-----------------------------------------------------------------------------
(* discoverSignatures                                                      *)

AfterDiscovery(c) == IF c = Worker THEN "claim" ELSE "idle"

FindState(c) ==
  /\ pc[c] = "findState"
  /\ until' = [until EXCEPT ![c] = watermark]
  /\ Answered(c, "getSignatures")
  /\ UNCHANGED <<queueVars, watermark, page, batch, item>>

\* The RPC answers with the newest "limit" confirmed signatures after "until".
Page(after, limit) == {s \in (after + 1)..confirmed : s > confirmed - limit}

GetSignatures(c) ==
  /\ pc[c] = "getSignatures"
  /\ \E limit \in DiscoveryLimits :
       LET got == Page(until[c], limit) IN
       /\ page' = [page EXCEPT ![c] = got]
       /\ omitted' = omitted \union {s \in (until[c] + 1)..confirmed : s <= confirmed - limit}
       /\ pc' = [pc EXCEPT ![c] = IF got = {} THEN AfterDiscovery(c) ELSE "insertSignatures"]
  /\ until' = [until EXCEPT ![c] = 0]
  /\ UNCHANGED <<chainVars, queueVars, watermark, rows, orphans, phase, batch,
                 itemVars, faults, budgetVars>>

\* onConflictDoNothing: a row that is there keeps its status.
InsertSignatures(c) ==
  /\ pc[c] = "insertSignatures"
  /\ status' = [s \in Sigs |-> IF s \in page[c] /\ status[s] = "unseen"
                                 THEN "pending" ELSE status[s]]
  /\ \/ Answered(c, "upsertState") /\ UNCHANGED <<pageVars, batch>>
     \/ Reject(c)
  /\ UNCHANGED <<attempts, watermark, item>>

TipInstead(S) == confirmed
Newest(S) == CHOOSE s \in S : \A t \in S : t <= s

UpsertState(c) ==
  /\ pc[c] = "upsertState"
  /\ watermark' = Newest(page[c])
  /\ \/ /\ Answered(c, AfterDiscovery(c))
        /\ page' = [page EXCEPT ![c] = {}]
        /\ UNCHANGED <<until, batch>>
     \/ Reject(c)
  /\ UNCHANGED <<queueVars, item>>

-----------------------------------------------------------------------------
(* processSignatures                                                       *)

ClaimAnyUnsettled == {"pending", "processing", "failed_transient"}
ClaimPendingOnly == {"pending"}
ClaimAnyFailed == {"pending", "failed_transient", "failed_terminal"}
ClaimableStatuses == {"pending", "failed_transient"}

Claimable == {s \in Sigs : status[s] \in ClaimableStatuses}
Lowest(n, S) == {s \in S : Cardinality({t \in S : t < s}) < n}

\* One UPDATE ... FOR UPDATE SKIP LOCKED: no two claims take the same row.
ClaimPendingSignatures(c) ==
  /\ pc[c] = "claim"
  /\ \E limit \in ProcessingLimits :
       LET claimed == Lowest(limit, Claimable) IN
       /\ status' = [s \in Sigs |-> IF s \in claimed THEN "processing" ELSE status[s]]
       /\ attempts' = [s \in Sigs |-> IF s \in claimed THEN attempts[s] + 1 ELSE attempts[s]]
       /\ \/ /\ Answered(c, IF claimed = {} THEN "idle" ELSE "getTransaction")
             /\ batch' = [batch EXCEPT ![c] = claimed]
             /\ UNCHANGED pageVars
          \/ Reject(c)
  /\ UNCHANGED <<watermark, item>>

\* getTransaction answers at "finalized" commitment, null for anything newer.
FoundWhenConfirmed(s) == s <= confirmed
Found(s) == s <= finalized

\* What follows the answer: a transaction without pool rows sends no insert, and
\* parsePoolTransaction throws on one it cannot decode.
AfterTransaction(s) ==
  IF ~Found(s) \/ kind[s] = "malformed" THEN "markFailed"
  ELSE IF kind[s] = "transact" THEN "insertRows" ELSE "markDone"

GetTransaction(c) ==
  /\ pc[c] = "getTransaction"
  /\ \E s \in batch[c] :
       /\ item' = [item EXCEPT ![c] = s]
       /\ pc' = [pc EXCEPT ![c] = AfterTransaction(s)]
       /\ awaiting' = [awaiting EXCEPT ![c] =
                         IF AfterTransaction(s) = "insertRows" THEN Tables ELSE {}]
  /\ UNCHANGED <<chainVars, queueVars, watermark, rows, orphans, phase, pageVars,
                 batch, omitted, faults, budgetVars>>

AnyInsertAnswered(left) == left # Tables
InsertsAnswered(left) == left = {}

\* One of the three inserts of the Promise.all commits and answers.
InsertRows(c, t) ==
  LET left == awaiting[c] \ {t} IN
  /\ pc[c] = "insertRows"
  /\ t \in awaiting[c]
  /\ rows' = [rows EXCEPT ![t] = @ \union {item[c]}]
  /\ awaiting' = [awaiting EXCEPT ![c] = left]
  /\ pc' = [pc EXCEPT ![c] = IF InsertsAnswered(left) THEN "markDone" ELSE "insertRows"]
  /\ UNCHANGED <<chainVars, queueVars, watermark, orphans, phase, pageVars, batch,
                 item, omitted, faults, budgetVars>>

\* The item is settled: the loop takes the next one, or the call returns.
NextItem(c) ==
  LET left == batch[c] \ {item[c]} IN
  /\ Answered(c, IF left = {} THEN "idle" ELSE "getTransaction")
  /\ batch' = [batch EXCEPT ![c] = left]
  /\ item' = [item EXCEPT ![c] = 0]
  /\ UNCHANGED pageVars

MarkDone(c) ==
  /\ pc[c] = "markDone"
  /\ status' = [status EXCEPT ![item[c]] = "done"]
  /\ NextItem(c) \/ (Reject(c) /\ UNCHANGED item)
  /\ UNCHANGED <<attempts, watermark>>

ExhaustedTooLate(s) == attempts[s] > MaxAttempts
Exhausted(s) == attempts[s] >= MaxAttempts

\* A rejection here leaves processSignatures, and the rest of the batch with it.
MarkProcessingFailure(c) ==
  /\ pc[c] = "markFailed"
  /\ status' = [status EXCEPT ![item[c]] =
                  IF Exhausted(item[c]) THEN "failed_terminal" ELSE "failed_transient"]
  /\ NextItem(c) \/ (Reject(c) /\ item' = [item EXCEPT ![c] = 0])
  /\ UNCHANGED <<attempts, watermark>>

-----------------------------------------------------------------------------
(* Inserts nobody waits for any more, and the end of the process.          *)

OrphanEnds(t, s) ==
  /\ <<t, s>> \in orphans
  /\ orphans' = orphans \ {<<t, s>>}
  /\ \/ rows' = [rows EXCEPT ![t] = @ \union {s}]
     \/ UNCHANGED rows
  /\ UNCHANGED <<chainVars, queueVars, watermark, phase, pc, pageVars, batch,
                 itemVars, omitted, faults, budgetVars>>

\* A new process starts: the database is all that is left.
Restart ==
  /\ phase' = "up"
  /\ pc' = [c \in Callers |-> "idle"]
  /\ until' = [c \in Callers |-> 0]
  /\ page' = [c \in Callers |-> {}]
  /\ batch' = [c \in Callers |-> {}]
  /\ item' = [c \in Callers |-> 0]
  /\ awaiting' = [c \in Callers |-> {}]
  /\ orphans' = orphans \union UNION {awaiting[c] \X {item[c]} : c \in Callers}
  /\ UNCHANGED <<chainVars, queueVars, watermark, rows, omitted, faults>>

Crash ==
  /\ crashes < MaxCrashes
  /\ crashes' = crashes + 1
  /\ Restart
  /\ UNCHANGED shutdowns

\* shutdown(): close the server, which waits for the requests it is serving;
\* stop the worker, which waits for its active run; exit.
ShutdownStep(from, to) ==
  /\ phase = from
  /\ phase' = to
  /\ UNCHANGED <<chainVars, queueVars, watermark, rows, orphans, pc, pageVars,
                 batch, itemVars, omitted, faults, crashes>>

BeginShutdown ==
  /\ shutdowns < MaxShutdowns
  /\ shutdowns' = shutdowns + 1
  /\ ShutdownStep("up", "closing")

StopWorker ==
  /\ \A c \in ApiCallers : pc[c] = "idle"
  /\ ShutdownStep("closing", "stopping")
  /\ UNCHANGED shutdowns

NotAwaited == TRUE
ActiveRunEnded == pc[Worker] = "idle"

Exit ==
  /\ phase = "stopping"
  /\ ActiveRunEnded
  /\ Restart
  /\ UNCHANGED budgetVars

-----------------------------------------------------------------------------

Discover(c) == FindState(c) \/ GetSignatures(c) \/ InsertSignatures(c) \/ UpsertState(c)
Process(c) ==
  \/ ClaimPendingSignatures(c) \/ GetTransaction(c)
  \/ \E t \in Tables : InsertRows(c, t)
  \/ MarkDone(c) \/ MarkProcessingFailure(c)

Next ==
  \/ Confirm \/ Finalize
  \/ Tick
  \/ \E c \in ApiCallers : RequestDiscover(c) \/ RequestProcess(c)
  \/ \E c \in Callers : Discover(c) \/ Process(c) \/ Throw(c)
  \/ \E t \in Tables, s \in Sigs : OrphanEnds(t, s)
  \/ Crash \/ BeginShutdown \/ StopWorker \/ Exit

Spec == Init /\ [][Next]_vars

\* The interval fires while the worker runs, Node resumes every answered await,
\* and a shutdown under way goes on.  Nothing is assumed of the chain, of the
\* API's clients, or of the faults.
Fairness ==
  /\ WF_vars(Tick)
  /\ \A c \in Callers : WF_vars(Discover(c) \/ Process(c))
  /\ WF_vars(StopWorker) /\ WF_vars(Exit)

FairSpec == Spec /\ Fairness

-----------------------------------------------------------------------------
(* Properties                                                              *)

Steps == Awaits \union {"idle"}

\* Every variable stays in its domain; in particular no attempt count passes
\* MaxAttempts, though no guard of the claim query looks at it.
TypeOK ==
  /\ kind \in [Sigs -> Kinds]
  /\ confirmed \in 0..MaxTx /\ finalized \in 0..confirmed
  /\ status \in [Sigs -> Statuses]
  /\ attempts \in [Sigs -> 0..MaxAttempts]
  /\ watermark \in 0..confirmed
  /\ rows \in [Tables -> SUBSET Sigs]
  /\ orphans \subseteq Tables \X Sigs
  /\ phase \in {"up", "closing", "stopping"}
  /\ pc \in [Callers -> Steps]
  /\ until \in [Callers -> 0..MaxTx]
  /\ page \in [Callers -> SUBSET Sigs]
  /\ batch \in [Callers -> SUBSET Sigs]
  /\ item \in [Callers -> 0..MaxTx]
  /\ awaiting \in [Callers -> SUBSET Tables]
  /\ omitted \subseteq Sigs
  /\ faults \in 0..MaxFaults /\ crashes \in 0..MaxCrashes /\ shutdowns \in 0..MaxShutdowns

\* Whatever the callers, the lost answers and the restarts, a signature is being
\* processed by at most one call, and a claimed row is "processing" until its own
\* call settles it (SKIP LOCKED and the status filter of claimPendingSignatures).
\* Only the item whose markDone was applied but not acknowledged is already "done".
ClaimExclusive ==
  /\ \A c, d \in Callers : c # d => batch[c] \intersect batch[d] = {}
  /\ \A c \in Callers : \A s \in batch[c] :
       status[s] = "processing" \/ (status[s] = "done" /\ s = item[c] /\ pc[c] = "markFailed")

\* A signature marked done has had its effect: if the transaction touches the pool,
\* its outputs, its root and its nullifiers are all stored (the three inserts of
\* processSignatures are separate statements, and markDone comes after all three).
DoneIsIndexed ==
  \A s \in Sigs : status[s] = "done" /\ kind[s] = "transact" =>
                    \A t \in Tables : s \in rows[t]

\* The pool tables only ever hold what succeeded at finalized commitment, although
\* signatures are discovered at "confirmed" and inserts outlive their calls.
NothingPremature ==
  \A t \in Tables : \A s \in rows[t] : s <= finalized /\ kind[s] = "transact"

\* The retry budget: a queued retry has attempts left, a signature is given up
\* exactly at the last one, and nothing is in work that was never claimed.
AttemptsAccounted ==
  \A s \in Sigs :
    /\ status[s] \in {"unseen", "pending"} <=> attempts[s] = 0
    /\ status[s] = "failed_transient" => attempts[s] < MaxAttempts
    /\ status[s] = "failed_terminal" => attempts[s] = MaxAttempts

\* The watermark never passes a signature that was neither recorded nor left out by
\* a full page: rejections, crashes between the two writes and concurrent
\* discoveries that overwrite each other's watermark lose nothing.
WatermarkCovered ==
  \A s \in 1..watermark : status[s] # "unseen" \/ s \in omitted

\* While no await has rejected and the process was only ever stopped by shutdown(),
\* every "processing" row has a call working on it: shutdown abandons no claim.
ClaimsAreHeld ==
  faults = 0 /\ crashes = 0 =>
    \A s \in Sigs : status[s] = "processing" => \E c \in Callers : s \in batch[c]

\* Indexed rows are never taken back, a given-up signature stays given up, and a done
\* one is queued again only after a lost answer (never by a rediscovery or a claim).
SettledStays ==
  [][/\ \A t \in Tables : rows[t] \subseteq rows'[t]
     /\ \A s \in Sigs : /\ status[s] = "failed_terminal" => status'[s] = "failed_terminal"
                        /\ status[s] = "done" /\ status'[s] # "done" => faults > 0]_vars

\* Every confirmed transaction is eventually done or given up: the worker discovers
\* it, claims it and retries it as often as it takes.
EventuallySettled ==
  \A s \in Sigs : confirmed >= s ~> status[s] \in {"done", "failed_terminal"}

\* ensureContiguousOutputs (merkle.service.ts) holds the outputs table to this: once
\* every recorded signature is settled and none was given up, no pool transaction is
\* missing below an indexed one.
Quiet == /\ \A s \in Sigs : status[s] \in {"unseen", "done"}
         /\ \A c \in Callers : pc[c] = "idle"
OutputsContiguous ==
  Quiet => \A s \in rows["outputs"] : \A p \in 1..s :
             kind[p] = "transact" => p \in rows["outputs"]
=============================================================================
