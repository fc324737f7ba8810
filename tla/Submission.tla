----------------------------- MODULE Submission -----------------------------
(***************************************************************************)
(* Sending a prepared operation: sendTransfer and sendDeposit of the       *)
(* client facade, through the relayer (its HTTP client and the service     *)
(* behind it) or through the wallet's own transaction executor; the        *)
(* confirmation loops of both; and the chain they read.                    *)
(*                                                                         *)
(* A transaction is determined by its operation and the last block height  *)
(* at which its blockhash is valid: building one twice from the same       *)
(* blockhash gives the same signature.  An operation spends notes, by the  *)
(* nullifiers of its proof; two transfers prepared one after the other may *)
(* spend the same ones.                                                    *)
(***************************************************************************)
EXTENDS Integers

CONSTANTS
  Operations,  \* prepared transfers and deposits
  Relayed,     \* the transfers sent through the relayer; the wallet sends deposits, and
               \* the transfers of a client without a relayer
  Sharing,     \* sets of transfers that spend the same note
  Calls,       \* invocations of sendTransfer and sendDeposit
  None,        \* no operation
  Lifetime,    \* blocks for which a blockhash stays valid
  MaxHeight    \* bound on the chain's growth

ASSUME OperationsAssumption == Relayed \subseteq Operations /\ Sharing \subseteq SUBSET Operations
ASSUME NoneAssumption == None \notin Operations
ASSUME HeightAssumption == MaxHeight \in Nat /\ Lifetime \in Nat \ {0}

VARIABLES
  height, sent, block, ledger,   \* the chain: confirmed height, transactions with the
                                 \* leaders, in the processed block, confirmed
  signer, tables,                \* cached: the relayer's signer, the browser's lookup tables
  message,                       \* last valid height of each prepared message, 0 if none
  op, pc, dry, expires, late,    \* each call: operation, place, still simulating, last
                                 \* valid height of its transaction, deadline passed
  answer                         \* what the caller was told

chainVars == <<height, sent, block, ledger>>
cacheVars == <<signer, tables>>
vars == <<chainVars, cacheVars, message, op, pc, dry, expires, late, answer>>

Tx(o, h) == [op |-> o, expires |-> h]
Transactions == [op : Operations, expires : 0..(MaxHeight + Lifetime)]
Entries == [tx : Transactions, ok : BOOLEAN]
TxOf(c) == Tx(op[c], expires[c])

Answers == {"receipt", "failed", "expired", "timeout", "error", "lost"}
Looping == {"status", "height", "sleep"}
Places == {"idle", "signer", "blockhash", "tables", "simulate", "sign", "send"} \union Looping
Caches == {"none", "ready", "broken"}

Init ==
  /\ height = 0 /\ sent = {} /\ block = {} /\ ledger = {}
  /\ signer = "none" /\ tables = "none"
  /\ message = [o \in Operations |-> 0]
  /\ op = [c \in Calls |-> None]
  /\ pc = [c \in Calls |-> "idle"]
  /\ dry = [c \in Calls |-> TRUE]
  /\ expires = [c \in Calls |-> 0]
  /\ late = [c \in Calls |-> FALSE]
  /\ answer = [c \in Calls |-> "none"]

-----------------------------------------------------------------------------
(* The chain and the pool program, external to the repository.             *)

Conflict(o, p) == o = p \/ \E S \in Sharing : {o, p} \subseteq S
Paid(entries) == {e.tx : e \in {f \in entries : f.ok}}
Spendable(o, entries) == \A tx \in Paid(entries) : ~Conflict(o, tx.op)
Included(entries) == {e.tx : e \in entries}

\* A leader puts a transaction into the next block; it fails there if the note's
\* nullifier exists.
Land(tx) ==
  /\ tx \in sent \ Included(ledger \union block)
  /\ height < tx.expires
  /\ block' = block \union {[tx |-> tx, ok |-> Spendable(tx.op, ledger \union block)]}
  /\ UNCHANGED <<height, sent, ledger, cacheVars, message, op, pc, dry, expires, late,
                 answer>>

\* The processed block is confirmed, or its fork is dropped for an empty block.
NextBlock ==
  /\ height < MaxHeight
  /\ height' = height + 1
  /\ ledger' \in {ledger \union block, ledger}
  /\ block' = {}
  /\ UNCHANGED <<sent, cacheVars, message, op, pc, dry, expires, late, answer>>

\* What simulateTransaction and the preflight of sendTransaction find at "confirmed".
SimulationOk(tx) ==
  height <= tx.expires /\ tx \notin Included(ledger) /\ Spendable(tx.op, ledger)

-----------------------------------------------------------------------------
(* Calls.                                                                  *)

\* The message is built once, when the operation is prepared; its blockhash ages
\* until the caller sends it.
PrepareMessage(o) ==
  /\ o \notin Relayed /\ message[o] = 0
  /\ message' = [message EXCEPT ![o] = height + Lifetime]
  /\ UNCHANGED <<chainVars, cacheVars, op, pc, dry, expires, late, answer>>

FirstPlace(o) == IF o \in Relayed THEN "signer" ELSE "tables"

\* The facade: simulate first, then send.
Begin(c, o) ==
  /\ op[c] = None
  /\ op' = [op EXCEPT ![c] = o]
  /\ pc' = [pc EXCEPT ![c] = FirstPlace(o)]
  /\ UNCHANGED <<chainVars, cacheVars, message, dry, expires, late, answer>>

BeginRelayed(c, o) == o \in Relayed /\ Begin(c, o)
BeginSigned(c, o) == message[o] > 0 /\ Begin(c, o)

\* Mutant: a late answer replaces the one given.
ToldAgain(c, a) == answer' = [answer EXCEPT ![c] = a]

\* The caller is told once; the relayer's answer finds nobody when the request
\* has been given up.
Told(c, a) == answer' = [answer EXCEPT ![c] = IF @ = "none" THEN a ELSE @]
GoTo(c, place) == pc' = [pc EXCEPT ![c] = place] /\ UNCHANGED answer
End(c, a) == pc' = [pc EXCEPT ![c] = "idle"] /\ Told(c, a)

\* Any await on the network or the wallet may reject.
Reject(c) ==
  /\ pc[c] \in {"blockhash", "simulate", "sign", "send", "status", "height"}
  /\ End(c, "error")
  /\ UNCHANGED <<chainVars, cacheVars, message, op, dry, expires, late>>

\* loadRelayerSigner and fetchAddressesForLookupTables: a key file is repaired or
\* broken, a request answered or not.
Load == {"ready", "broken"}

\* The promise is cached as it is, rejected or not.
Cached(cache) == IF cache = "none" THEN Load ELSE {cache}

GetSigner(c) ==
  /\ pc[c] = "signer"
  /\ signer' \in Cached(signer)
  /\ IF signer' = "ready" THEN GoTo(c, "blockhash") ELSE End(c, "error")
  /\ UNCHANGED <<chainVars, tables, message, op, dry, expires, late>>

\* Mutant: off by one, a blockhash that has not been produced yet.
BuildAhead(c) ==
  /\ pc[c] = "blockhash"
  /\ expires' = [expires EXCEPT ![c] = height + 1 + Lifetime]
  /\ GoTo(c, "simulate")
  /\ UNCHANGED <<chainVars, cacheVars, message, op, dry, late>>

\* buildSignedTransaction: every request gets a blockhash of its own.
BuildSignedTransaction(c) ==
  /\ pc[c] = "blockhash"
  /\ expires' = [expires EXCEPT ![c] = height + Lifetime]
  /\ GoTo(c, "simulate")
  /\ UNCHANGED <<chainVars, cacheVars, message, op, dry, late>>

\* The compressor of the executor: the lookup tables are fetched once, and the
\* cached promise is kept when it rejects.
CompressMessage(c) ==
  /\ pc[c] = "tables"
  /\ tables' \in Cached(tables)
  /\ expires' = [expires EXCEPT ![c] = message[op[c]]]
  /\ IF tables' = "ready" THEN GoTo(c, IF dry[c] THEN "simulate" ELSE "sign")
                          ELSE End(c, "error")
  /\ UNCHANGED <<chainVars, signer, message, op, dry, late>>

\* The facade's simulation.  Nobody sends for a caller that has gone.
SimulateFirst(c) ==
  /\ pc[c] = "simulate" /\ dry[c]
  /\ IF SimulationOk(TxOf(c))
       THEN GoTo(c, IF answer[c] = "none" THEN FirstPlace(op[c]) ELSE "idle")
       ELSE End(c, "error")
  /\ dry' = [dry EXCEPT ![c] = FALSE]
  /\ UNCHANGED <<chainVars, cacheVars, message, op, expires, late>>

\* submitTransfer of the relayer simulates the very transaction it will send.
SimulateAgain(c) ==
  /\ pc[c] = "simulate" /\ ~dry[c]
  /\ IF SimulationOk(TxOf(c)) THEN GoTo(c, "send") ELSE End(c, "error")
  /\ UNCHANGED <<chainVars, cacheVars, message, op, dry, expires, late>>

Sign(c) ==
  /\ pc[c] = "sign"
  /\ GoTo(c, "send")
  /\ UNCHANGED <<chainVars, cacheVars, message, op, dry, expires, late>>

\* sendTransaction with preflight: refused, or accepted, and then the answer may
\* still be lost.
Send(c) ==
  /\ pc[c] = "send"
  /\ IF SimulationOk(TxOf(c))
       THEN sent' = sent \union {TxOf(c)} /\ (GoTo(c, "status") \/ End(c, "error"))
       ELSE UNCHANGED sent /\ End(c, "error")
  /\ UNCHANGED <<height, block, ledger, cacheVars, message, op, dry, expires, late>>

SendRelayed(c) == op[c] \in Relayed /\ Send(c)
SendSigned(c) == op[c] \notin Relayed /\ Send(c)

-----------------------------------------------------------------------------
(* waitForConfirmation of the relayer, confirmSignature of the executor.   *)

\* Mutant: a status of "processed" is taken for a confirmation.
ProcessedIsEnough(entries) == entries

Confirmed(entries) == entries \intersect ledger

Entry(c) == {e \in ledger \union block : e.tx = TxOf(c)}

\* A failure counts at any commitment, a success from "confirmed" on.
ReadStatus(c) ==
  /\ pc[c] = "status"
  /\ IF \E e \in Entry(c) : ~e.ok THEN End(c, "failed")
     ELSE IF Confirmed(Entry(c)) # {} THEN End(c, "receipt")
     ELSE GoTo(c, "height")
  /\ UNCHANGED <<chainVars, cacheVars, message, op, dry, expires, late>>

\* Mutant: off by one, the blockhash is still valid at its last height.
ExpiresSoon(c) == height >= expires[c] - 1

Expired(c) == height > expires[c]

\* The relayer looks at its clock before each round, the executor at the end of one.
ReadHeightRelayed(c) ==
  /\ pc[c] = "height" /\ op[c] \in Relayed
  /\ IF Expired(c) THEN End(c, "expired") ELSE GoTo(c, "sleep")
  /\ UNCHANGED <<chainVars, cacheVars, message, op, dry, expires, late>>

ReadHeightSigned(c) ==
  /\ pc[c] = "height" /\ op[c] \notin Relayed
  /\ IF Expired(c) THEN End(c, "expired")
     ELSE IF late[c] THEN End(c, "timeout") ELSE GoTo(c, "sleep")
  /\ UNCHANGED <<chainVars, cacheVars, message, op, dry, expires, late>>

\* Mutant: the relayer's loop without its clock.
WakeUnclocked(c) ==
  /\ pc[c] = "sleep"
  /\ GoTo(c, "status")
  /\ UNCHANGED <<chainVars, cacheVars, message, op, dry, expires, late>>

Wake(c) ==
  /\ pc[c] = "sleep"
  /\ IF op[c] \in Relayed /\ late[c] THEN End(c, "timeout") ELSE GoTo(c, "status")
  /\ UNCHANGED <<chainVars, cacheVars, message, op, dry, expires, late>>

Deadline(c) ==
  /\ pc[c] \in Looping /\ ~late[c]
  /\ late' = [late EXCEPT ![c] = TRUE]
  /\ UNCHANGED <<chainVars, cacheVars, message, op, pc, dry, expires, answer>>

-----------------------------------------------------------------------------
(* Callers that go away, processes that end.                               *)

\* The timeout signal of the relayer's HTTP client.
GiveUp(c) ==
  /\ op[c] \in Relayed /\ answer[c] = "none"
  /\ Told(c, "lost")
  /\ UNCHANGED <<chainVars, cacheVars, message, op, pc, dry, expires, late>>

Ends(stopped, told, a) ==
  /\ pc' = [c \in Calls |-> IF op[c] \in stopped THEN "idle" ELSE pc[c]]
  /\ answer' = [c \in Calls |-> IF op[c] \in told /\ answer[c] = "none"
                                THEN a ELSE answer[c]]

\* The relayer's process restarts; requests under way are cut off.
RelayerRestart ==
  /\ Ends(Relayed, Relayed, "error")
  /\ signer' = "none"
  /\ UNCHANGED <<chainVars, tables, message, op, dry, expires, late>>

\* The page is closed or reloaded: its prepared operations and its calls are lost
\* with it, but not the requests that the relayer has received.
Reload ==
  /\ Ends(Operations \ Relayed, Operations, "lost")
  /\ tables' = "none"
  /\ message' = [o \in Operations |-> 0]
  /\ UNCHANGED <<chainVars, signer, op, dry, expires, late>>

-----------------------------------------------------------------------------

Advance(c) ==
  \/ GetSigner(c) \/ BuildSignedTransaction(c) \/ CompressMessage(c)
  \/ SimulateFirst(c) \/ SimulateAgain(c) \/ SendRelayed(c) \/ SendSigned(c)
  \/ ReadStatus(c) \/ ReadHeightRelayed(c) \/ ReadHeightSigned(c) \/ Wake(c) \/ Reject(c)

Next ==
  \/ \E tx \in sent : Land(tx)
  \/ NextBlock
  \/ \E o \in Operations : PrepareMessage(o)
  \/ \E c \in Calls, o \in Operations : BeginRelayed(c, o) \/ BeginSigned(c, o)
  \/ \E c \in Calls : Advance(c) \/ Sign(c) \/ Deadline(c) \/ GiveUp(c)
  \/ RelayerRestart \/ Reload

Spec == Init /\ [][Next]_vars

\* Requests settle, one way or the other, and time passes.  The wallet's user may
\* leave the prompt open for ever, and nothing is assumed of the chain.
Fairness == \A c \in Calls : WF_vars(Advance(c)) /\ WF_vars(Deadline(c))
FairSpec == Spec /\ Fairness

-----------------------------------------------------------------------------
(* Properties                                                              *)

TypeOK ==
  /\ height \in 0..MaxHeight
  /\ sent \subseteq Transactions
  /\ block \subseteq Entries /\ ledger \subseteq Entries
  /\ signer \in Caches /\ tables \in Caches
  /\ message \in [Operations -> 0..(MaxHeight + Lifetime)]
  /\ op \in [Calls -> Operations \union {None}]
  /\ pc \in [Calls -> Places]
  /\ dry \in [Calls -> BOOLEAN]
  /\ expires \in [Calls -> 0..(MaxHeight + Lifetime)]
  /\ late \in [Calls -> BOOLEAN]
  /\ answer \in [Calls -> Answers \union {"none"}]

\* A receipt names a transaction that has paid and stays paid, whatever forks are
\* dropped between the status read and the answer (commitmentReached).
ReceiptIsTrue ==
  \A c \in Calls : answer[c] = "receipt" => [tx |-> TxOf(c), ok |-> TRUE] \in ledger

\* When a call reports that its transaction expired, its fate is settled: it will
\* not land later, so a new attempt cannot be overtaken by the old one.
ExpiredIsSettled ==
  [][\A c \in Calls : answer[c] = "expired" =>
       \A e \in ledger' \ ledger : e.tx # TxOf(c)]_vars

\* "Transaction expired before confirmation": the error of both loops says that the
\* transaction was not confirmed.
ExpiredIsUnpaid ==
  \A c \in Calls : answer[c] = "expired" => [tx |-> TxOf(c), ok |-> TRUE] \notin ledger

\* Every call is answered and every loop ends, unless the wallet's prompt stays open.
CallsEnd ==
  \A c \in Calls : op[c] # None ~> \/ (pc[c] = "idle" /\ answer[c] # "none")
                                   \/ pc[c] = "sign"

\* The submission of operations delivers them (module Delivery).
D == INSTANCE Delivery WITH paid <- Paid(ledger), request <- op
Delivers == D!Spec
=============================================================================
