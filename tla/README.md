# Privacy Trash: specifications

TLA+ specifications of the Privacy Trash application (backend, client library,
frontend, program SDK), checked with TLC on small instances and, for the
properties that matter most, proved with TLAPS for every value of the constants.

    tlc -workers 2 -config IndexerSafety.cfg Indexer.tla   # one run
    tlapm IndexerProofs.tla                                # one proof module

`PROJECT.json` lists the runs, the mutants that show each property can fail,
the source lines of every definition, the hazards and the theorems. A definition
that nothing uses is the form that a mutant gives to another one.

## The system

The pool is an on-chain program (not in the repository). A private transfer
spends notes by nullifier and appends output commitments to the program's
Merkle tree; the rest of the system follows the program and builds transactions
for it.

| Component | Source | State | Operations | What is hard, and what makes it correct | Modelled by |
|---|---|---|---|---|---|
| Indexer | `apps/backend/src/modules/indexer`, `index.ts`, `routes/indexer.route.ts` | `indexer_signatures` (status, attempts), `indexer_state` (watermark), the worker's active run | discover, claim, process, mark, start, stop | Worker and API interleave; every await may reject with or without effect; the process dies. Nothing is lost, done twice at once, or done without its rows | Indexer |
| Chain reader | `modules/chain` | none | page of signatures, one transaction | Two commitments: discovered at confirmed, read at finalized | Indexer |
| Pool parser, tables, queries | `modules/pool`, `db/schema.ts` | `pool_outputs`, `pool_observed_roots`, `spent_nullifiers` | parse, three inserts, ranges, lookups | Several pool calls and other programs' logs in one transaction; separate statements, several snapshots in one answer | PoolParser, Indexer, NoteSync, PrivatePool |
| Merkle | `modules/merkle` | none (rebuilt from the outputs) | root, path, proofs | Needs outputs without a hole; proofs go stale | MerkleTree, PrivatePool |
| Relayer | `modules/relayer` | cached signer | simulate, submit, confirm | Confirmation against timeout and block height | Submission, Transact |
| Note backup and sync | `packages/client/src/notes.ts`, `sync.ts`, `browser.ts`, `owned.ts` | one sessionStorage key of the tab per program and owner | export, import, clear, sync a page, scan | A backup is read before an await and written after it; several scans of the page share it | NoteSync |
| Quotes, selection | `transfer.ts`, `deposit.ts`, `owned.ts` | none | fees, gross search, note choice | Rounding, the last lamport, two notes at most | Quotes, GrossSearch, NoteSelection |
| Prover, circuit, outputs | `prover.ts`, `circuit.ts`, `utxo.ts` | none | bind notes to paths, circuit input, encrypt and decrypt | Amounts balance; nullifiers belong to positions that were guessed | Utxo, Circuit, PrivatePool |
| Submission | `transaction-executor.ts`, `chain.ts`, `lookup-tables.ts`, `relayer.ts` | cached lookup tables | simulate, send, confirm | Late answers; retry of what has landed | Submission |
| Private transfer and deposit | `private-transfer.ts`, `private-deposit.ts` | none | prepare, simulate, send by either route | Both routes must give the program the same instruction | Transact, PrivatePool |
| Client facade | `client.ts`, `wallet.ts` | unlock signature | unlock, quote, prepare, simulate, send, sync | Every step reads the indexer anew; checks between the steps | PrivatePool, Schemas |
| Transfer flow | `apps/frontend/src/features/transfer` | reducer state, client of the current wallet, balance | review, prepare, execute, cancel | Results of an abandoned preparation; values captured by a render | TransferFlow |
| Wallet and identity | `features/wallet` | connection, session cache | connect, unlock, forget | Account changes while a prompt is open | TransferFlow |
| Program SDK | `packages/sdk` | none | addresses, instruction builders, decoder | Order of accounts and of fields | Instructions |
| API plumbing, configuration, pages | `api`, `config`, `db/client.ts`, React components | none of their own | validate, format, render | | not modelled |

The parts meet in four places: the indexer fills the tables that the pool
queries read; the note sync of a browser reads the pool queries page by page;
what a device prepares from them is sent through the relayer or the wallet; and
a transaction that lands comes back as a signature for the indexer.

## Modules

| Module | Kind | Uses |
|---|---|---|
| Indexer, IndexerProofs | component, theorems | |
| NoteSync, NoteSyncProofs | component, theorems | |
| Delivery | abstract specification of sending | |
| Submission, SubmissionProofs | component that implements Delivery, theorems | Delivery |
| TransferFlow, TransferFlowProofs | component, theorems | |
| Quotes, QuotesProofs | operators: fees and quotes, theorems | |
| GrossSearch, GrossSearchProofs | the search for a gross amount as a loop, theorems | Quotes |
| NoteSelection | operators: choice of notes | |
| MerkleTree, PoolParser, Utxo, Circuit, Instructions, Transact, Schemas | operators, below | each other |
| PoolDataProofs | theorems about the operators of NoteSelection, Instructions, PoolParser and MerkleTree | QuotesProofs |
| PoolLedger | abstract specification of a wallet's balance | Quotes |
| PrivatePool, PrivatePoolProofs | composition of all operators with the tables and the chain, implements PoolLedger, theorems | all of the operators, PoolDataProofs |

### Indexer.tla

A transaction is its position in the program's history, which is also its slot
order. `kind` says what it does (`transact`, no pool event, failed, undecodable);
`confirmed` and `finalized` are the prefixes the RPC shows at each commitment.

| Variables | In the code |
|---|---|
| `status`, `attempts` | table `indexer_signatures`; `"unseen"` is a signature without a row |
| `watermark` | `indexer_state.high_watermark_signature` |
| `rows` | which transactions' rows are in each pool table (unique indexes: a second insert of the same row does nothing) |
| `orphans` | inserts still running whose `Promise.all` has rejected, or whose process has died |
| `pc`, `until`, `page`, `batch`, `item`, `awaiting` | where each caller is between two awaits, and its locals there |
| `phase` | `shutdown()`: server open, server closing, worker stopping |
| `omitted` | history variable: the signatures that a full page left out |

Each action is what the code does between two awaits: `FindState`,
`GetSignatures`, `InsertSignatures`, `UpsertState` (discoverSignatures),
`ClaimPendingSignatures`, `GetTransaction`, `InsertRows`, `MarkDone`,
`MarkProcessingFailure` (processSignatures). A write is applied and answered, or
applied and its answer lost (the disjunct `Reject`), or not applied (`Throw`).
`Tick`, `RequestDiscover` and `RequestProcess` are the callers; runOnce returns
its active run, so the worker is one sequential caller. `Crash` loses everything
but the database; `BeginShutdown`, `StopWorker` and `Exit` are index.ts.

Abstractions: slots are positions (no two signatures share one); a confirmed
transaction is not dropped by a fork; a batch is processed in any order, which
includes the code's; the limits of the worker and of the API are drawn from one
set; `INDEXER_AUTO_RUN` is on; the attempt count that the code compares is the
one its claim returned, which is the row's because no other call may touch the
row (`ClaimExclusive`); a root row belongs to the transaction that first proved
against it, and its conflict counts as stored.

### NoteSync.tla

One owner's backup for one program. An output is its index; a backup is the set
of outputs it holds and its fetch offset. The backend's `table` is filled in any
order, since the indexer settles signatures in any order, so it may have holes.
`store[Local]` is the key in the tab's sessionStorage, `store[s]` the memory storage of full
scan `s`. A scan exports its storage and sends a request at once (`Start`,
`SyncAgain`), the backend answers the range and the count from two snapshots
(`QueryRows`, `QueryTotal`), and `Receive` checks the range and imports it over
whatever the storage holds by then. `Publish` and `ListOwnedNotes` end a
scanPrivateNotes; `"single"` is a syncNotes through the client facade. The user
clears the storage or imports a backup (`ClearNotes`, `ImportNotes`). `due` is a
history variable: what a scan has to find; once an incremental scan has its last
page, what another write takes out of the storage leaves its `due` too (`Excuse`),
because the code does not list it. Left out: ciphertexts, timestamps and
the list of history indexes, which no check of the code looks at; decryption and
the nullifier requests, which change nothing; imported backups that were not
exported by a scan.

### Submission.tla, Delivery.tla

An operation is a prepared transfer or deposit; a call is one sendTransfer or
sendDeposit of the facade. A transaction is its operation and its last valid
block height, since building one twice from the same blockhash gives the same
signature.

| Variables | In the code |
|---|---|
| `height`, `sent`, `block`, `ledger` | the chain: confirmed height, what the leaders hold, the block processed but not confirmed, what is confirmed (with success or not) |
| `signer`, `tables` | the promises cached by relayer.service.ts and lookup-tables.ts, also when they reject |
| `message` | the blockhash a wallet-signed message got when it was prepared; it ages until it is sent |
| `op`, `pc`, `dry`, `expires`, `late` | each call: what it sends, the await it is at, whether it still simulates, its transaction, its deadline |
| `answer` | what its caller was told |

`GetSigner`, `BuildSignedTransaction`, `CompressMessage`, `SimulateFirst`,
`SimulateAgain`, `Sign`, `SendRelayed`, `SendSigned`, `ReadStatus`,
`ReadHeightRelayed`, `ReadHeightSigned` and `Wake` are the steps between awaits
of the two routes and of the two confirmation loops, which read the status first
and the height after it. `Reject` is a request that fails, `Deadline` a timeout,
`GiveUp` a caller whose HTTP request to the relayer times out while the relayer
goes on, `RelayerRestart` and `Reload` the end of either process. `Land` and
`NextBlock` are the chain: a transaction lands until its height has passed,
fails if a note it spends was spent, and its block may be dropped before it is
confirmed.

Delivery says what a caller may rely on: only operations somebody asked to send
are paid, no two payments share a note (two transactions of one operation count
as sharing), and a caller is told once, and told "receipt" only of a paid
operation. `Delivers` is `D!Spec` under `paid <- Paid(ledger)`,
`request <- op`. It covers the retry of an operation whose call failed without
having failed: the second call has an `op` of its own, and both transactions may
be under way.

### TransferFlow.tla

The page. `account`, `selected`, `connecting`, `walletModal`, `pending`,
`inFlight` are the adapter and useWalletConnection; `cache` is the session's
signature per wallet, `client` the ref that holds the private client; `flow` is
the reducer's state, with one operator per action type; `load`, `balance`,
`abandoned` are usePrivateBalance. A job is one run of prepareOperation or
executeOperation; it works on what its render captured (`who`, `op`) while the
user goes on. Jobs in flight are not cancelled by `CancelReview`, by another
review or by an account switch, as in the code; `Render` is what the effects do
after a change they depend on, in the step that makes the change. React commits
the change first and runs a passive effect after it: for one frame after an
account switch or a receipt the page still shows the balance before
(use-private-balance.ts:87-104). `BalanceIsOwn` and `BalanceIsFresh` are about
the page once the effect has run. `changes`, `reviews` and `done` are counted for
the bounds and `mixed` is a history variable.

Abstractions: one account per wallet; a signature is the account that made it;
errors' texts and wallets that are not installed are left out; executing is one
step between the signature and the answer, which module Submission opens up. A
cached signature that fails to decode is deleted and asked for again, which no
property can tell from one that was not there.

`SignsWhatIsShown` is conditional on `~mixed`: the form behind the modal stays
enabled while a call is in flight, and prepare-succeeded is applied to whatever
draft is current (transfer-flow.reducer.ts:95). What such a mixture can not do
is in `OnlyOwnerSends`, which is unconditional.

### Operators

* **Quotes**: fees, gross and net amounts, quotes, with `GrossWithdrawal` as the
  least amount that leaves the recipient enough. **GrossSearch** is the loop of
  calculateGrossWithdrawalLamports (doubling, then halving) as a state machine.
  It has no run: its initial states are all amounts and rates; it is proved.
* **NoteSelection**: pickNotes, the largest note first and at most one more.
* **MerkleTree**: layers over the stored outputs, padded with the zero of each
  layer, paths and the proof of a commitment, and the full tree as reference.
  Hashing is pairing, so two roots are equal only for equal leaves.
* **PoolParser**: which instructions of a transaction are the pool's, their
  nullifiers, the events by the stack of running programs, and which instruction
  an event belongs to.
* **Utxo**: keys, commitments, nullifiers, both versions of an encrypted output
  and the attempts to open one at its index and at the index in its payload.
  Hashes and ciphertexts are records of what went in.
* **Circuit**: input slots and dummies, outputs, the data that is hashed, the
  public signals, the formatted proof. A proof holds its signals, and `Satisfied`
  is what the circuit demands of them.
* **Instructions**, **Transact**: the SDK's builders for all seven instructions
  with their accounts in order, data of transact and its decoder, identification
  and parsing; the relayer's request, schema and policy; the message of the
  relayer and of the wallet executor.
* **Schemas**: the shapes the client's parts demand of each other.

### PrivatePool.tla, PoolLedger.tla

| Variables | In the code |
|---|---|
| `txs`, `calls` | the program's history, external: the shape of each transaction (one call, two calls with an unrelated program's logs between them, a call made by another program) and the calls in order |
| `outputs`, `spends`, `table` | of which transactions the indexer has stored what, and the stored rows |
| `job` | where each device of one wallet is, with exactly the values it carries from one request to the next |

`Scan`, `Quote`, `Select`, `GetMerkleProof`, `Prepare` and `PrepareDeposit` are
the client between two requests to the indexer; `Fail` is any rejection and
any check that throws, `Discard` a transaction that is never sent, is refused or
expires. `Land` sends by either route, the program decides (`Accepts`). The
tables take the outputs and the nullifiers of the transactions in any order, those
of one transaction too (`InsertOutputs`, `InsertSpentNullifiers`): its inserts run
at the same time, and one that rejects is retried later, so its nullifiers may be
stored before its outputs, after them or never. Then a device sees a note that is
spent beside its change, or neither. `Foreign` is another wallet. The history starts with the transaction of the
authority that sets the pool up, and with deposits made by an earlier client,
whose outputs have the first version of the encryption.

PoolLedger says what the wallet's owner is promised: a deposit adds what its fee
leaves, a transfer pays exactly the amount asked for and costs the least gross
amount that does, and nothing else moves the balance. `PaysAsQuoted` is
`Ledger!Spec` with the balance, the payments and the fees read off the chain.

Abstractions: the listing of notes and the request for statuses are one step
(the paging of a scan is NoteSync's); cryptography is ideal, with the unlock
signature as the key; locking and unlocking are TransferFlow's; observed roots
are not kept, because nothing reads them; sending is one step, whose
failures are Submission's. A transaction has one of four shapes: it initializes
the pool, makes one call, makes two calls with a look-alike event of another
program and a token call between them, or is a call made by another program. One
that makes a call itself and has another program make a second is not modelled,
and what is said of rows and balances is said of these shapes.

### The proof modules

`*Proofs.tla`, see below.

## Runs

| Run | Shows | Bounds |
|---|---|---|
| indexer_safety | `TypeOK`, `ClaimExclusive`, `DoneIsIndexed`, `NothingPremature`, `AttemptsAccounted`, `WatermarkCovered`, `SettledStays` hold | 2 transactions (pool or undecodable), the worker and 1 request, pages of 1, batches of 2, 2 tables, 2 attempts, 1 rejection of any await, 1 kill |
| indexer_live | `EventuallySettled`, `ClaimsAreHeld`, `OutputsContiguous` hold | 2 transactions (pool or failed), the same callers, pages of 2, batches of 1, 2 attempts, all 3 tables, 1 rejection of the discovery write or of a transaction read, 1 shutdown, no kill |
| indexer_crash | `EventuallySettled` fails | 1 kill |
| indexer_burst | `OutputsContiguous` fails | pages of 1 |
| note_sync_shared | `TypeOK`, `BackupGapless`, `NeverBehind`, `FullScanCovers`, `IncrementalScanCovers` hold | 3 outputs, pages of 2, 2 scans of any kind, 1 clear, 1 import |
| note_sync_ends | `ScansEnd` holds | 3 outputs, pages of 1, 2 incremental scans, 1 clear |
| note_sync_race | `SyncPreserves` fails | 3 outputs, pages of 1, 2 incremental scans |
| submission | `TypeOK`, `ReceiptIsTrue`, `ExpiredIsSettled`, `Delivers`, `CallsEnd` hold | 1 relayed and 1 wallet-signed transfer that spend the same note, 2 calls, blockhashes of 1 block, 2 blocks |
| submission_expired | `ExpiredIsUnpaid` fails | the same |
| transfer_flow | `TypeOK`, `IdentityIsOwned`, `OnlyOwnerSends`, `SignsWhatIsShown`, `BalanceIsOwn`, `BalanceIsFresh`, `FlowSettles`, `ChoiceIsFollowed` hold | 2 wallets, 1 transfer and 1 deposit form, 2 calls in flight, 1 successful execution, 2 connections or switches, 2 reviews |
| private_pool | `TypeOK`, `ProvenRootsAreReal`, `PreparedVerifies`, `PickIsComplete`, `SettledBalanceIsTrue`, `RowsAreLeaves`, `PaysAsQuoted` hold | 2 devices (symmetric), a tree of height 3, 2 remembered roots, 5 transactions, 1 of them another wallet's, deposits of 3, 4 and 7 lamports, payments of 3, 7 and 8, fees of 20 % and 25 % and 1 lamport of rent, a field of order 101 |
| private_pool_contention | `SpentOnce`, `PaysAsQuoted` hold | the same without other wallets and further deposits, payments of 1 and 3 |

Why these bounds are enough to see the cases. In the indexer two signatures are
the least for which one is claimed while the other is discovered, for a page to
leave one out, and for a batch to be abandoned with work left; two attempts are
the least that tell a retry from the last attempt. Two callers are enough for
every race, since any pair of calls is a worker and a request or behaves as one.
In the note sync three outputs in pages of two give a full page, a partial last
page and a hole at, inside and after a page. In the submission two transfers of
one note, one by each route, meet in each order, both calls may take the same
operation (a retry), and two blocks let a blockhash expire before, between and
after the two reads of a loop. In the transfer flow two drafts and two jobs are
the least for a late answer to meet another draft, two accounts for a prompt to
be signed after a switch. In the pool, the payment of 3 needs both opening
notes, or the third deposit's alone; that of 7 is exactly what the two largest of
the three give; that of 8 no two notes reach, though the balance does; a root is
forgotten after two further calls, and the opening deposits, another wallet's batch of two and the
devices' own calls reach a full tree of eight leaves. In the second run of the pool
a device that has seen only the first deposit pays 1 from that note alone, and
the other pays 3 with the same note behind the larger one: one note, two slots.
The field is larger than
any amount, and a negative amount wraps around it, as in the code. The
properties that are proved do not depend on the bounds.

Deadlock is not checked in the submission run and the two of the pool, whose systems
really stop: every call has been answered and the chain has reached its bound.
That calls do not stop too early is `CallsEnd`.

Every property of a passing run has a mutant in `PROJECT.json`, a plausible bug
in one definition under which TLC finds it violated: a claim of rows that are
being processed, a `Promise.race` for the `Promise.all`, a watermark at the tip
of the chain, an offset advanced by the page size instead of what the page held,
a quote rounded up, a sibling on the wrong side.

### What the failing runs found

* **indexer_crash.** claimPendingSignatures takes `pending` and
  `failed_transient` rows and nothing puts a `processing` row back. After a kill
  (or a rejection of the failure mark itself) the row is never claimed again. The
  trace: discover, claim, kill, restart, and the worker polls for ever.
* **indexer_burst.** One discovery reads the newest page after the watermark and
  moves the watermark past all that page left out. With more new signatures than
  `INDEXER_DISCOVERY_LIMIT` between two ticks (the first tick against an old
  program is one) outputs are missing for good, and the Merkle service, which
  demands contiguous outputs, answers with an error from then on.
* **note_sync_race.** Two overlapping scans: the last answer writes back what was
  read before its request. `BackupGapless` shows that the backup stays
  consistent, so the next scan repairs it, but a scan that lists its notes in
  between reports a balance that is too small.
* **submission_expired.** Both confirmation loops read the status, then the block
  height, and report "expired before confirmation" when the height has passed. A
  transaction confirmed between the two reads, in the last block it could be in,
  is reported so although it has paid. `ExpiredIsSettled` shows the report is at
  least final, and `Delivers` that a retry then pays nothing twice: it fails on
  the spent note.

Met while modelling, without a statement in the repository to hold against them:
createPrivateTransferExecutor and createPrivateDepositExecutor drop a configured
`computeUnitLimit` (private-transfer.ts:118, private-deposit.ts), and the SDK's
builders default some addresses to those of the default program whichever
program is configured.

## Fairness

`EventuallySettled` assumes weak fairness of the worker's interval (`Tick`:
setInterval fires while the worker is not stopped), of every caller's own steps
(Node resumes an await once its promise settles, and each request to the RPC and
to Postgres settles), and of `StopWorker` and `Exit` (shutdown is a chain of
awaits). Nothing is assumed of the chain, of the API's clients or of the
faults, whose number is bounded: with unbounded faults no retry limit could give
the property. `ScansEnd` assumes that a scan's request is answered or fails
(requests carry a timeout signal) and that the page resumes it; a scan may fail
at any time.

`CallsEnd` assumes of each call that its requests settle (`Advance`, which
includes their rejection) and that time passes (`Deadline`). Nothing is assumed
of the chain, which need not grow or include anything, and nothing of the user,
who may leave the wallet's prompt open: the property excepts that place.
`FlowSettles` and `ChoiceIsFollowed` assume that requests are answered (`Work`)
and that the effect that opens the wallet's prompt runs
(`ConnectPendingWallet`); prompts may stay open, and users need do nothing.
PrivatePool has no fairness: each of its steps may be the last.

## Proofs

`IndexerProofs.tla` proves `Spec => []P` for `TypeOK`, `AttemptsAccounted`,
`ClaimExclusive`, `NothingPremature`, `DoneIsIndexed`, `WatermarkCovered` and
`ClaimsAreHeld`, and the action property `SettledStays`, for every history, number
of callers, limit and budget; and `OutputsContiguous` for large pages.

* `QueueInv` = `TypeOK`, `AttemptsAccounted` and `CallOK` is inductive. `CallOK`
  says what a caller's locals satisfy at each await: a page being stored has a
  newest member that is confirmed (so the watermark stays in the chain), the item
  at hand is in the batch, and everything in a batch has been claimed at least
  once. The last is what bounds `attempts`: only a claim increments it, only rows
  with attempts left are claimable.
* `ClaimExclusive` is inductive relative to `QueueInv`: a claim takes rows that
  are not `processing`, and a row in a batch is changed by its own caller only.
* `PoolInv` adds to `NothingPremature` and `DoneIsIndexed` that inserts in flight
  and orphans are of indexable transactions, and that the inserts of the item at
  hand are stored or awaited. The item's exclusivity comes from `ClaimExclusive`.
* `DiscoveryInv` adds to `WatermarkCovered` what each discovery carries across its
  awaits: all up to its `until` is recorded, all below its page is recorded or in
  the page, and the page itself is recorded once the watermark may be written.
* `LostAnswer` says that a done row is in a batch only after a rejection; with
  `ClaimExclusive`, it is the only way `markProcessingFailure` meets a done row,
  which gives `SettledStays`.

* `HoleInv` adds that all below a recorded signature is recorded or left out, and
  that what is stored, or being stored by an orphan, was claimed once. So what is
  missing below an indexed output of a quiet table was left out by a full page
  (`HolesComeFromFullPages`), and pages that hold everything leave no hole.
* `HeldInv`: only a rejection or a kill parts a call from its batch, and the
  shutdown waits for both kinds of callers, which gives `ClaimsAreHeld`: as long
  as no await has rejected and nothing was killed, every row in work is in the
  batch of some call. It says nothing of runs with a rejection, where a lost
  answer to a claim, or a failure mark that rejects, strands rows.

`NoteSyncProofs.tla` proves `TypeOK`, `BackupGapless`, `NeverBehind`,
`FullScanCovers` and `IncrementalScanCovers` for any scans that overlap in any
way, and `SyncPreserves` for a scan that runs alone.

* `SyncInv` adds `RequestOK` (no answers outside a request; a page is part of
  the table). A gapless base and a consecutive page make a gapless backup
  (`ExtendedIsGapless`), and a table that contains all outputs below an offset
  has at least that many rows (`CountAtLeastPrefix`), which gives `NeverBehind`.
* `CoverInv` says of each scan that the due outputs in its window are in its
  page, that its total counts them, and that they are in its backup once it
  asked for the last page. Other scans' steps leave all this alone because a
  full scan has a storage of its own.
* `KeepInv`: what the shared storage holds is in the backup that will overwrite
  it, the one a lone scan exported or one that a full scan cannot miss.
* `IncrementInv` carries what `CoverInv` says of an incremental scan past its last
  page: all that is due is in the shared storage until it is listed, since a write
  of others takes an output out of both.

`SubmissionProofs.tla` proves `TypeOK`, `ReceiptIsTrue`, `ExpiredIsSettled` and
the refinement `Delivers`.

* `SubmissionInv` = `TypeOK`, `ChainInv`, `CallInv`, `ReceiptIsTrue` is inductive.
  `ChainInv` says that what a block or the ledger holds was sent, sent
  transactions belong to operations that were asked for, and successful ones
  never conflict within ledger and block together: `Land` looks at both.
  `CallInv` ties a call's operation to its place and its answer.
* A loop that answers "receipt" has just read a confirmed, successful status;
  ledgers only grow, so the receipt stays true.
* `ExpiryStep`: a call answers "expired" when the height has passed its
  transaction's last valid height. What is in the processed block then was
  included at a lower height, so the next block cannot add it.
* `StepsDeliver` maps `NextBlock` to `Pay`, answers to `Tell`, `Begin` to `Ask`, and
  everything else to a stutter.

`TransferFlowProofs.tla` proves `TypeOK`, `IdentityIsOwned`, `OnlyOwnerSends`,
`SignsWhatIsShown`, `BalanceIsOwn` and `BalanceIsFresh`.

* `OwnInv` carries ownership along: a cached signature is its wallet's own, so is
  the identity of every call, so is what the reducer has as prepared. The step
  that matters is the answer to a prompt, which is compared with the account the
  prompt was opened for.
* `ShownInv` says, without a review during a call, that a preparing job works on
  the current draft and an executing one on the current prepared operation.
* `BalanceInv` says which load counts: its account is the connected one, and it
  has seen every execution counted when it began; the effect restarts it when
  a receipt appears.

`QuotesProofs.tla` proves that every quote is valid (`QuotesAreValid`), after the
facts about least and greatest numbers that several modules need, and
`GrossSearchProofs.tla` that what the loop returns is the least gross amount
(`SearchFindsGross`) and that each step of it makes progress
(`SearchMakesProgress`). `Bracket` is the loop's invariant: too little below
`low`, and, once widened, enough at `high`. It rests on `OutputMonotone` and
`OutputSteps` (one lamport more never gives the recipient less, nor more than one
lamport more, as the fee rate is below the whole) and on `GrossExists`.

`PoolDataProofs.tla` is about operators, with no state.

* `PickingIsComplete`: for every finite set of notes, pickNotes gives up exactly
  when no two reach the target.
* `InstructionsSayWhatWasWritten`: the decoder of transact reads the fields that
  the builder wrote.
* `RootsAgree`: the tree of the backend, which keeps only the nodes over existing
  leaves and a zero per level, has the root of the full tree that the program
  keeps. `TreeNode` is the node at a level and an index in either, and a parent
  is the hash of its two children whether they are stored or zero (`ParentIs`).
* `PathsLeadToTheRoot`: what the circuit computes from a leaf and its path is at
  each level the node on the way up, hence the root at the top.

`PrivatePoolProofs.tla` proves every invariant of the two private_pool runs: `SpentOnce`,
`RowsAreLeaves`, `ProvenRootsAreReal`, `PreparedVerifies`, `PickIsComplete`,
`SettledBalanceIsTrue` and `TypeOK`.

* `SpendInv` says that `calls` is a sequence of calls whose four accounts per pair
  of nullifiers are all distinct. The program creates an account for a nullifier
  in the slot it came in and demands that the account of the other slot does not
  exist either (`UnusedAccounts`), so a note spent as first input cannot be spent
  as second. The proof uses nothing of the devices: whatever they prepare,
  `Accepts` decides.
* `TablesInv` says that the calls on the chain are those of its transactions and
  that the tables hold what the parser read of those the indexer has handled.
  What the parser reads of a transaction never changes (`TransactionStays`), and
  its rows are the leaves of the transaction, one each, or none when the call was
  made by another program (`RowsOfTransaction`). That lemma reads the logs line by
  line with the stack of running programs (`ReadingCall`), through the
  look-alike events of another program and a call for another token
  (`EventsBatched`).
* A table without a hole has the leaves of the first calls and no others
  (`NumberedRows`, `LeavesAreOnChain`), so its root is one the program had
  (`TableRoot`, by `RootsAgree`); and `WasRoot` stays true as the chain grows
  (`RootsStay`). This is `ProvenRootsAreReal`.
* `JobInv` adds what each device carries (`WorkInv`): at each stage the notes,
  quote, tree state and material satisfy what the next stage needs, and a root
  once given stays a root the pool had. `PreparedVerifies` follows: a note that
  opens is a leaf as its creator made it (`LeavesOK`, `OwnedNote`), bound to its
  proof it has the nullifier of its position (`BoundNote`) and a slot that
  satisfies the circuit (`NoteSlotOK`); two notes, or two dummies, have two
  nullifiers, which needs that the wallet's random numbers are nobody's
  (`LeavesDiffer`, `RandomsDiffer`); and the instruction, by the relayer or by the
  wallet, says what was proved (`SentInstruction`, by
  `InstructionsSayWhatWasWritten`; `WellFormed`).
  Nothing is assumed of the order in which tables are filled, of which of a
  transaction's inserts comes first or ever, of when the devices read them, or of other wallets beside that they draw other numbers.
* `SettledBalanceIsTrue` needs no more than `TablesInv` and `LeavesOK`. The parser
  finds exactly the transact instructions (`NativeAre`), and reads of each the two
  nullifiers that were written (`InstructionOfCall`); the pool's other
  instructions, the transactSpl among them, begin with another name
  (`NamedOtherwise`). So a transaction that hides nothing has the spent rows of its
  calls (`NullifiersOfTransaction`), every call is some transaction's
  (`CallHasTransaction`), and a table that is up to date has all leaves and all
  nullifiers (`SettledRows`, `SettledSpends`). What the key then opens and keeps are
  the unspent leaves (`ListedNote`), and none is missed (`UnspentIsListed`).

The assumptions are the ASSUMEs of the modules: sizes and limits are natural
numbers, page and batch limits and the attempt limit positive, the callers
distinct, the devices finitely many, fee rates below the whole, and the opening
deposits of PrivatePool fit into its tree and its bound on transactions.

Two theorems have a hypothesis on constants beside: `LargePagesLeaveNoHole`
that a discovery page has room for the history (without it `indexer_burst` shows
the hole), as it has in indexer_live, and `SyncingAlonePreserves` that there is
one scan at a time and nothing is imported (without it `note_sync_race` shows the
loss).

TLC checked `JobInv` and its parts as invariants of the private_pool instance before
they were proved.

Only model-checked: of PrivatePool the refinement `PaysAsQuoted`, and all liveness
properties (`EventuallySettled`, `ScansEnd`, `CallsEnd`, `FlowSettles`,
`ChoiceIsFollowed`), which, with ENABLED, are outside what the prover handles.
`PaysAsQuoted` compares sums over the whole history, by their recursive
definitions, before and after each step.

## Plan

Done: the indexer, the note sync, submission with its abstract specification, the
transfer flow, quotes and selection, and the private pool with its ledger, each
with its theorems. Left, in this order:

1. `IndexLedger`: the life of one signature as the service promises it
   (unknown, queued, in work, done, given up), implemented by `Indexer` through a
   refinement mapping of `status` and `batch`.
2. Submission below TransferFlow and PrivatePool: the answer of a call as the
   flow sees it, a prepared operation sent twice from the page; with fairness of
   the indexer, a landed transfer is eventually in its owner's balance.
3. A proof of `PaysAsQuoted` step by step, from `JobInv` and that a selected note
   keeps its leaf.
4. The unlock life cycle of the facade (`lock` during a preparation).

Runs stay small (two or three of everything); each new module gets a type
invariant, the properties its hazards in `PROJECT.json` call for, and its
theorems in a module of its own.

## Not modelled

* **The arithmetic of the cryptography** (Poseidon, note encryption, Groth16)
  and byte layouts: hashes, ciphertexts and proofs are what went into them.
* **The on-chain program** beyond what the code in the repository relies on: its
  checks of accounts, roots, nullifiers and room in the tree are external
  definitions.
* **API plumbing, configuration, logging, the database client, error texts,
  rendering**: they hold no state that changes between steps.
* **The SDK's account decoders and error names**, which nothing in the
  application reads, and the lists of re-exports.
* **Forks of the chain below confirmed commitment** in the indexer, and forks
  below confirmed in PrivatePool; Submission has them.
* **Malformed answers** of RPC, indexer and relayer beyond a rejection.
* Queries nothing calls in the flows above: the pool's summary, one output by its
  commitment.
