----------------------------- MODULE PrivatePool -----------------------------
(***************************************************************************)
(* The way of a private amount: several devices that hold the keys of one  *)
(* wallet, the indexer's tables and Merkle tree, and the pool program on   *)
(* the chain.  A device scans its balance, quotes a payment, selects       *)
(* notes, asks the indexer for their Merkle paths, builds the circuit's    *)
(* inputs and sends the transaction; everything the indexer tells it may   *)
(* be old by the time it is used, and other devices and other wallets use  *)
(* the pool meanwhile.                                                     *)
(***************************************************************************)
EXTENDS FiniteSets, PoolParser, NoteSelection, Schemas

CONSTANTS
  Devices,      \* the browsers unlocked with the wallet's signature
  Height,       \* of the tree (26 in the code)
  RootHistory,  \* how many roots the program remembers
  MaxTxs,       \* bound: transactions on the chain; no work starts after them
  MaxOthers,    \* bound: those of other wallets among them
  Opening,      \* the wallet's first deposits, smallest first
  Deposits,     \* bound: the amounts deposited
  Payments,     \* bound: the amounts recipients are paid
  DepositBps, WithdrawBps, RentFee,
  FieldSize,    \* the order of the circuit's field
  Shapes        \* how transactions of other wallets reach the pool

ASSUME PoolAssumption ==
  /\ IsFiniteSet(Devices)
  /\ Height \in Nat \ {0} /\ RootHistory \in Nat \ {0} /\ MaxTxs \in Nat
  /\ MaxOthers \in Nat
  /\ Opening \subseteq Nat \ {0} /\ IsFiniteSet(Opening)
  /\ Deposits \subseteq Nat /\ Payments \subseteq Nat \ {0}
  /\ DepositBps \in 0 .. Denominator - 1 /\ WithdrawBps \in 0 .. Denominator - 1
  /\ RentFee \in Nat /\ FieldSize \in Nat \ {0}
  /\ Shapes \subseteq {"direct", "batched", "wrapped"}

VARIABLES
  txs,      \* the pool's transactions on the chain, in order: their shapes
  calls,    \* the calls of the pool they made, in order
  outputs,  \* of which of them the outputs are stored
  spends,   \* and of which the spent nullifiers are
  table,    \* the stored outputs and the stored nullifiers
  job       \* what each device is doing
vars == <<txs, calls, outputs, spends, table, job>>

Key == NoteKey("me")

-------------------------------------------------------------------------------
(* The chain.  A call has the two nullifiers it spends, its two outputs and *)
(* its external amount and fee.  A transaction makes one call, or two; the  *)
(* first one of all initializes the pool.                                   *)

CallsIn(shape) ==
  CASE shape = "initialize" -> 0
    [] shape = "batched" -> 2
    [] OTHER -> 1

CallsBefore(t) ==
  LET upTo[u \in 1 .. t] == IF u = 1 THEN 0 ELSE upTo[u - 1] + CallsIn(txs[u - 1])
  IN  upTo[t]

OnChain ==
  [i \in 1 .. 2 * Len(calls) |->
     calls[(i + 1) \div 2].outputs[IF i % 2 = 1 THEN 1 ELSE 2]]

(* The program appends two leaves at a time and keeps the root after each. *)
Roots ==
  LET all    == OnChain
      leaves == [i \in DOMAIN all |-> Leaf(all[i].commitment)]
  IN  [k \in 0 .. Len(calls) |-> FullRoot(Height, SubSeq(leaves, 1, 2 * k))]

KnownRoots ==
  {Roots[k] : k \in {k \in 0 .. Len(calls) : k > Len(calls) - RootHistory}}

(* A call creates an account for the nullifier of each of its slots. *)
AccountsOf(made) ==
  UNION {{<<0, call.nullifiers[1]>>, <<1, call.nullifiers[2]>>} :
           call \in ToSet(made)}

(* None of the four accounts it names may exist. *)
AreUnused(nullifierAccounts, made) ==
  ToSet(nullifierAccounts) \intersect AccountsOf(made) = {}

Spends(call, nullifier) ==
  nullifier = call.nullifiers[1] \/ nullifier = call.nullifiers[2]

(* Whether the wallet has a leaf at an index, counting from one, that the   *)
(* program has not seen spent.                                              *)
IsUnspent(output, i) ==
  /\ output.amount > 0
  /\ output.publicKey = UtxoPublicKey(UtxoPrivateKey(Key))
  /\ LET nullifier == NullifierOf(UtxoPrivateKey(Key), output.commitment, i - 1)
     IN  \A c \in DOMAIN calls : ~Spends(calls[c], nullifier)

Total(notes) ==
  LET upTo[left \in SUBSET notes] ==
        IF left = {} THEN 0
        ELSE LET note == CHOOSE note \in left : TRUE
             IN  note.amount + upTo[left \ {note}]
  IN  upTo[notes]

(* How the t-th transaction looks to the parser: one call of the pool; two  *)
(* calls, and between them another program that logs an event of the same   *)
(* form and a call of the pool for another token; or one call made by       *)
(* another program.  Of an instruction what the parser reads is kept.       *)
Invoke(program) == [kind |-> "invoke", program |-> program]
Exit(program) == [kind |-> "exit", program |-> program]
Data(event) == [kind |-> "data", event |-> event]

LogsOf(name, call, first) ==
  LET Event(o) == [name |-> name, index |-> first + o - 1,
                   commitment |-> call.outputs[o].commitment,
                   encrypted |-> call.outputs[o].encrypted]
  IN  <<Invoke("pool"), Invoke("system"), Exit("system"),
        Data(Event(1)), Data(Event(2)), Exit("pool")>>

MaterialOf(call) ==
  [nullifiers |-> DeriveNullifierAccounts(call.nullifiers),
   proof |-> [proofA |-> 0, proofB |-> 0, proofC |-> 0, root |-> 0,
              publicAmount |-> 0, extDataHash |-> 0,
              inputNullifiers |-> call.nullifiers,
              outputCommitments |-> <<call.outputs[1].commitment,
                                      call.outputs[2].commitment>>],
   extData |-> call.ext,
   encryptedOutput1 |-> call.outputs[1].encrypted,
   encryptedOutput2 |-> call.outputs[2].encrypted]

TokenInstruction(call) ==
  LET material == MaterialOf(call)
  IN  GetTransactSplInstruction(
        [nullifier0 |-> material.nullifiers[1], nullifier1 |-> material.nullifiers[2],
         nullifier2 |-> material.nullifiers[3], nullifier3 |-> material.nullifiers[4],
         signer |-> "anyone", mint |-> "mint", recipient |-> "anyone",
         signerTokenAccount |-> AssociatedTokenPda("anyone", "mint"),
         recipientTokenAccount |-> AssociatedTokenPda("anyone", "mint"),
         feeRecipientAta |-> AssociatedTokenPda("treasury", "mint"),
         proof |-> material.proof, extData |-> material.extData,
         encryptedOutput1 |-> material.encryptedOutput1,
         encryptedOutput2 |-> material.encryptedOutput2],
        "pool")

(* A message lists the accounts of its instructions once, some of them in a *)
(* lookup table.                                                            *)
Message(instructions, logs) ==
  LET keys == <<"signer", "compute_budget", "mimic", "pool">>
  IN  [accountKeys |-> keys,
       loadedAddresses |-> [writable |-> <<TreeAccountPda("pool")>>,
                            readonly |-> <<GlobalConfigPda("pool")>>],
       instructions |->
         [i \in DOMAIN instructions |->
            [programIdIndex |->
               (CHOOSE k \in 1 .. 4 : keys[k] = instructions[i].programAddress) - 1,
             data |-> instructions[i].data]],
       logs |-> logs]

(* The pool and the settings of its authority, in one transaction. *)
InitializePool ==
  <<BuildInitializeInstruction("authority", "pool"),
    GetUpdateGlobalConfigInstruction(
      [authority |-> "authority", depositFeeRate |-> {DepositBps},
       withdrawalFeeRate |-> {WithdrawBps}, feeErrorMargin |-> {}], "pool"),
    GetUpdateDepositLimitInstruction(
      [authority |-> "authority", newLimit |-> FieldSize], "pool"),
    GetInitializeTreeAccountForSplTokenInstruction(
      [authority |-> "authority", mint |-> "mint", maxDepositAmount |-> 1], "pool"),
    GetUpdateDepositLimitForSplTokenInstruction(
      [authority |-> "authority", mint |-> "mint", newLimit |-> FieldSize], "pool")>>

Transaction(t) ==
  LET before == CallsBefore(t)
      first  == 2 * before
      call   == SubSeq(calls, before + 1, before + CallsIn(txs[t]))
      made   == [i \in DOMAIN call |->
                   SignedInstruction("anyone", "anyone", "treasury",
                                     MaterialOf(call[i]), "pool")]
      other  == [programAddress |-> "mimic", data |-> <<Discriminator("transact")>>]
      mimic  == Data([name |-> "CommitmentData", index |-> first,
                      commitment |-> CommitmentOf(9, "nobody", 0),
                      encrypted |-> call[1].outputs[1].encrypted])
      logs(i, start) == LogsOf("CommitmentData", call[i], start)
  IN  CASE txs[t] = "initialize" ->
             Message(InitializePool, <<Invoke("pool"), Exit("pool")>>)
        [] txs[t] = "direct" -> Message(BaseTransactionMessage(DefaultComputeUnits) \o made,
                     logs(1, first))
        [] txs[t] = "batched" ->
             Message(<<made[1], other, TokenInstruction(call[1]), made[2]>>,
                     logs(1, first) \o <<Invoke("mimic"), mimic, Exit("mimic")>>
                       \o LogsOf("SplCommitmentData", call[1], 0)
                       \o logs(2, first + 2))
        [] txs[t] = "wrapped" ->
             Message(<<other>>,
                     <<Invoke("mimic")>> \o logs(1, first) \o <<Exit("mimic")>>)

-------------------------------------------------------------------------------
(* The indexer. *)

Rows == table.outputs

SpentRows == table.spent

(* ensureContiguousOutputs; a commitment event takes its index from the chain *)
(* and the table holds an index once.                                         *)
ContiguousUnchecked == TRUE

Contiguous ==
  LET indexes == {row.index : row \in Rows}
  IN  indexes = 0 .. (Cardinality(indexes) - 1)

(* listOutputsForTree: the rows by their index, whatever it is. *)
ListOutputsForTree ==
  LET rows == Rows
      Below(row) == Cardinality({other \in rows : other.index < row.index})
  IN  [i \in 1 .. Cardinality(rows) |->
         Leaf((CHOOSE row \in rows : Below(row) = i - 1).commitment)]

MerkleState(leaves) == [root |-> Root(Height, leaves), nextIndex |-> Len(leaves)]

(* insertOutputs and insertSpentNullifiers of one transaction run at the same *)
(* time, and what rejects is retried later: the tables take its outputs and   *)
(* its nullifiers in either order, with any steps between.                    *)
InsertOutputs(t) ==
  /\ t \notin outputs
  /\ outputs' = outputs \union {t}
  /\ table' = [table EXCEPT
                 !.outputs = @ \union ParsedOutputs(Transaction(t), "pool")]
  /\ UNCHANGED <<txs, calls, spends, job>>

InsertSpentNullifiers(t) ==
  /\ t \notin spends
  /\ spends' = spends \union {t}
  /\ table' = [table EXCEPT
                 !.spent = @ \union ParsedNullifiers(Transaction(t), "pool")]
  /\ UNCHANGED <<txs, calls, outputs, job>>

-------------------------------------------------------------------------------
(* A device: its backup is the first outputs of the indexer's table. *)

Idle == [stage |-> "idle"]

Become(d, record) ==
  /\ job' = [job EXCEPT ![d] = record]
  /\ UNCHANGED <<txs, calls, outputs, spends, table>>

(* createOwnedNoteSource: what the key opens of the backup. *)
OwnedNotes(backup) ==
  UNION {DecryptOwnedNote(Key, row.encrypted, row.index) :
           row \in {row \in Rows : row.index < backup}}

(* filterUnspentNotes *)
ListOwnedNotes(backup) ==
  LET spent == SpentRows
  IN  {note \in OwnedNotes(backup) : note.nullifier \notin spent}

(* createRandomFieldElement: none is drawn twice. *)
FreshRandoms ==
  LET prepared == {d \in Devices : job[d].stage = "prepared"}
      used  == {output.blinding : output \in ToSet(OnChain)} \union
               UNION {ToSet(Proven(job[d].tx.material.proof).outBlinding) : d \in prepared}
      Unused(taken) == CHOOSE n \in 1 .. Cardinality(taken) + 1 :
                       n \notin taken /\ \A m \in 1 .. n - 1 : m \in taken
      first == Unused(used)
  IN  <<first, Unused(used \union {first})>>

ValidateSelectedNotes(notes, backup) ==
  \A i \in DOMAIN notes :
    /\ notes[i].index < backup
    /\ notes[i].commitment = CommitmentOf(notes[i].amount, notes[i].publicKey,
                                          notes[i].blinding)

ValidateMerkleProof(notes, leaves) ==
  \A i \in DOMAIN notes : Leaf(notes[i].commitment) \in ToSet(leaves)

(* A note takes the index of its proof, and the nullifier of that index. *)
BindToMerkleProof(note, proof) ==
  LET bound == RederiveUtxoWitness(note, proof.index)
  IN  [amount |-> bound.amount, privateKey |-> bound.privateKey,
       publicKey |-> bound.publicKey, blinding |-> bound.blinding,
       nullifier |-> bound.nullifier, index |-> bound.index, path |-> proof.path]

ValidateUnspentNotes(notes) ==
  LET spent == SpentRows
  IN  \A i \in DOMAIN notes : notes[i].nullifier \notin spent

-------------------------------------------------------------------------------
Call(slots, outs, ext) ==
  [nullifiers |-> <<slots[1].nullifier, slots[2].nullifier>>,
   outputs |-> outs, ext |-> ext]

OpeningAmounts == SetToSortSeq(Opening, <)

ASSUME OpeningAssumption ==
  /\ OpeningAmounts \in Seq(Nat \ {0})
  /\ Len(OpeningAmounts) \in 1 .. MaxTxs - 1
  /\ Len(OpeningAmounts) <= Capacity(Height) \div 2

OldRandoms(t) == <<2 * t - 1, 2 * t>>

(* By an earlier version of the client, which is still read. *)
OldOutputs(t) ==
  LET outs == CreateOutputs(Key, UtxoPublicKey(UtxoPrivateKey(Key)),
                            OpeningAmounts[t], 2 * t - 2, OldRandoms(t))
  IN  <<[outs[1] EXCEPT !.encrypted.version = "v2"],
        [outs[2] EXCEPT !.encrypted.version = "v2"]>>

OldDeposit(t) ==
  Call(CreateInputSlots(<<>>, Height, OldRandoms(t)), OldOutputs(t),
       [amount |-> OpeningAmounts[t], fee |-> 0])

(* The pool is there, the wallet has made its first deposits, and the       *)
(* indexer has read one.                                                    *)
Init ==
  /\ txs = <<"initialize">> \o [t \in DOMAIN OpeningAmounts |-> "direct"]
  /\ calls = [t \in DOMAIN OpeningAmounts |-> OldDeposit(t)]
  /\ outputs = {1, 2}
  /\ spends = {1, 2}
  /\ table = [outputs |-> UNION {ParsedOutputs(Transaction(t), "pool") : t \in 1 .. 2},
              spent |-> UNION {ParsedNullifiers(Transaction(t), "pool") : t \in 1 .. 2}]
  /\ job = [d \in Devices |-> Idle]

(* getPrivateBalance: the notes are listed anew. *)
GetPrivateBalance(backup) == Total(ListOwnedNotes(backup))

(* scanPrivateBalance: the cache is brought up to date, page by page, and   *)
(* the balance is read from it.                                             *)
Scan(d) ==
  /\ job[d].stage = "idle"
  /\ Len(txs) < MaxTxs
  /\ Contiguous
  /\ LET backup == Cardinality(Rows)
         notes  == ListOwnedNotes(backup)
     IN  /\ notes # {}
         /\ Become(d, [stage |-> "scanned", backup |-> backup, balance |-> Total(notes)])

(* createQuote lists the notes again.  The amount was asked for before the  *)
(* scan, which does not depend on it.                                       *)
Quote(d, recipient) ==
  /\ job[d].stage = "scanned"
  /\ LET quote == TransferQuote(recipient,
                                GetPrivateBalance(job[d].backup),
                                WithdrawBps, RentFee)
     IN  /\ QuoteIsValid(quote)
         /\ Become(d, [stage |-> "quoted", quote |-> quote,
                       backup |-> job[d].backup, balance |-> job[d].balance])

Select(d) ==
  /\ job[d].stage = "quoted"
  /\ \E notes \in PickNotes(ListOwnedNotes(job[d].backup), job[d].quote.gross) :
       /\ ValidateSelectedNotes(notes, job[d].backup)
       /\ Become(d, [stage |-> "selected", quote |-> job[d].quote,
                     notes |-> notes, balance |-> job[d].balance])

GetMerkleProof(d) ==
  /\ job[d].stage = "selected"
  /\ Contiguous
  /\ LET leaves == ListOutputsForTree
         notes  == job[d].notes
     IN  /\ ValidateMerkleProof(notes, leaves)
         /\ Become(d, [stage |-> "proved", quote |-> job[d].quote,
                       balance |-> job[d].balance, state |-> MerkleState(leaves),
                       notes |-> [i \in DOMAIN notes |->
                         BindToMerkleProof(notes[i],
                           ProofOf(Height, leaves, notes[i].commitment))]])

(* createCircuitInput and prove: the change stays the wallet's. *)
TransferMaterial(request, notes, state, randoms) ==
  LET change == TotalOf(notes) - request.quote.gross
  IN  ProofMaterial(state.root, CreateInputSlots(notes, Height, randoms),
                    CreateOutputs(Key, notes[1].publicKey, change, state.nextIndex,
                                  randoms),
                    [amount |-> -request.quote.recipient, fee |-> request.quote.fee],
                    request.recipient, "treasury", FieldSize)

(* proveDeposit: two dummy inputs and a root that is only read. *)
DepositMaterial(request, state, randoms) ==
  LET publicKey == UtxoPublicKey(UtxoPrivateKey(Key))
  IN  ProofMaterial(state.root, CreateInputSlots(<<>>, Height, randoms),
                    CreateOutputs(Key, publicKey, request.quote.output,
                                  state.nextIndex, randoms),
                    [amount |-> request.quote.deposit, fee |-> request.quote.fee],
                    request.owner, "treasury", FieldSize)

(* validateCircuitAmounts; a shortfall is not topped up. *)
CoversQuote(notes, quote) == TotalOf(notes) >= quote.gross /\ quote.shield = 0

(* The balance that was scanned against the one that was quoted. *)
IsQuoted(scanned, quote) == quote.balance = scanned /\ scanned >= quote.gross

(* What the client asks its executor for, and what that answers. *)
TransferRequest(quote) == [owner |-> "me", recipient |-> "recipient", quote |-> quote]

DepositRequest(quote) == [owner |-> "me", quote |-> quote]

PreparedTransfer(request, material) ==
  [kind |-> "transfer", owner |-> request.owner, recipient |-> request.recipient,
   quote |-> request.quote, material |-> material]

PreparedDeposit(request, material) ==
  [kind |-> "deposit", owner |-> request.owner, recipient |-> request.owner,
   quote |-> request.quote, material |-> material]

(* The statuses of the notes are asked for once more, the proof is made,    *)
(* and the quote is compared with the scan.                                 *)
Prepare(d) ==
  /\ job[d].stage = "proved"
  /\ ValidateUnspentNotes(job[d].notes)
  /\ CoversQuote(job[d].notes, job[d].quote)
  /\ IsQuoted(job[d].balance, job[d].quote)
  /\ LET request  == TransferRequest(job[d].quote)
         material == TransferMaterial(request, job[d].notes, job[d].state, FreshRandoms)
         prepared == PreparedTransfer(request, material)
     IN  /\ AmountsBalance(Proven(material.proof), FieldSize)
         /\ ValidatePreparedTransfer(prepared, request)
         /\ Become(d, [stage |-> "prepared", tx |-> prepared])

PrepareDeposit(d, lamports) ==
  /\ job[d].stage = "idle"
  /\ Len(txs) < MaxTxs
  /\ CanDeposit(lamports, DepositBps)
  /\ Contiguous
  /\ LET request  == DepositRequest(DepositQuote(lamports, DepositBps))
         material == DepositMaterial(request, MerkleState(ListOutputsForTree),
                                     FreshRandoms)
         prepared == PreparedDeposit(request, material)
     IN  /\ CanEncode(material.extData)
         /\ AmountsBalance(Proven(material.proof), FieldSize)
         /\ ValidatePreparedDeposit(prepared, request)
         /\ Become(d, [stage |-> "prepared", tx |-> prepared])

(* A request is rejected, or a check of the steps above throws. *)
Fail(d) ==
  /\ job[d].stage \notin {"idle", "prepared"}
  /\ Become(d, Idle)

-------------------------------------------------------------------------------
(* The executors: a deposit is signed by the wallet and comes back to it, a *)
(* transfer is relayed, or signed by the wallet where no relayer is         *)
(* configured.                                                              *)

RequestOf(tx) == RelayTransferRequest("pool", tx.recipient, "treasury", tx.material)

IsRelayed(tx) ==
  /\ IsRelayRequest(RequestOf(tx))
  /\ RelayPolicy(RequestOf(tx), "pool", "treasury")

Sent(tx) ==
  IF tx.kind = "deposit" THEN PrepareDepositMessage("me", tx, "treasury", "pool")
  ELSE PrepareTransferMessage("me", tx, "treasury", "pool") \union
       (IF IsRelayed(tx)
        THEN {BuildTransactionMessage(RequestOf(tx), "pool", "treasury")} ELSE {})

(* The program: beside what it demands of any instruction, a root that it   *)
(* remembers, nullifiers that nobody has used and room in its tree.         *)

HasRoom(more) == Len(calls) + more <= Capacity(Height) \div 2

Accepts(instruction) ==
  /\ IsWellFormed(instruction, "pool", FieldSize)
  /\ ParseTransactInstruction(instruction).data.proof.root \in KnownRoots
  /\ AreUnused(NullifierAccountsOf(instruction), calls)
  /\ HasRoom(1)

Land(d) ==
  /\ job[d].stage = "prepared"
  /\ Len(txs) < MaxTxs
  /\ txs' = Append(txs, "direct")
  /\ \E message \in Sent(job[d].tx) :
       /\ Accepts(Last(message))
       /\ calls' = Append(calls, CallOf(Last(message)))
  /\ job' = [job EXCEPT ![d] = Idle]
  /\ UNCHANGED <<outputs, spends, table>>

(* The simulation or the chain refuses it, it expires, or nobody sends it. *)
Discard(d) ==
  /\ job[d].stage = "prepared"
  /\ Become(d, Idle)

Others == {t \in DOMAIN txs :
             CallsIn(txs[t]) > 0 /\ calls[CallsBefore(t) + 1].outputs[1].encrypted.key = NoteKey("other")}

(* A transaction of another wallet, with random numbers of its own. *)
Foreign(shape) ==
  LET first == Len(calls)
      count == CallsIn(shape)
      key   == NoteKey("other")
      Deposit(c) ==
        LET randoms == <<-2 * (first + c), -2 * (first + c) - 1>>
        IN  Call(CreateInputSlots(<<>>, Height, randoms),
                 CreateOutputs(key, UtxoPublicKey(UtxoPrivateKey(key)), 1,
                               2 * (first + c - 1), randoms),
                 [amount |-> 1, fee |-> 0])
      made == [c \in 1 .. count |-> Deposit(c)]
  IN  /\ Len(txs) < MaxTxs /\ Cardinality(Others) < MaxOthers
      /\ HasRoom(count)
      /\ \A c \in 1 .. count :
           AreUnused(DeriveNullifierAccounts(made[c].nullifiers),
                     calls \o SubSeq(made, 1, c - 1))
      /\ txs' = Append(txs, shape)
      /\ calls' = calls \o made
      /\ UNCHANGED <<outputs, spends, table, job>>

Next ==
  \/ \E t \in DOMAIN txs : InsertOutputs(t) \/ InsertSpentNullifiers(t)
  \/ \E d \in Devices :
       \/ \E recipient \in Payments : Quote(d, recipient)
       \/ \E lamports \in Deposits : PrepareDeposit(d, lamports)
       \/ Scan(d) \/ Select(d) \/ GetMerkleProof(d) \/ Prepare(d)
       \/ Fail(d) \/ Land(d) \/ Discard(d)
  \/ \E shape \in Shapes : Foreign(shape)

Spec == Init /\ [][Next]_vars

-------------------------------------------------------------------------------
(* Properties. *)

(* Everything the steps of a device hand on passes the schema of the next   *)
(* step, whatever was stored or landed between them.                        *)
JobOK(work) ==
  CASE work.stage = "idle" -> TRUE
    [] work.stage = "scanned" -> work.backup \in Nat /\ work.balance \in Nat
    [] work.stage = "quoted" -> IsTransferQuote(work.quote)
    [] work.stage = "selected" -> AreSelectedNotes(work.notes)
    [] work.stage = "proved" ->
         /\ IsMerkleState(work.state)
         /\ \A i \in DOMAIN work.notes : IsCircuitInputNote(work.notes[i], Height)
    [] work.stage = "prepared" ->
         /\ IF work.tx.kind = "deposit" THEN IsPreparedDeposit(work.tx, DepositBps)
                                        ELSE IsPreparedTransfer(work.tx)
         /\ AreCircuitSignals(Proven(work.tx.material.proof), Height)

(* What the variables hold: the chain grows within its bounds, only its     *)
(* transactions are stored, and jobs have the shapes of their stage.        *)
TypeOK ==
  /\ Len(txs) <= MaxTxs /\ HasRoom(0)
  /\ \A t \in DOMAIN txs : txs[t] \in Shapes \union {"initialize", "direct"}
  /\ outputs \subseteq DOMAIN txs /\ spends \subseteq DOMAIN txs
  /\ DOMAIN job = Devices
  /\ \A d \in Devices : JobOK(job[d])

(* No nullifier is spent twice on the chain, in whichever of the two slots  *)
(* two devices, which may pick one note in different slots, put it.         *)
SpentOnce ==
  \A c1, c2 \in DOMAIN calls : \A s1, s2 \in 1 .. 2 :
    calls[c1].nullifiers[s1] = calls[c2].nullifiers[s2] => c1 = c2 /\ s1 = s2

(* The root a device proves against is one the pool had, however incomplete *)
(* the indexer's tables were and in whatever order transactions reached     *)
(* them: a tree built over a hole would have a root nobody ever had, and a  *)
(* wait could not repair it (ensureContiguousOutputs).                      *)
ProvenRootsAreReal ==
  \A d \in Devices :
    job[d].stage = "prepared" =>
      \E k \in DOMAIN Roots : Roots[k] = job[d].tx.material.proof.root

(* What a device has prepared passes the relayer and, by either way, gives  *)
(* an instruction the program accepts: its paths lead to its root, its      *)
(* nullifiers are those of the leaves' positions on the chain, its amounts  *)
(* balance, and what was hashed is what the instruction says.  All of it    *)
(* was read at different times, from tables that grew meanwhile.  Of what   *)
(* the program is modelled to check, only its memory of roots, a note that  *)
(* another device spent or a full tree can still refuse it.                 *)
PreparedVerifies ==
  \A d \in Devices :
    job[d].stage = "prepared" =>
      /\ job[d].tx.kind = "transfer" => IsRelayed(job[d].tx)
      /\ \A message \in Sent(job[d].tx) :
           IsWellFormed(Last(message), "pool", FieldSize)

(* pickNotes gives up only when no two notes would do, and what it picks    *)
(* covers the quote: taking the largest first loses no payment that two     *)
(* notes can make, however the notes have changed since the quote.          *)
PickIsComplete ==
  \A d \in Devices :
    job[d].stage = "quoted" =>
      PicksWell(ListOwnedNotes(job[d].backup), job[d].quote.gross)

(* When the indexer has read every transaction, and none of them hid its    *)
(* outputs behind another program, a scan shows exactly the wallet's        *)
(* unspent notes, under the nullifiers the program will look for: nothing   *)
(* lost, nothing shown that is spent, though transactions of others landed  *)
(* between the making of an output and its place on the chain.              *)
SettledBalanceIsTrue ==
  (/\ outputs = DOMAIN txs
   /\ spends = DOMAIN txs
   /\ \A t \in DOMAIN txs : txs[t] # "wrapped")
  => /\ Contiguous
     /\ {[index |-> note.index, amount |-> note.amount,
          nullifier |-> note.nullifier] :
           note \in ListOwnedNotes(Cardinality(Rows))}
        = LET all == OnChain
          IN  {[index |-> i - 1, amount |-> all[i].amount,
                nullifier |-> NullifierOf(UtxoPrivateKey(Key),
                                          all[i].commitment, i - 1)] :
                  i \in {i \in DOMAIN all : IsUnspent(all[i], i)}}

(* Every row the indexer stores is the leaf of its index on the chain, in   *)
(* every shape of transaction that Transaction builds: one call, two calls  *)
(* with another program's look-alike event and a token call between them,   *)
(* and a call made by another program.                                      *)
RowsAreLeaves ==
  LET all == OnChain
  IN  \A row \in Rows :
        /\ row.index < Len(all)
        /\ row.commitment = all[row.index + 1].commitment

(* The pool keeps the ledger's promises: a landed transfer pays the amount  *)
(* asked for and costs the least gross amount that does, its change stays   *)
(* the wallet's, and no note pays twice though several devices try.         *)
SumOver(value(_)) ==
  LET upTo[c \in 0 .. Len(calls)] ==
        IF c = 0 THEN 0 ELSE upTo[c - 1] + value(calls[c].ext)
  IN  upTo[Len(calls)]

PaidOut == SumOver(LAMBDA ext : IF ext.amount < 0 THEN -ext.amount ELSE 0)

FeesTaken == SumOver(LAMBDA ext : ext.fee)

Balance ==
  LET Kept(output, i) == IF IsUnspent(output, i) THEN output.amount ELSE 0
      upTo[c \in 0 .. Len(calls)] ==
        IF c = 0 THEN 0
        ELSE upTo[c - 1] + Kept(calls[c].outputs[1], 2 * c - 1)
                         + Kept(calls[c].outputs[2], 2 * c)
  IN  upTo[Len(calls)]

Ledger == INSTANCE PoolLedger WITH
  opening <- FoldSet(LAMBDA a, sum : a + sum, 0, Opening),
  balance <- Balance, paid <- PaidOut, fees <- FeesTaken

PaysAsQuoted == Ledger!Spec

DeviceSymmetry == Permutations(Devices)

===============================================================================
