----------------------------- MODULE Instructions -----------------------------
(***************************************************************************)
(* The pool program's instructions as the SDK writes and reads them        *)
(* (packages/sdk/src and its generated client): a transact for the native  *)
(* token, and the transactSpl of other tokens.                             *)
(*                                                                         *)
(* Data is bytes: a sequence of fields, each a size and a value.  A read   *)
(* at an offset that is no field's own finds a slice of the data that is   *)
(* no field's value.                                                       *)
(***************************************************************************)
EXTENDS Integers, Sequences

Bytes(size, value) == [size |-> size, value |-> value]

Starts(sizes) ==
  LET upTo[i \in 1 .. Len(sizes)] ==
        IF i = 1 THEN <<0>>
        ELSE LET before == upTo[i - 1]
             IN  Append(before, before[i - 1] + sizes[i - 1])
  IN  upTo[Len(sizes)]

(* What a reader finds that goes through the data in steps of these sizes. *)
ReadFields(data, sizes) ==
  LET have == Starts([i \in 1 .. Len(data) |-> data[i].size])
      want == Starts(sizes)
  IN  [i \in 1 .. Len(sizes) |->
         LET here == {j \in DOMAIN have :
                        have[j] = want[i] /\ data[j].size = sizes[i]}
         IN  IF here = {} THEN <<data, want[i], sizes[i]>>
             ELSE data[CHOOSE j \in here : TRUE].value]

-------------------------------------------------------------------------------
(* Addresses, derived from seeds and the program.  An account that is not   *)
(* given to a builder is derived for the default program, whichever program *)
(* the instruction is for.                                                  *)

DefaultProgram == "zkcash"

TreeAccountPda(program) == <<"merkle_tree", program>>
TreeTokenAccountPda(program) == <<"tree_token", program>>
GlobalConfigPda(program) == <<"global_config", program>>
SplTreeAccountPda(mint, program) == <<"merkle_tree", mint, program>>
AssociatedTokenPda(owner, mint) == <<"ata", owner, mint>>

FindPoolAddresses(program) ==
  [treeAccount |-> TreeAccountPda(program),
   treeTokenAccount |-> TreeTokenAccountPda(program),
   globalConfig |-> GlobalConfigPda(program)]

-------------------------------------------------------------------------------
(* Data. *)

ProofSizes == <<64, 128, 64, 32, 32, 32, 32, 32, 32, 32>>

EncodeProof(proof) ==
  LET values == <<proof.proofA, proof.proofB, proof.proofC, proof.root,
                  proof.publicAmount, proof.extDataHash,
                  proof.inputNullifiers[1], proof.inputNullifiers[2],
                  proof.outputCommitments[1], proof.outputCommitments[2]>>
  IN  [i \in 1 .. 10 |-> Bytes(ProofSizes[i], values[i])]

ProofOfFields(f) ==
  [proofA |-> f[1], proofB |-> f[2], proofC |-> f[3], root |-> f[4],
   publicAmount |-> f[5], extDataHash |-> f[6], inputNullifiers |-> <<f[7], f[8]>>,
   outputCommitments |-> <<f[9], f[10]>>]

ExtDataSizes == <<8, 8>>

EncodeExtData(ext) == <<Bytes(8, ext.amount), Bytes(8, ext.fee)>>

(* An encrypted output has a prefix, its length: 8 bytes of version, 12 of  *)
(* the IV, 16 of the tag and 49 of the payload.                             *)
OutputSize == 85

Prefixed(output) == <<Bytes(4, OutputSize), Bytes(OutputSize, output)>>

Discriminator(name) == Bytes(8, name)

EncodeTransactData(args) ==
  <<Discriminator("transact")>> \o EncodeProof(args.proof)
    \o EncodeExtData(args.extData)
    \o Prefixed(args.encryptedOutput1) \o Prefixed(args.encryptedOutput2)

EncodeTransactSplData(args) ==
  <<Discriminator("transactSpl")>> \o EncodeProof(args.proof)
    \o EncodeExtData(args.extData)
    \o Prefixed(args.encryptedOutput1) \o Prefixed(args.encryptedOutput2)

(* The second output begins where the prefix of the first says it ends. *)
DecodeTransactData(data) ==
  LET head  == <<8>> \o ProofSizes \o ExtDataSizes \o <<4>>
      first == ReadFields(data, head)
      all   == ReadFields(data, head \o <<first[14], 4, OutputSize>>)
  IN  [discriminator |-> all[1],
       proof |-> ProofOfFields([i \in 1 .. 10 |-> all[i + 1]]),
       extData |-> [amount |-> all[12], fee |-> all[13]],
       encryptedOutput1 |-> all[15], encryptedOutput2 |-> all[17]]

-------------------------------------------------------------------------------
(* Instructions. *)

GetTransactInstruction(input, program) ==
  [programAddress |-> program,
   accounts |-> <<input.treeAccount,
                  input.nullifier0, input.nullifier1,
                  input.nullifier2, input.nullifier3,
                  input.treeTokenAccount, input.globalConfig, input.recipient,
                  input.feeRecipientAccount, input.signer, "system">>,
   data |-> EncodeTransactData(input)]

(* The program of the addresses is the one given, not the default. *)
BuildTransactInstruction(input, program) ==
  LET pool == FindPoolAddresses(program)
  IN  GetTransactInstruction(
        [treeAccount |-> pool.treeAccount,
         treeTokenAccount |-> pool.treeTokenAccount,
         globalConfig |-> pool.globalConfig,
         nullifier0 |-> input.nullifiers[1], nullifier1 |-> input.nullifiers[2],
         nullifier2 |-> input.nullifiers[3], nullifier3 |-> input.nullifiers[4],
         recipient |-> input.recipient,
         feeRecipientAccount |-> input.feeRecipient, signer |-> input.signer,
         proof |-> input.proof, extData |-> input.extData,
         encryptedOutput1 |-> input.encryptedOutput1,
         encryptedOutput2 |-> input.encryptedOutput2],
        program)

GetTransactSplInstruction(input, program) ==
  [programAddress |-> program,
   accounts |-> <<SplTreeAccountPda(input.mint, DefaultProgram),
                  input.nullifier0, input.nullifier1,
                  input.nullifier2, input.nullifier3,
                  GlobalConfigPda(DefaultProgram), input.signer, input.mint,
                  input.signerTokenAccount, input.recipient,
                  input.recipientTokenAccount,
                  AssociatedTokenPda(GlobalConfigPda(DefaultProgram), input.mint),
                  input.feeRecipientAta,
                  "token", "associated_token", "system">>,
   data |-> EncodeTransactSplData(input)]

GetInitializeInstruction(input, program) ==
  [programAddress |-> program,
   accounts |-> <<input.treeAccount, input.treeTokenAccount, input.globalConfig,
                  input.authority, "system">>,
   data |-> <<Discriminator("initialize")>>]

BuildInitializeInstruction(authority, program) ==
  LET pool == FindPoolAddresses(program)
  IN  GetInitializeInstruction(
        [treeAccount |-> pool.treeAccount,
         treeTokenAccount |-> pool.treeTokenAccount,
         globalConfig |-> pool.globalConfig, authority |-> authority], program)

(* The authority's instructions.  An optional value is a set with at most   *)
(* one element, and is written after a byte that says if it is there.       *)

Optional(size, values) ==
  IF values = {} THEN <<Bytes(1, 0)>>
  ELSE <<Bytes(1, 1), Bytes(size, CHOOSE value \in values : TRUE)>>

EncodeUpdateGlobalConfigData(args) ==
  <<Discriminator("updateGlobalConfig")>> \o Optional(2, args.depositFeeRate)
    \o Optional(2, args.withdrawalFeeRate) \o Optional(2, args.feeErrorMargin)

GetUpdateGlobalConfigInstruction(input, program) ==
  [programAddress |-> program,
   accounts |-> <<GlobalConfigPda(DefaultProgram), input.authority>>,
   data |-> EncodeUpdateGlobalConfigData(input)]

EncodeUpdateDepositLimitData(args) ==
  <<Discriminator("updateDepositLimit"), Bytes(8, args.newLimit)>>

GetUpdateDepositLimitInstruction(input, program) ==
  [programAddress |-> program,
   accounts |-> <<TreeAccountPda(DefaultProgram), input.authority>>,
   data |-> EncodeUpdateDepositLimitData(input)]

EncodeUpdateDepositLimitForSplTokenData(args) ==
  <<Discriminator("updateDepositLimitForSplToken"), Bytes(8, args.newLimit)>>

GetUpdateDepositLimitForSplTokenInstruction(input, program) ==
  [programAddress |-> program,
   accounts |-> <<SplTreeAccountPda(input.mint, DefaultProgram), input.mint,
                  input.authority>>,
   data |-> EncodeUpdateDepositLimitForSplTokenData(input)]

EncodeInitializeTreeAccountForSplTokenData(args) ==
  <<Discriminator("initializeTreeAccountForSplToken"), Bytes(8, args.maxDepositAmount)>>

GetInitializeTreeAccountForSplTokenInstruction(input, program) ==
  [programAddress |-> program,
   accounts |-> <<SplTreeAccountPda(input.mint, DefaultProgram), input.mint,
                  GlobalConfigPda(DefaultProgram), input.authority, "system">>,
   data |-> EncodeInitializeTreeAccountForSplTokenData(input)]

(* The name an instruction's data begins with; none, and the code throws.   *)
IdentifyZkcashInstruction(data) ==
  LET name == ReadFields(data, <<8>>)[1]
  IN  IF name \in {"initialize", "initializeTreeAccountForSplToken", "transact",
                   "transactSpl", "updateDepositLimit",
                   "updateDepositLimitForSplToken", "updateGlobalConfig"}
      THEN name ELSE "none"

(* The kinds that are for the native token. *)
IdentifyInstruction(instruction, program) ==
  LET name == IdentifyZkcashInstruction(instruction.data)
  IN  IF instruction.programAddress = program /\ name \in {"initialize", "transact"}
      THEN name ELSE "none"

ParseInitializeInstruction(instruction) ==
  LET account == instruction.accounts
  IN  [programAddress |-> instruction.programAddress,
       accounts |-> [treeAccount |-> account[1], treeTokenAccount |-> account[2],
                     globalConfig |-> account[3], authority |-> account[4],
                     systemProgram |-> account[5]]]

ParseTransactInstruction(instruction) ==
  LET account == instruction.accounts
  IN  [programAddress |-> instruction.programAddress,
       accounts |-> [treeAccount |-> account[1],
                     nullifier0 |-> account[2], nullifier1 |-> account[3],
                     nullifier2 |-> account[4], nullifier3 |-> account[5],
                     treeTokenAccount |-> account[6], globalConfig |-> account[7],
                     recipient |-> account[8], feeRecipient |-> account[9],
                     signer |-> account[10], systemProgram |-> account[11]],
       data |-> DecodeTransactData(instruction.data)]

(* What an instruction says when it is for the program and of a kind that  *)
(* is known: one record or none.                                            *)
ParseInstruction(instruction, program) ==
  LET kind == IdentifyInstruction(instruction, program)
      initialize == ParseInitializeInstruction(instruction)
      transact == ParseTransactInstruction(instruction)
  IN  CASE kind = "initialize" ->
             {[kind |-> kind, programAddress |-> initialize.programAddress,
               accounts |-> initialize.accounts]}
        [] kind = "transact" ->
             {[kind |-> kind, programAddress |-> transact.programAddress,
               accounts |-> transact.accounts, data |-> transact.data]}
        [] OTHER -> {}
===============================================================================
