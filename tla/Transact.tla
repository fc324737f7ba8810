------------------------------- MODULE Transact -------------------------------
(***************************************************************************)
(* The way of a proof into an instruction of the pool: through the relayer *)
(* (packages/client/src/relayer.ts, apps/backend/src/modules/relayer),     *)
(* which signs for the wallet, or from the wallet itself (packages/client/ *)
(* src/chain.ts); and what the program demands of the instruction.         *)
(***************************************************************************)
EXTENDS Circuit, Instructions

(* createRelayerTransferRequest: the bytes leave with the size they have.   *)
RelayTransferRequest(program, recipient, feeRecipient, material) ==
  [programAddress |-> program, recipient |-> recipient,
   feeRecipient |-> feeRecipient, nullifiers |-> material.nullifiers,
   proof |-> EncodeProof(material.proof), extData |-> material.extData,
   encryptedOutput1 |-> Bytes(OutputSize, material.encryptedOutput1),
   encryptedOutput2 |-> Bytes(OutputSize, material.encryptedOutput2)]

MaxOutputSize == 1024

(* relayerTransferRequestSchema: what the relayer reads.  The fee is unsigned,*)
(* the amount has a sign.                                                   *)
IsRelayRequest(request) ==
  /\ Len(request.nullifiers) = 4
  /\ [i \in DOMAIN request.proof |-> request.proof[i].size] = ProofSizes
  /\ request.extData.amount \in Int /\ request.extData.fee \in Nat
  /\ request.encryptedOutput1.size \in 1 .. MaxOutputSize
  /\ request.encryptedOutput2.size \in 1 .. MaxOutputSize

(* validateRelayerTransferPolicy *)
RelayPolicy(request, program, feeRecipient) ==
  request.programAddress = program /\ request.feeRecipient = feeRecipient

(* The relayer pays and signs, and names its own program and fee recipient. *)
RelayedInstruction(request, program, feeRecipient) ==
  BuildTransactInstruction(
    [signer |-> "relayer", recipient |-> request.recipient,
     feeRecipient |-> feeRecipient, nullifiers |-> request.nullifiers,
     proof |-> ProofOfFields([i \in DOMAIN request.proof |-> request.proof[i].value]),
     extData |-> request.extData,
     encryptedOutput1 |-> request.encryptedOutput1.value,
     encryptedOutput2 |-> request.encryptedOutput2.value],
    program)

(* buildDefaultTransactInstruction: the wallet signs. *)
SignedInstruction(signer, recipient, feeRecipient, material, program) ==
  BuildTransactInstruction(
    [signer |-> signer, recipient |-> recipient, feeRecipient |-> feeRecipient,
     nullifiers |-> material.nullifiers, proof |-> material.proof,
     extData |-> material.extData,
     encryptedOutput1 |-> material.encryptedOutput1,
     encryptedOutput2 |-> material.encryptedOutput2],
    program)

(* A message asks for its compute units before its instruction. *)
BaseTransactionMessage(units) ==
  <<[programAddress |-> "compute_budget", accounts |-> <<>>,
     data |-> <<Bytes(1, "SetComputeUnitLimit"), Bytes(4, units)>>]>>

RelayerComputeUnits == 1000000
DefaultComputeUnits == 1000000

BuildTransactionMessage(request, program, feeRecipient) ==
  BaseTransactionMessage(RelayerComputeUnits)
    \o <<RelayedInstruction(request, program, feeRecipient)>>

(* prepareTransfer and prepareDeposit of the chain executor: the message,   *)
(* when the signer is the owner.  A deposit's recipient is its owner.       *)
PrepareTransferMessage(signer, request, feeRecipient, program) ==
  IF signer # request.owner THEN {}
  ELSE {BaseTransactionMessage(DefaultComputeUnits)
          \o <<SignedInstruction(signer, request.recipient, feeRecipient,
                                 request.material, program)>>}

PrepareDepositMessage(signer, request, feeRecipient, program) ==
  IF signer # request.owner THEN {}
  ELSE {BaseTransactionMessage(DefaultComputeUnits)
          \o <<SignedInstruction(signer, request.owner, feeRecipient,
                                 request.material, program)>>}

-------------------------------------------------------------------------------
(* The program. *)

NullifierAccountsOf(instruction) ==
  LET account == ParseTransactInstruction(instruction).accounts
  IN  <<account.nullifier0, account.nullifier1, account.nullifier2,
        account.nullifier3>>

(* What it demands of an instruction, whatever its accounts hold: its own   *)
(* addresses, nullifier accounts that are derived from the nullifiers of    *)
(* the proof, and a proof of just what the instruction says.                *)
IsWellFormed(instruction, program, fieldSize) ==
  \E parsed \in ParseInstruction(instruction, program) :
    LET account == parsed.accounts
        data    == parsed.data
    IN  /\ parsed.kind = "transact"
        /\ account.treeAccount = TreeAccountPda(program)
        /\ account.treeTokenAccount = TreeTokenAccountPda(program)
        /\ account.globalConfig = GlobalConfigPda(program)
        /\ NullifierAccountsOf(instruction) =
             DeriveNullifierAccounts(data.proof.inputNullifiers)
        /\ data.proof.publicAmount = EncodePublicAmount(data.extData, fieldSize)
        /\ data.proof.extDataHash =
             HashExtData(account.recipient, data.extData,
                         <<data.encryptedOutput1, data.encryptedOutput2>>,
                         account.feeRecipient)
        /\ Verifies(data.proof, fieldSize)

(* The call it makes: its nullifiers, its outputs and its amounts. *)
CallOf(instruction) ==
  LET data    == ParseTransactInstruction(instruction).data
      signals == Proven(data.proof)
      Output(o, encrypted) ==
        [amount |-> signals.outAmount[o], publicKey |-> signals.outPubkey[o],
         blinding |-> signals.outBlinding[o],
         commitment |-> data.proof.outputCommitments[o], encrypted |-> encrypted]
  IN  [nullifiers |-> data.proof.inputNullifiers,
       outputs |-> <<Output(1, data.encryptedOutput1),
                     Output(2, data.encryptedOutput2)>>,
       ext |-> data.extData]
===============================================================================
