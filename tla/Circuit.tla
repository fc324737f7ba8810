------------------------------- MODULE Circuit -------------------------------
(***************************************************************************)
(* What the client proves and what the circuit demands of it (packages/    *)
(* client/src/circuit.ts, program.ts and proof-runner.ts): two input       *)
(* slots, two outputs, and the public inputs that tie them to a            *)
(* transaction.  A second note that is missing is a dummy of amount 0.     *)
(***************************************************************************)
EXTENDS Sequences, Utxo, MerkleTree

(* The sum of the amounts of one or two slots or outputs. *)
TotalOf(pair) == pair[1].amount + (IF Len(pair) = 2 THEN pair[2].amount ELSE 0)

ModField(amount, fieldSize) == amount % fieldSize

CreateInputSlot(note) ==
  [amount |-> note.amount, privateKey |-> note.privateKey,
   blinding |-> note.blinding, nullifier |-> note.nullifier,
   pathIndex |-> note.index, path |-> note.path]

(* The key and the blinding are random, so the nullifier is nobody's. *)
CreateDummyInputSlot(height, random) ==
  [amount |-> 0, privateKey |-> random, blinding |-> random,
   nullifier |-> NullifierOf(random,
                             CommitmentOf(0, UtxoPublicKey(random), random), 0),
   pathIndex |-> 0, path |-> [level \in 1 .. height |-> MerkleZero]]

(* padInputNotes and createCircuitInputSlots; without a note, the inputs of *)
(* a deposit.                                                               *)
CreateInputSlots(notes, height, randoms) ==
  [slot \in 1 .. 2 |->
     IF slot <= Len(notes) THEN CreateInputSlot(notes[slot])
     ELSE CreateDummyInputSlot(height, <<"dummy", randoms[slot]>>)]

(* The output that is kept and a dummy, at the two indexes that come next.  *)
CreateOutputs(noteKey, publicKey, amount, nextIndex, randoms) ==
  LET Output(kept, turn) ==
        [amount |-> kept, publicKey |-> publicKey, blinding |-> randoms[turn],
         commitment |-> CommitmentOf(kept, publicKey, randoms[turn]),
         encrypted |-> EncryptOutput("v3", noteKey, kept, randoms[turn],
                                     nextIndex + turn - 1)]
  IN  <<Output(amount, 1), Output(0, 2)>>

(* What a deposit adds after its fee, or a withdrawal takes with its fee.   *)
EncodePublicAmount(ext, fieldSize) == ModField(ext.amount - ext.fee, fieldSize)

(* A deposit must be worth more than its fee. *)
CanEncode(ext) == ext.amount < 0 \/ ext.amount > ext.fee

HashExtData(recipient, ext, encrypted, feeRecipient) ==
  <<recipient, ext.amount, encrypted[1], encrypted[2], ext.fee, feeRecipient>>

DeriveWithoutCross(nullifiers) ==
  <<<<0, nullifiers[1]>>, <<1, nullifiers[2]>>,
    <<0, nullifiers[1]>>, <<1, nullifiers[2]>>>>

(* Four accounts: the program creates the first two, one for each slot, and *)
(* fails when any of the four exists.                                       *)
DeriveNullifierAccounts(nullifiers) ==
  <<<<0, nullifiers[1]>>, <<1, nullifiers[2]>>,
    <<0, nullifiers[2]>>, <<1, nullifiers[1]>>>>

(* createSnarkInput: the signals of the proof, public and private. *)
SnarkInput(public, slots, outputs) ==
  [root |-> public.root, publicAmount |-> public.publicAmount,
   extDataHash |-> public.extDataHash,
   inputNullifier |-> <<slots[1].nullifier, slots[2].nullifier>>,
   inAmount |-> <<slots[1].amount, slots[2].amount>>,
   inPrivateKey |-> <<slots[1].privateKey, slots[2].privateKey>>,
   inBlinding |-> <<slots[1].blinding, slots[2].blinding>>,
   inPathIndices |-> <<slots[1].pathIndex, slots[2].pathIndex>>,
   inPathElements |-> <<slots[1].path, slots[2].path>>,
   outputCommitment |-> <<outputs[1].commitment, outputs[2].commitment>>,
   outAmount |-> <<outputs[1].amount, outputs[2].amount>>,
   outPubkey |-> <<outputs[1].publicKey, outputs[2].publicKey>>,
   outBlinding |-> <<outputs[1].blinding, outputs[2].blinding>>]

(* validateAmountInvariant, before the proof is made. *)
AmountsBalance(signals, fieldSize) ==
  signals.publicAmount =
    ModField(signals.outAmount[1] + signals.outAmount[2]
               - (signals.inAmount[1] + signals.inAmount[2]), fieldSize)

(* The signals a proof shows, in the circuit's order. *)
PublicSignals(proof) ==
  <<proof.root, proof.publicAmount, proof.extDataHash,
    proof.inputNullifiers[1], proof.inputNullifiers[2],
    proof.outputCommitments[1], proof.outputCommitments[2]>>

ShownBy(signals) ==
  <<signals.root, signals.publicAmount, signals.extDataHash,
    signals.inputNullifier[1], signals.inputNullifier[2],
    signals.outputCommitment[1], signals.outputCommitment[2]>>

(* An ideal proof: it holds what it proves, and cannot be made otherwise.   *)
FormatProof(signals) ==
  [proofA |-> <<"pi_a", signals>>, proofB |-> "pi_b", proofC |-> "pi_c"]

Proven(proof) == proof.proofA[2]

(* The proof material of an operation: everything its instruction takes     *)
(* from the prover.                                                         *)
ProofMaterial(root, slots, outputs, ext, recipient, feeRecipient, fieldSize) ==
  LET encrypted == <<outputs[1].encrypted, outputs[2].encrypted>>
      public    == [root |-> root,
                    publicAmount |-> EncodePublicAmount(ext, fieldSize),
                    extDataHash |-> HashExtData(recipient, ext, encrypted,
                                                feeRecipient),
                    inputNullifiers |-> <<slots[1].nullifier, slots[2].nullifier>>,
                    outputCommitments |-> <<outputs[1].commitment,
                                            outputs[2].commitment>>]
      made      == FormatProof(SnarkInput(public, slots, outputs))
  IN  [nullifiers |-> DeriveNullifierAccounts(public.inputNullifiers),
       proof |-> [proofA |-> made.proofA, proofB |-> made.proofB,
                  proofC |-> made.proofC,
                  root |-> public.root, publicAmount |-> public.publicAmount,
                  extDataHash |-> public.extDataHash,
                  inputNullifiers |-> public.inputNullifiers,
                  outputCommitments |-> public.outputCommitments],
       extData |-> ext,
       encryptedOutput1 |-> encrypted[1], encryptedOutput2 |-> encrypted[2]]

(* What the circuit demands. *)
Satisfied(signals, fieldSize) ==
  /\ \A s \in 1 .. 2 :
       LET commitment == CommitmentOf(signals.inAmount[s],
                                      UtxoPublicKey(signals.inPrivateKey[s]),
                                      signals.inBlinding[s])
       IN  /\ signals.inputNullifier[s] =
                NullifierOf(signals.inPrivateKey[s], commitment,
                            signals.inPathIndices[s])
           /\ \/ signals.inAmount[s] = 0
              \/ Fold(Leaf(commitment), signals.inPathIndices[s],
                      signals.inPathElements[s]) = signals.root
  /\ \A o \in 1 .. 2 :
       signals.outputCommitment[o] =
         CommitmentOf(signals.outAmount[o], signals.outPubkey[o],
                      signals.outBlinding[o])
  /\ signals.inputNullifier[1] # signals.inputNullifier[2]
  /\ ModField(signals.inAmount[1] + signals.inAmount[2] + signals.publicAmount,
              fieldSize) =
       ModField(signals.outAmount[1] + signals.outAmount[2], fieldSize)

(* What the program's verifier accepts. *)
Verifies(proof, fieldSize) ==
  /\ ShownBy(Proven(proof)) = PublicSignals(proof)
  /\ Satisfied(Proven(proof), fieldSize)
===============================================================================
