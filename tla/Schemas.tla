------------------------------- MODULE Schemas -------------------------------
(***************************************************************************)
(* The shapes the client's parts hand to each other, as the schemas of     *)
(* packages/client/src demand them: a record that does not pass ends the   *)
(* operation with an error.                                                *)
(***************************************************************************)
EXTENDS Quotes, Transact

Lamports == Nat
PositiveLamports == Nat \ {0}

HasFields(record, fields) == DOMAIN record = fields

(* transferQuoteSchema, with the rule that ties its amounts together. *)
IsTransferQuote(quote) ==
  /\ HasFields(quote, {"recipient", "balance", "gross", "fee", "shield"})
  /\ quote.recipient \in PositiveLamports /\ quote.gross \in PositiveLamports
  /\ quote.balance \in Lamports /\ quote.fee \in Lamports
  /\ quote.shield \in Lamports
  /\ QuoteIsValid(quote)

(* depositQuoteSchema *)
IsDepositQuote(quote, bps) ==
  /\ HasFields(quote, {"deposit", "output", "fee"})
  /\ quote.deposit \in PositiveLamports /\ quote.output \in PositiveLamports
  /\ quote.deposit - quote.fee = quote.output
  /\ quote.fee = DepositFee(quote.deposit, bps)

(* utxoWitnessSchema and spendableNoteSchema: a dummy is no note. *)
IsSpendableNote(note) ==
  /\ HasFields(note, {"commitment", "amount", "index", "blinding", "privateKey",
                      "publicKey", "nullifier"})
  /\ note.amount \in PositiveLamports /\ note.index \in Nat

(* selectedNotesSchema *)
AreSelectedNotes(notes) ==
  /\ Len(notes) \in 1 .. 2
  /\ \A i \in DOMAIN notes : IsSpendableNote(notes[i])

IsMerkleState(state) ==
  HasFields(state, {"root", "nextIndex"}) /\ state.nextIndex \in Nat

(* A note with the path of its Merkle proof, merkleProofEntrySchema. *)
IsCircuitInputNote(note, height) ==
  /\ HasFields(note, {"amount", "privateKey", "publicKey", "blinding",
                      "nullifier", "index", "path"})
  /\ note.amount \in PositiveLamports /\ note.index \in Nat
  /\ DOMAIN note.path = 1 .. height

(* The signals of CircuitInputSlot and circuitOutputSchema. *)
AreCircuitSignals(signals, height) ==
  \A i \in 1 .. 2 :
    /\ signals.inAmount[i] \in Lamports /\ signals.outAmount[i] \in Lamports
    /\ signals.inPathIndices[i] \in Nat
    /\ DOMAIN signals.inPathElements[i] = 1 .. height

(* proofMaterialSchema *)
IsProofMaterial(material) ==
  /\ HasFields(material, {"nullifiers", "proof", "extData", "encryptedOutput1",
                          "encryptedOutput2"})
  /\ HasFields(material.proof,
               {"proofA", "proofB", "proofC", "root", "publicAmount",
                "extDataHash", "inputNullifiers", "outputCommitments"})
  /\ Len(material.nullifiers) = 4
  /\ Len(material.proof.inputNullifiers) = 2
  /\ Len(material.proof.outputCommitments) = 2
  /\ material.extData.amount \in Int /\ material.extData.fee \in Nat

(* preparedTransferSchema and preparedDepositSchema; the executor's payload *)
(* is made of the material.                                                 *)
IsPreparedTransfer(prepared) ==
  /\ HasFields(prepared, {"kind", "owner", "recipient", "quote", "material"})
  /\ IsTransferQuote(prepared.quote) /\ IsProofMaterial(prepared.material)

IsPreparedDeposit(prepared, bps) ==
  /\ HasFields(prepared, {"kind", "owner", "recipient", "quote", "material"})
  /\ IsDepositQuote(prepared.quote, bps) /\ IsProofMaterial(prepared.material)

(* What the client compares an executor's answer with. *)
ValidatePreparedTransfer(prepared, expected) ==
  /\ prepared.owner = expected.owner /\ prepared.recipient = expected.recipient
  /\ prepared.quote = expected.quote

ValidatePreparedDeposit(prepared, expected) ==
  /\ prepared.owner = expected.owner /\ prepared.recipient = expected.owner
  /\ prepared.quote = expected.quote
===============================================================================
