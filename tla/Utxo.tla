-------------------------------- MODULE Utxo --------------------------------
(***************************************************************************)
(* A note: its keys, its commitment, its nullifier and the encrypted output*)
(* that carries it to its owner (packages/client/src/utxo.ts, output.ts    *)
(* and encryption.ts).                                                     *)
(*                                                                         *)
(* Poseidon, the key derivation and AES-GCM are ideal: a hash is a free    *)
(* constructor, and a ciphertext is read with its key or not at all.       *)
(***************************************************************************)
EXTENDS Integers

NativeToken == "native"

Poseidon(inputs) == inputs

NoteKey(unlockSignature) == <<unlockSignature>>

UtxoPrivateKey(noteKey) == <<noteKey>>

UtxoPublicKey(privateKey) == Poseidon(<<privateKey>>)

CommitmentOf(amount, publicKey, blinding) ==
  Poseidon(<<amount, publicKey, blinding, NativeToken>>)

(* A nullifier names a leaf, not a commitment: the same note at another     *)
(* index has another one.  The signature it is hashed from, with the        *)
(* commitment and the index, determines both.                               *)
NullifierOf(privateKey, commitment, index) ==
  Poseidon(<<privateKey, commitment, index>>)

(* The payload holds the index its creator expected. *)
EncodePayload(amount, blinding, index) ==
  [amount |-> amount, blinding |-> blinding, index |-> index,
   mint |-> NativeToken]

EncryptOutput(version, noteKey, amount, blinding, index) ==
  [version |-> version, key |-> noteKey,
   payload |-> EncodePayload(amount, blinding, index)]

(* getEncryptionVersion and decryptAesGcm. *)
Opens(noteKey, encrypted) ==
  encrypted.version \in {"v2", "v3"} /\ encrypted.key = noteKey

(* The dummy beside every note has amount 0. *)
IsNote(payload) == payload.amount > 0 /\ payload.mint = NativeToken

CreateDecryptedOwnedNote(noteKey, payload, index) ==
  LET privateKey == UtxoPrivateKey(noteKey)
      publicKey  == UtxoPublicKey(privateKey)
      commitment == CommitmentOf(payload.amount, publicKey, payload.blinding)
  IN  [commitment |-> commitment, amount |-> payload.amount, index |-> index,
       blinding |-> payload.blinding,
       privateKey |-> privateKey, publicKey |-> publicKey,
       nullifier |-> NullifierOf(privateKey, commitment, index)]

(* What can be read of an output, as a set of at most one note: the index   *)
(* of the note is that of the row, whatever the payload says.               *)
DecryptAtPayloadIndex(noteKey, encrypted, outputIndex) ==
  IF Opens(noteKey, encrypted) /\ IsNote(encrypted.payload)
  THEN {CreateDecryptedOwnedNote(noteKey, encrypted.payload,
                                 encrypted.payload.index)}
  ELSE {}

DecryptOwnedNote(noteKey, encrypted, outputIndex) ==
  IF Opens(noteKey, encrypted) /\ IsNote(encrypted.payload)
  THEN {CreateDecryptedOwnedNote(noteKey, encrypted.payload, outputIndex)}
  ELSE {}

RederiveUtxoWitness(note, index) ==
  [note EXCEPT !.index = index,
               !.nullifier = NullifierOf(note.privateKey, note.commitment, index)]
===============================================================================
