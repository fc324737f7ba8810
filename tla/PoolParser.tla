------------------------------ MODULE PoolParser ------------------------------
(***************************************************************************)
(* What the backend reads out of a pool transaction                        *)
(* (apps/backend/src/modules/pool/pool.parser.ts): the spent nullifiers    *)
(* and the roots from its top-level instructions, the outputs from the     *)
(* events in its logs.                                                     *)
(*                                                                         *)
(* A transaction has account keys, the static ones and those loaded from   *)
(* lookup tables, instructions that name their program by its place among  *)
(* them, and log lines [kind, program, event] with kind "invoke", "data",  *)
(* "exit" or "other"; an event is [name, index, commitment, encrypted].    *)
(***************************************************************************)
EXTENDS SequencesExt, Instructions

NativeOutputCount == 2

AllAccountKeys(tx) ==
    tx.accountKeys \o tx.loadedAddresses.writable \o tx.loadedAddresses.readonly

IsNativeTransact(instruction, keys, program) ==
    /\ keys[instruction.programIdIndex + 1] = program
    /\ ReadFields(instruction.data, <<8>>)[1] = "transact"

(* What is read of a transact: the discriminator, the three parts of the   *)
(* proof, the root, two fields that are skipped and the two nullifiers.    *)
TransactFields == <<8, 64, 128, 64, 32, 32, 32, 32, 32>>

InputNullifiers(instruction) ==
    LET read == ReadFields(instruction.data, TransactFields)
    IN  {read[8], read[9]}

(* decodeCommitmentEvent: an event of another name is no event. *)
IsCommitment(log) == log.kind = "data" /\ log.event.name = "CommitmentData"

CommitmentEventsOfAny(logs, program) ==
    LET data == SelectSeq(logs, IsCommitment)
    IN  [i \in DOMAIN data |-> data[i].event]

(* parseCommitmentEvents: the data lines logged while the pool is the     *)
(* innermost program that runs.                                            *)
CommitmentEvents(logs, program) ==
    LET read[i \in 0 .. Len(logs)] ==
          IF i = 0 THEN [stack |-> <<>>, events |-> <<>>]
          ELSE LET acc == read[i - 1]
                   log == logs[i]
               IN  CASE log.kind = "invoke" ->
                          [acc EXCEPT !.stack = Append(@, log.program)]
                     [] IsCommitment(log) /\ acc.stack # <<>> ->
                          IF Last(acc.stack) = program
                          THEN [acc EXCEPT !.events = Append(@, log.event)]
                          ELSE acc
                     [] log.kind = "exit" /\ acc.stack # <<>> ->
                          [acc EXCEPT !.stack = Front(@)]
                     [] OTHER -> acc
    IN  read[Len(logs)].events

(* The positions of the transact instructions, in order. *)
NativeInstructions(tx, program) ==
    LET keys == AllAccountKeys(tx)
        native[i \in 0 .. Len(tx.instructions)] ==
          IF i = 0 THEN <<>>
          ELSE IF IsNativeTransact(tx.instructions[i], keys, program)
               THEN Append(native[i - 1], i) ELSE native[i - 1]
    IN  native[Len(tx.instructions)]

(* The instruction an event is put down to: two events each, the first     *)
(* instruction when there are more.                                        *)
OwnerInstruction(native, position) ==
    LET turn == (position - 1) \div NativeOutputCount + 1
    IN  IF turn <= Len(native) THEN native[turn] ELSE native[1]

ParsedOutputs(tx, program) ==
    LET native == NativeInstructions(tx, program)
        events == CommitmentEvents(tx.logs, program)
    IN  IF native = <<>> THEN {}
        ELSE {[index |-> events[e].index,
               commitment |-> events[e].commitment,
               encrypted |-> events[e].encrypted,
               instruction |-> OwnerInstruction(native, e)] :
                 e \in 1 .. Len(events)}

ParsedNullifiers(tx, program) ==
    LET native == NativeInstructions(tx, program)
    IN  UNION {InputNullifiers(tx.instructions[native[i]]) :
                 i \in 1 .. Len(native)}

===============================================================================
