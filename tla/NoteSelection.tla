---------------------------- MODULE NoteSelection ----------------------------
(***************************************************************************)
(* Which notes a transfer spends (pickNotes in packages/client/src/        *)
(* owned.ts): the largest first, and at most two, for the circuit has two  *)
(* inputs.  Notes of one amount come in the order of their commitments,    *)
(* which says nothing of their age: any of them may come first.            *)
(***************************************************************************)
EXTENDS Integers

Largest(notes) ==
  {note \in notes : \A other \in notes : other.amount <= note.amount}

PickNotesAbove(notes, target) ==
  {<<note>> : note \in {note \in Largest(notes) : note.amount > target}}
  \union
  UNION {{<<first, second>> :
            second \in {second \in Largest(notes \ {first}) :
                          first.amount + second.amount > target}} :
           first \in {first \in Largest(notes) : first.amount < target}}

(* The possible selections; none when the first two fall short. *)
PickNotes(notes, target) ==
  {<<note>> : note \in {note \in Largest(notes) : note.amount >= target}}
  \union
  UNION {{<<first, second>> :
            second \in {second \in Largest(notes \ {first}) :
                          first.amount + second.amount >= target}} :
           first \in {first \in Largest(notes) : first.amount < target}}

(* One note or two that reach the target. *)
Covered(notes, target) ==
  \E first, second \in notes :
    \/ first.amount >= target
    \/ first # second /\ first.amount + second.amount >= target

(* A selection exists exactly when some are enough, and it is enough. *)
PicksWell(notes, target) ==
  /\ PickNotes(notes, target) = {} <=> ~Covered(notes, target)
  /\ \A picked \in PickNotes(notes, target) :
       \/ \E note \in notes : picked = <<note>> /\ note.amount >= target
       \/ \E first, second \in notes :
            /\ picked = <<first, second>> /\ first # second
            /\ first.amount + second.amount >= target
===============================================================================
