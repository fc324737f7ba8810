------------------------------ MODULE Delivery ------------------------------
(***************************************************************************)
(* What sending promises, whichever way an operation goes: a transaction   *)
(* pays only for an operation that somebody asked to send, never together  *)
(* with another transaction that spends the same note (a second one for    *)
(* the same operation does), and is never taken back; a caller is told     *)
(* once, and told "receipt" only for an operation that is paid.            *)
(***************************************************************************)
CONSTANTS Operations, Calls, None, Answers, Conflict(_, _)

VARIABLES
  paid,     \* the transactions that have paid, each with its operation .op
  request,  \* the operation each caller asked for
  answer    \* what each caller was told
vars == <<paid, request, answer>>

Init ==
  /\ paid = {}
  /\ request = [c \in Calls |-> None]
  /\ answer = [c \in Calls |-> "none"]

Ask(c, o) ==
  /\ request[c] = None
  /\ request' = [request EXCEPT ![c] = o]
  /\ UNCHANGED <<paid, answer>>

\* A block may hold several payments.
Pay ==
  /\ paid \subseteq paid'
  /\ \A tx \in paid' \ paid : \E c \in Calls : request[c] = tx.op
  /\ \A tx, ux \in paid' : tx # ux => ~Conflict(tx.op, ux.op)
  /\ UNCHANGED <<request, answer>>

\* A process that ends answers several calls at once.
Tell ==
  /\ answer' \in [Calls -> Answers \union {"none"}]
  /\ \A c \in Calls : answer'[c] # answer[c] =>
       /\ answer[c] = "none" /\ request[c] # None
       /\ answer'[c] = "receipt" => \E tx \in paid : tx.op = request[c]
  /\ UNCHANGED <<paid, request>>

Next == Pay \/ Tell \/ \E c \in Calls, o \in Operations : Ask(c, o)
Spec == Init /\ [][Next]_vars
=============================================================================
