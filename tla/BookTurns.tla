------------------------------ MODULE BookTurns ------------------------------
(***************************************************************************)
(* What the scheduler promises the books, and all that the other modules   *)
(* take for granted of it: a book is advanced by one worker at a time, and *)
(* a book that nobody advances gets another turn, for as long as the       *)
(* scheduler is not stopped.  Scheduler implements it.                     *)
(***************************************************************************)
EXTENDS Integers

CONSTANT Book

VARIABLES
  turn,    \* how many workers are in _advance with the book, by its claim
  closed   \* the scheduler has been stopped

vars == <<turn, closed>>

Init == turn = [b \in Book |-> 0] /\ closed = FALSE

Begin(b) == turn[b] = 0 /\ turn' = [turn EXCEPT ![b] = 1] /\ UNCHANGED closed

End(b) == turn[b] = 1 /\ turn' = [turn EXCEPT ![b] = 0] /\ UNCHANGED closed

Close == closed' = TRUE /\ UNCHANGED turn

Next == Close \/ \E b \in Book : Begin(b) \/ End(b)

Safety == Init /\ [][Next]_vars

(* Every book gets its turns.  Nothing is promised of the end of a turn: a   *)
(* worker may hang.                                                          *)
Served == \A b \in Book : []<>(turn[b] = 1 \/ closed)

Spec == Safety /\ Served
=============================================================================
