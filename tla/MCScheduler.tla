----------------------------- MODULE MCScheduler -----------------------------
(* One phase that may eat the budget of a sweep, and is due again after one   *)
(* more at the earliest.                                                     *)
EXTENDS Scheduler
Health == <<"health">>
Interval == [health |-> 1]
=============================================================================
