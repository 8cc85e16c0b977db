-------------------------------- MODULE Outage --------------------------------
(***************************************************************************)
(* What the breaker promises of one outage after another, to the service   *)
(* and to whoever waits for it: once it holds, nobody tries the service    *)
(* until the deadline has come, then one book does at a time; a deadline   *)
(* is set anew only after it has come, once, for a wait twice as long, up  *)
(* to the cap; and what an outage had come to is forgotten with it.        *)
(* A try is given only so much time: one that takes longer stops counting, *)
(* whether or not it is over.                                              *)
(*                                                                         *)
(* Nothing here is a state of the row: no half-open, no stale claim, no    *)
(* streak, no snapshot, no thread and no restart.  Breaker implements it.  *)
(***************************************************************************)
EXTENDS Integers

CONSTANTS Book, CoolBase, CoolMax

VARIABLES
  held,      \* the service is held
  cooldown,  \* how long the next wait is at least, doubled each time; 0 when not held
  wait,      \* how far off the deadline is
  trying     \* the books that run on a claim of the probe, in the time given

vars == <<held, cooldown, wait, trying>>

Init == held = FALSE /\ cooldown = 0 /\ wait = 0 /\ trying = {}

(* The service may ask for a longer wait, up to the cap.                     *)
Sets(deadline) ==
  /\ cooldown' = deadline
  /\ wait' \in deadline .. CoolMax

(* A try ends when it ends, whatever has become of the outage.               *)
SomeEnd == trying' \in SUBSET trying

Trip == ~held /\ held' = TRUE /\ Sets(CoolBase) /\ SomeEnd

Reopen ==
  /\ held /\ wait = 0
  /\ Sets(IF 2 * cooldown < CoolMax THEN 2 * cooldown ELSE CoolMax)
  /\ SomeEnd /\ UNCHANGED held

Close == held /\ held' = FALSE /\ cooldown' = 0 /\ wait' = 0 /\ SomeEnd

Tick == wait > 0 /\ wait' = wait - 1 /\ SomeEnd /\ UNCHANGED <<held, cooldown>>

Try(b) ==
  /\ held /\ wait = 0 /\ trying = {}
  /\ trying' = {b}
  /\ UNCHANGED <<held, cooldown, wait>>

End == UNCHANGED <<held, cooldown, wait>> /\ SomeEnd

Next == End \/ Trip \/ Reopen \/ Close \/ Tick \/ \E b \in Book : Try(b)

Spec == Init /\ [][Next]_vars
=============================================================================
