------------------------------ MODULE StageRows ------------------------------
(***************************************************************************)
(* What the stages of one book may rely on of their rows in stage_runs,    *)
(* and all that the modules of single stages and the one of the whole walk *)
(* have to agree on: one stage runs at a time; it is neither finished nor  *)
(* parked when it is begun; its row is finished or parked by the end of    *)
(* its own run and by nothing else; and a reset is the only way back.      *)
(*                                                                         *)
(* A row is here what _advance makes of it: "finished" if it is ok or      *)
(* skipped, "parked" if it has failed and its attempts are spent, "open"   *)
(* otherwise.  Pipeline implements it for the eight stages; Acquire,       *)
(* Notebook and Shelving each for their own.                               *)
(***************************************************************************)
CONSTANTS Stage, None

VARIABLES
  state,  \* what each row is
  run     \* the stage that runs, if any

vars == <<state, run>>

Init == state = [s \in Stage |-> "open"] /\ run = None

(* mark_running                                                              *)
Begin(s) ==
  /\ run = None /\ state[s] = "open"
  /\ run' = s
  /\ UNCHANGED state

(* mark_done                                                                 *)
End(s) ==
  /\ run = s /\ run' = None
  /\ \E v \in {"open", "finished", "parked"} :
       state' = [t \in Stage |-> IF t = s THEN v ELSE state[t]]

(* The process stops in the middle of a run.                                 *)
Stop == run # None /\ run' = None /\ UNCHANGED state

(* reset_stage, whatever runs.                                               *)
Reset(S) ==
  /\ state' = [s \in Stage |-> IF s \in S THEN "open" ELSE state[s]]
  /\ UNCHANGED run

Next ==
  \/ Stop
  \/ \E s \in Stage : Begin(s) \/ End(s)
  \/ \E S \in SUBSET Stage : Reset(S)

Spec == Init /\ [][Next]_vars
=============================================================================
