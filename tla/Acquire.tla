------------------------------- MODULE Acquire -------------------------------
(***************************************************************************)
(* One acquire stage of one book (app/stages/acquire.py) and Shelfmark,    *)
(* which downloads for it (app/clients/shelfmark.py): not queued means     *)
(* search, choose a release and ask for it; queued means watch the task.   *)
(* The two meet in the row -- queued_at, and the releases tried, which are *)
(* kept in output_path -- while Shelfmark keeps its tasks in memory only.  *)
(*                                                                         *)
(* The row is written in several statements after the request, and both    *)
(* processes can stop between any two.  Whether the stage is attempted at  *)
(* all (breaker, claims, forgiveness) is the matter of the other modules.  *)
(***************************************************************************)
EXTENDS Integers, Sequences, FiniteSets, SequencesExt

CONSTANTS
  Copies,       \* the releases of the book are 1..Copies, in the order of rank()
  Reworded,     \* those whose task find_task does not know by title and author
  MaxTried,     \* MAX_RELEASE_ATTEMPTS
  MaxAttempts,  \* MAX_ATTEMPTS of the stage
  MaxFaults,    \* bound: what goes wrong around the stage
  MaxResets     \* bound: retries of the stage by the operator

Release == 1..Copies

ASSUME AcquireAssumption ==
  /\ Copies \in Nat /\ Reworded \subseteq Release
  /\ MaxTried \in Nat \ {0} /\ MaxAttempts \in Nat \ {0}
  /\ MaxFaults \in Nat /\ MaxResets \in Nat

VARIABLES
  row,     \* stage_runs: status, attempts, queued_at (set, and long ago), releases tried
  worker,  \* the thread in _run
  task,    \* Shelfmark: what /api/status says of each release
  landed,  \* a file of the book is where downloads land
  died,    \* releases whose download has failed at least once
  faults, resets

stage == <<row, worker>>
shelfmark == <<task, landed, died>>
bounds == <<faults, resets>>
vars == <<stage, shelfmark, bounds>>

-----------------------------------------------------------------------------
Idle == [pc |-> "idle", tried |-> <<>>, best |-> 0, res |-> "none"]

Pending == [status |-> "pending", attempts |-> 0, queued |-> FALSE, old |-> FALSE,
            tried |-> <<>>]

Active == {r \in Release : task[r] = "active"}

(* A mutant: only titles are looked at.                                      *)
FoundByTitle(tried) == {r \in Release \ Reworded : task[r] # "none"}

(* find_task: the tasks of the releases it is given; if there is none, those *)
(* that look like the book.                                                  *)
Found(tried) ==
  LET byId == {r \in ToSet(tried) : task[r] # "none"}
  IN  IF byId # {} THEN byId ELSE {r \in Release \ Reworded : task[r] # "none"}

(* A mutant: errors are listed first.                                        *)
FailuresFirst(found) ==
  IF found = {} THEN "none"
  ELSE IF \E r \in found : task[r] = "failed" THEN "failed"
  ELSE CHOOSE s \in {"active", "ok"} : \E r \in found : task[r] = s

(* iter_tasks takes the states as they are listed, and the first match wins: *)
(* queued and downloading come before complete, and that before error.       *)
FirstState(found) ==
  IF found = {} THEN "none"
  ELSE CHOOSE s \in {"active", "ok", "failed"} :
         /\ \E r \in found : task[r] = s
         /\ \A r \in found : task[r] = "active" => s = "active"
         /\ \A r \in found : task[r] = "ok" => s # "failed"

Ends(res) == worker' = [worker EXCEPT !.pc = "done", !.res = res]

(* Something goes wrong.                                                     *)
Fault == faults < MaxFaults /\ faults' = faults + 1

(* What an error comes to: a failure, or one that is forgiven.               *)
Trouble == Fault /\ \E res \in {"failed", "blocked"} : Ends(res)

-----------------------------------------------------------------------------
(* The run.                                                                *)

Parked == row.status = "failed" /\ row.attempts >= MaxAttempts

(* mark_running, and the first question of _run.                             *)
Begin ==
  /\ worker = Idle /\ row.status # "ok" /\ ~Parked
  /\ row' = [row EXCEPT !.status = "running", !.attempts = @ + 1]
  /\ worker' = [Idle EXCEPT !.pc = IF row.queued THEN "look" ELSE "search"]
  /\ UNCHANGED <<shelfmark, bounds>>

(* A mutant: the wait is over when it is over, running or not.               *)
GivesUpWaiting(state) ==
  \/ ~row.old /\ state = "active" /\ Ends("blocked")
  \/ row.old /\ state # "ok" /\ worker' = [worker EXCEPT !.pc = "drop", !.res = "lost"]
  \/ state = "failed" /\ worker' = [worker EXCEPT !.pc = "drop", !.res = "dead"]
  \/ state = "ok" /\ Ends("ok")
  \/ ~row.old /\ state = "none" /\ Ends("blocked")

(* What _watch makes of the state of the task it has found, if any: it is    *)
(* done with; it is to be dropped from the row; it is waited for.  A task    *)
(* that is nowhere may have landed, and is waited for a while.               *)
Judge(state) ==
  \/ state = "ok" /\ Ends("ok")
  \/ state = "failed" /\ worker' = [worker EXCEPT !.pc = "drop", !.res = "dead"]
  \/ state = "active" /\ Ends("blocked")
  \/ /\ state = "none"
     /\ \/ landed /\ Ends("ok")
        \/ ~landed /\ row.old /\ worker' = [worker EXCEPT !.pc = "drop", !.res = "lost"]
        \/ ~landed /\ ~row.old /\ Ends("blocked")

(* _watch: the listing is read, and judged.                                  *)
Watch ==
  /\ worker.pc = "look"
  /\ \/ Judge(FirstState(Found(row.tried))) /\ UNCHANGED faults
     \/ Trouble
  /\ UNCHANGED <<row, shelfmark, resets>>

(* A mutant: a release that failed is not one that was tried.                *)
KeepsAtIt ==
  /\ worker.pc = "drop"
  /\ row' = [row EXCEPT !.queued = FALSE]
  /\ Ends("blocked")
  /\ UNCHANGED <<shelfmark, bounds>>

(* clear_queued.  A dead release is not a dead book, until enough have died. *)
Drop ==
  /\ worker.pc = "drop"
  /\ row' = [row EXCEPT !.queued = FALSE]
  /\ Ends(IF worker.res = "lost" \/ Len(row.tried) < MaxTried THEN "blocked" ELSE "failed")
  /\ UNCHANGED <<shelfmark, bounds>>

(* The releases that were not tried yet.                                     *)
Remaining(got) == got \ ToSet(row.tried)

(* _queue: the search, and the choice.  Sources come and go.                 *)
Search ==
  /\ worker.pc = "search"
  /\ \/ /\ \E got \in SUBSET Release :
             IF got = {} THEN Ends("failed")
             ELSE IF Remaining(got) = {} THEN Ends("exhausted")
             ELSE worker' = [worker EXCEPT !.pc = "ask", !.tried = row.tried,
                               !.best = CHOOSE r \in Remaining(got) :
                                          \A s \in Remaining(got) : r <= s]
        /\ UNCHANGED faults
     \/ Trouble  \* the sources do not answer, or the disk is too full to ask
  /\ UNCHANGED <<row, shelfmark, resets>>

(* The request.  A download that runs already is refused, in words that the  *)
(* stage takes for success.                                                  *)
Queued ==
  /\ task' = [task EXCEPT ![worker.best] = "active"]
  /\ worker' = [worker EXCEPT !.pc = "mark"]

(* Or it is refused, or the answer is lost.                                  *)
Ask ==
  /\ worker.pc = "ask"
  /\ \/ Queued /\ UNCHANGED faults
     \/ Trouble /\ (UNCHANGED task \/ task' = [task EXCEPT ![worker.best] = "active"])
  /\ UNCHANGED <<row, landed, died, resets>>

(* mark_queued                                                               *)
MarkQueued ==
  /\ worker.pc = "mark"
  /\ row' = [row EXCEPT !.queued = TRUE, !.old = FALSE]
  /\ worker' = [worker EXCEPT !.pc = "note"]
  /\ UNCHANGED <<shelfmark, bounds>>

(* A mutant: the list grows with every release.                              *)
KeepsAll(seq) == seq

(* The last MAX_RELEASE_ATTEMPTS of them.                                    *)
Latest(seq) == SubSeq(seq, IF Len(seq) > MaxTried THEN Len(seq) - MaxTried + 1 ELSE 1, Len(seq))

(* _remember_release, with what was tried before the request.                *)
Remember ==
  /\ worker.pc = "note"
  /\ row' = [row EXCEPT !.tried = Latest(Append(worker.tried, worker.best))]
  /\ Ends("blocked")
  /\ UNCHANGED <<shelfmark, bounds>>

(* mark_done: a wait is no attempt.                                          *)
MarkDone ==
  /\ worker.pc = "done"
  /\ row' = [row EXCEPT
       !.status = IF worker.res = "exhausted" THEN "failed" ELSE worker.res,
       !.attempts = IF worker.res = "blocked" /\ @ > 0 THEN @ - 1 ELSE @]
  /\ worker' = Idle
  /\ UNCHANGED <<shelfmark, bounds>>

-----------------------------------------------------------------------------
(* Around it.                                                              *)

TaskEnds(r) ==
  /\ r \in Active
  /\ \/ task' = [task EXCEPT ![r] = "ok"] /\ landed' = TRUE /\ UNCHANGED died
     \/ task' = [task EXCEPT ![r] = "failed"] /\ died' = died \cup {r} /\ UNCHANGED landed
  /\ UNCHANGED <<stage, bounds>>

(* A task that has ended disappears from the listing before it was seen.     *)
Vanish(r) ==
  /\ task[r] \in {"ok", "failed"} /\ Fault
  /\ task' = [task EXCEPT ![r] = "none"]
  /\ UNCHANGED <<stage, landed, died, resets>>

(* Shelfmark restarts.                                                       *)
QueueLost ==
  /\ Fault /\ task' = [r \in Release |-> "none"]
  /\ UNCHANGED <<stage, landed, died, resets>>

(* QUEUE_ABANDON_SECONDS pass.                                               *)
TimePasses ==
  /\ row.queued /\ ~row.old /\ row' = [row EXCEPT !.old = TRUE]
  /\ UNCHANGED <<worker, shelfmark, bounds>>

(* The pipeline stops, and starts again.                                     *)
Crash ==
  /\ worker # Idle /\ Fault /\ worker' = Idle
  /\ UNCHANGED <<row, shelfmark, resets>>

(* reset_stage, of this stage or, if it is acquire_audiobook, of the one     *)
(* before it: what Shelfmark is at is not asked.                             *)
Reset ==
  /\ resets < MaxResets /\ resets' = resets + 1
  /\ row' = Pending
  /\ UNCHANGED <<worker, shelfmark, faults>>

Init ==
  /\ row = Pending /\ worker = Idle
  /\ task = [r \in Release |-> "none"] /\ landed = FALSE /\ died = {}
  /\ faults = 0 /\ resets = 0

Step == Begin \/ Watch \/ Drop \/ Search \/ Ask \/ MarkQueued \/ Remember \/ MarkDone

Environment ==
  \/ \E r \in Release : TaskEnds(r) \/ Vanish(r)
  \/ QueueLost \/ TimePasses \/ Crash \/ Reset

Next == Step \/ Environment

Spec == Init /\ [][Next]_vars

(* The book gets its turns, downloads end one way or the other, and a wait   *)
(* that lasts becomes a long one.                                            *)
Fairness ==
  /\ WF_vars(Step)
  /\ \A r \in 1..Copies : WF_vars(TaskEnds(r))
  /\ WF_vars(TimePasses)

FairSpec == Spec /\ Fairness

-----------------------------------------------------------------------------
(* The variables have these types.  A stage that is stopped in the middle    *)
(* has spent an attempt.                                                     *)
TypeOK ==
  /\ row \in [status : {"pending", "running", "ok", "failed", "blocked"},
              attempts : 0..MaxAttempts + MaxFaults, queued : BOOLEAN, old : BOOLEAN,
              tried : Seq(Release)]
  /\ Len(row.tried) <= MaxTried
  /\ worker \in [pc : {"idle", "look", "drop", "search", "ask", "mark", "note", "done"},
                 tried : Seq(Release), best : 0..Copies,
                 res : {"none", "ok", "failed", "blocked", "exhausted", "lost", "dead"}]
  /\ Len(worker.tried) <= MaxTried
  /\ worker.pc \in {"ask", "mark", "note"} => worker.best \in Release
  /\ task \in [Release -> {"none", "active", "ok", "failed"}]
  /\ landed \in BOOLEAN /\ died \subseteq Release
  /\ faults \in 0..MaxFaults /\ resets \in 0..MaxResets

(* One download of the book runs at a time, but for one more each time that  *)
(* the process stops between its request and its row, that an answer is      *)
(* lost, or that the operator resets the row of a running download.          *)
OneDownload == Cardinality(Active) <= 1 + faults + resets

(* The row lets go of a download only when none runs that it knows of: a     *)
(* task is found by its release however it is worded, and waited for however *)
(* long it takes, unless the operator resets the stage.                      *)
HoldsOn ==
  [][row.queued /\ ~row'.queued /\ resets' = resets => ToSet(row.tried) \cap Active = {}]_vars

(* If nothing goes wrong and nobody intervenes, a book is given up only when *)
(* no download of it runs or has landed, and releases count as used up only  *)
(* if their downloads failed.                                                *)
GivesUpForCause ==
  faults = 0 /\ resets = 0 =>
    /\ row.status = "failed" => ~landed /\ Active = {}
    /\ worker.res = "exhausted" => ToSet(row.tried) \subseteq died

(* What the row is to _advance, and this stage to the others: see StageRows.  *)
Fate == IF row.status = "ok" THEN "finished" ELSE IF Parked THEN "parked" ELSE "open"

Contract ==
  INSTANCE StageRows WITH
    Stage <- {"acquire"}, None <- "none",
    state <- [s \in {"acquire"} |-> Fate],
    run <- IF worker.pc # "idle" THEN "acquire" ELSE "none"

(* The stage is to the other stages what every stage is: begun only when its  *)
(* row is neither finished nor parked, which only the end of its run can     *)
(* make it, and a reset unmake (mark_running, mark_done and reset_stage).    *)
KeepsContract == Contract!Spec

(* Whatever is lost or stops, the stage comes to an end: the book is there,  *)
(* or its attempts are spent.                                                *)
Settles == <>[](row.status = "ok" \/ Parked)

(* README, "Finds and downloads": a task missing from Shelfmark's queue is   *)
(* queued again.  So no release is used up without a download that failed.   *)
LostIsRequeued == worker.res = "exhausted" => ToSet(row.tried) \subseteq died
=============================================================================
