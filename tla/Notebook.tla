------------------------------- MODULE Notebook -------------------------------
(***************************************************************************)
(* One book and its source in Open Notebook: the notebook stage            *)
(* (app/stages/notebook.py), which adds the file once and attaches it once *)
(* through an interface that is not idempotent (app/clients/               *)
(* opennotebook.py), and `cli repair --apply` (app/cli.py), which clears   *)
(* what is there more than once, in a process of its own.                  *)
(*                                                                         *)
(* The sources are listed newest first and a page at a time, while other   *)
(* books' sources come and go.  An answer may be lost, and a request that  *)
(* was given up may take effect later.                                     *)
(***************************************************************************)
EXTENDS Integers, FiniteSets, FiniteSetsExt

CONSTANTS
  PageSize,     \* SOURCE_PAGE_SIZE
  MaxPages,     \* MAX_SOURCE_PAGES
  MaxAttempts,  \* MAX_ATTEMPTS of notebook
  LastId,       \* bound: sources that are ever created
  Litter,       \* sources of the file that earlier versions may have left,
                \* never attached, or attached again and again
  MaxFaults,    \* bound: requests that fail or get no answer, processes that stop
  MaxDrops,     \* bound: sources that disappear
  MaxResets,    \* bound: resets of the stage
  MaxRepairs    \* bound: runs of the repair

ASSUME NotebookAssumption ==
  /\ PageSize \in Nat \ {0} /\ MaxPages \in Nat /\ MaxAttempts \in Nat \ {0}
  /\ LastId \in Nat /\ Litter \in 0..LastId
  /\ LastId <= PageSize * MaxPages  \* a walk sees the whole list
  /\ MaxFaults \in Nat /\ MaxDrops \in Nat
  /\ MaxResets \in Nat /\ MaxRepairs \in Nat

(* Sources by the order of their creation.                                   *)
Id == 1..LastId
NoId == 0

VARIABLES
  live,    \* Open Notebook: the sources
  ours,    \* those of them, and of the ones that are gone, that are the file's
  links,   \* how many times each is attached to the book's notebook
  next,    \* the next identifier
  limbo,   \* a creation that was given up and may still happen
  row,     \* stage_runs: status, attempts and artifact of notebook
  worker,  \* the thread that runs the stage
  repair,  \* the repair
  faults, drops, lates, resets, repairs

service == <<live, ours, links, next, limbo>>
bounds == <<faults, drops, lates, resets, repairs>>
vars == <<service, row, worker, repair, bounds>>

-----------------------------------------------------------------------------
NoRow == [status |-> "pending", attempts |-> 0, artifact |-> NoId]

Idle == [pc |-> "idle", page |-> 0, found |-> {}, source |-> NoId, res |-> "none"]

Away == [pc |-> "idle", page |-> 0, found |-> {}, source |-> NoId]

Copies == ours \cap live

Ends(res) == worker' = [worker EXCEPT !.pc = "done", !.res = res]

At(pc) == worker.pc = pc

GoTo(pc) == worker' = [worker EXCEPT !.pc = pc]

Fault == faults < MaxFaults /\ faults' = faults + 1

(* An error of the service: one that counts, or one that is forgiven.        *)
Raises == Fault /\ \E res \in {"failed", "blocked"} : Ends(res)

(* A page of the list, as it is now.                                         *)
PageAt(n) ==
  {i \in live : LET newer == Cardinality({j \in live : j > i})
                IN  n * PageSize <= newer /\ newer < (n + 1) * PageSize}

(* A mutant: only the first page is read.                                    *)
FirstPageOnly(walk) == TRUE

(* iter_sources stops at a page that is not full, or gives up.               *)
LastPage(walk) ==
  Cardinality(PageAt(walk.page)) < PageSize \/ walk.page + 1 >= MaxPages

(* A source is created.                                                      *)
Created ==
  /\ live' = live \cup {next} /\ ours' = ours \cup {next} /\ next' = next + 1

-----------------------------------------------------------------------------
(* The stage.                                                              *)

Parked == row.status = "failed" /\ row.attempts >= MaxAttempts

Start ==
  /\ worker = Idle /\ row.status # "ok" /\ ~Parked
  /\ row' = [row EXCEPT !.status = "running", !.attempts = @ + 1]
  /\ worker' = [Idle EXCEPT !.pc = "ask"]
  /\ UNCHANGED <<service, repair, bounds>>

(* source_exists of the recorded source; if there is none, the list is read. *)
AskRecorded ==
  /\ At("ask")
  /\ \/ /\ worker' = IF row.artifact \in live
                     THEN [worker EXCEPT !.pc = "count", !.source = row.artifact]
                     ELSE [worker EXCEPT !.pc = "walk"]
        /\ UNCHANGED faults
     \/ Raises
  /\ UNCHANGED <<service, row, repair, drops, lates, resets, repairs>>

(* sources_for_path: the oldest is taken.                                    *)
Walk ==
  /\ At("walk")
  /\ \/ /\ LET found == worker.found \cup (PageAt(worker.page) \cap ours)
           IN  worker' =
                 IF ~LastPage(worker)
                 THEN [worker EXCEPT !.page = @ + 1, !.found = found]
                 ELSE IF found # {}
                 THEN [worker EXCEPT !.pc = "count", !.source = Min(found), !.found = {}]
                 ELSE [worker EXCEPT !.pc = "create"]
        /\ UNCHANGED faults
     \/ Raises
  /\ UNCHANGED <<service, row, repair, drops, lates, resets, repairs>>

(* create_source_from_path.  Without an answer, nobody knows the source; it  *)
(* may even be created later.                                                *)
Create ==
  /\ At("create") /\ next <= LastId
  /\ \/ Created /\ worker' = [worker EXCEPT !.pc = "count", !.source = next]
        /\ UNCHANGED <<limbo, faults>>
     \/ Raises /\ Created /\ UNCHANGED limbo
     \/ Raises /\ limbo' \in {limbo, TRUE} /\ UNCHANGED <<live, ours, next>>
  /\ UNCHANGED <<links, row, repair, drops, lates, resets, repairs>>

(* ensure_attached: one link is what it should be, several are collapsed.    *)
CountLinks ==
  /\ At("count")
  /\ \/ /\ IF worker.source \notin live THEN Ends("failed")
           ELSE GoTo(CASE links[worker.source] = 0 -> "attach"
                       [] links[worker.source] = 1 -> "read"
                       [] OTHER -> "detach")
        /\ UNCHANGED faults
     \/ Raises
  /\ UNCHANGED <<service, row, repair, drops, lates, resets, repairs>>

(* The two requests, on a source that may be gone.                           *)
Detached(s) == links' = [links EXCEPT ![s] = 0]
Attached(s) == links' = IF s \in live THEN [links EXCEPT ![s] = @ + 1] ELSE links

Detach ==
  /\ At("detach")
  /\ \/ Detached(worker.source) /\ GoTo("attach") /\ UNCHANGED faults
     \/ Raises /\ (Detached(worker.source) \/ UNCHANGED links)
  /\ UNCHANGED <<live, ours, next, limbo, row, repair, drops, lates, resets, repairs>>

Attach ==
  /\ At("attach")
  /\ \/ /\ Attached(worker.source) /\ UNCHANGED faults
        /\ IF worker.source \in live THEN GoTo("check") ELSE Ends("failed")
     \/ Raises /\ (Attached(worker.source) \/ UNCHANGED links)
  /\ UNCHANGED <<live, ours, next, limbo, row, repair, drops, lates, resets, repairs>>

(* The link is read back, and what it was then is remembered.                *)
Check ==
  /\ At("check")
  /\ \/ /\ IF worker.source \notin live THEN Ends("failed")
           ELSE GoTo(IF links[worker.source] > 0 THEN "read" ELSE "missed")
        /\ UNCHANGED faults
     \/ Raises
  /\ UNCHANGED <<service, row, repair, drops, lates, resets, repairs>>

(* The source itself: one that is gone by then is no failure, one that is    *)
(* not attached, or was not, is.                                             *)
ReadBack ==
  /\ At("read") \/ At("missed")
  /\ \/ /\ Ends(IF worker.source \notin live THEN "blocked"
                ELSE IF At("missed") \/ links[worker.source] = 0 THEN "failed" ELSE "ok")
        /\ UNCHANGED faults
     \/ Ends("failed") /\ UNCHANGED faults  \* the source could not be processed
     \/ Raises
  /\ UNCHANGED <<service, row, repair, drops, lates, resets, repairs>>

(* A mutant: the source is not recorded.                                     *)
ForgetsSource ==
  /\ At("done")
  /\ row' = [row EXCEPT !.status = worker.res]
  /\ worker' = Idle
  /\ UNCHANGED <<service, repair, bounds>>

(* A mutant: a failure costs nothing.                                        *)
CostsNothing ==
  /\ At("done")
  /\ row' = [row EXCEPT !.status = worker.res, !.attempts = 0,
                        !.artifact = IF worker.res = "ok" THEN worker.source ELSE @]
  /\ worker' = Idle
  /\ UNCHANGED <<service, repair, bounds>>

(* mark_done: only a run that ends well has an artifact to record, and a     *)
(* wait is no attempt.                                                       *)
MarkDone ==
  /\ At("done")
  /\ row' = [status |-> worker.res,
             attempts |-> IF worker.res = "blocked" /\ row.attempts > 0
                          THEN row.attempts - 1 ELSE row.attempts,
             artifact |-> IF worker.res = "ok" THEN worker.source ELSE row.artifact]
  /\ worker' = Idle
  /\ UNCHANGED <<service, repair, bounds>>

-----------------------------------------------------------------------------
(* cli repair --apply                                                        *)

Repairing(pc) == repair.pc = pc

Turn(pc) == repair' = [repair EXCEPT !.pc = pc]

BeginRepair ==
  /\ repair = Away /\ repairs < MaxRepairs /\ repairs' = repairs + 1
  /\ repair' = [Away EXCEPT !.pc = "walk"]
  /\ UNCHANGED <<service, row, worker, faults, drops, lates, resets>>

(* One walk of the list for all books.                                       *)
RepairWalk ==
  /\ Repairing("walk")
  /\ repair' = [repair EXCEPT !.found = @ \cup (PageAt(repair.page) \cap ours),
                              !.page = IF LastPage(repair) THEN @ ELSE @ + 1,
                              !.pc = IF LastPage(repair) THEN "keep" ELSE @]
  /\ UNCHANGED <<service, row, worker, bounds>>

(* A mutant: the newest is kept.                                             *)
KeepsNewest ==
  /\ Repairing("keep") /\ repair.found # {}
  /\ repair' = [repair EXCEPT !.pc = "clear", !.source = Max(repair.found),
                              !.found = repair.found \ {Max(repair.found)}]
  /\ UNCHANGED <<service, row, worker, bounds>>

(* The source that the stage recorded is kept, or the oldest.                *)
Keep ==
  /\ Repairing("keep")
  /\ repair' =
       IF repair.found = {} THEN [repair EXCEPT !.pc = "retry"]
       ELSE LET kept == IF row.artifact \in repair.found THEN row.artifact
                        ELSE Min(repair.found)
            IN  [repair EXCEPT !.pc = "clear", !.source = kept, !.found = @ \ {kept}]
  /\ UNCHANGED <<service, row, worker, bounds>>

(* The others are deleted, one by one; a deletion that fails is printed.     *)
Clear ==
  /\ Repairing("clear")
  /\ IF repair.found = {} THEN Turn("count") /\ UNCHANGED <<live, links, faults>>
     ELSE LET s == Min(repair.found)
          IN  /\ repair' = [repair EXCEPT !.found = @ \ {s}]
              /\ \/ live' = live \ {s} /\ links' = [links EXCEPT ![s] = 0] /\ UNCHANGED faults
                 \/ Fault /\ UNCHANGED <<live, links>>
  /\ UNCHANGED <<ours, next, limbo, row, worker, drops, lates, resets, repairs>>

(* A request about the link that fails is printed, too, and ends what is     *)
(* done for the book.                                                        *)
PassesOn == Fault /\ Turn("retry")

RepairCount ==
  /\ Repairing("count")
  /\ \/ /\ Turn(IF repair.source \notin live \/ links[repair.source] = 1 THEN "retry"
                 ELSE IF links[repair.source] = 0 THEN "attach" ELSE "detach")
        /\ UNCHANGED faults
     \/ PassesOn
  /\ UNCHANGED <<service, row, worker, drops, lates, resets, repairs>>

RepairDetach ==
  /\ Repairing("detach")
  /\ \/ Detached(repair.source) /\ Turn("attach") /\ UNCHANGED faults
     \/ PassesOn /\ (Detached(repair.source) \/ UNCHANGED links)
  /\ UNCHANGED <<live, ours, next, limbo, row, worker, drops, lates, resets, repairs>>

RepairAttach ==
  /\ Repairing("attach")
  /\ \/ Attached(repair.source) /\ Turn("retry") /\ UNCHANGED faults
     \/ PassesOn /\ (Attached(repair.source) \/ UNCHANGED links)
  /\ UNCHANGED <<live, ours, next, limbo, row, worker, drops, lates, resets, repairs>>

(* A stage that has failed is reset.                                         *)
Retry ==
  /\ Repairing("retry")
  /\ row' = IF row.status = "failed" THEN NoRow ELSE row
  /\ repair' = Away
  /\ UNCHANGED <<service, worker, bounds>>

(* The repair is interrupted, or the list of sources fails.                  *)
RepairStops ==
  /\ repair # Away /\ Fault /\ repair' = Away
  /\ UNCHANGED <<service, row, worker, drops, lates, resets, repairs>>

-----------------------------------------------------------------------------
(* Around it.                                                              *)

(* Another book is added.                                                    *)
OtherAdded ==
  /\ next <= LastId
  /\ live' = live \cup {next} /\ next' = next + 1
  /\ UNCHANGED <<ours, links, limbo, row, worker, repair, bounds>>

(* A source goes: of another book, or of this one.                           *)
Dropped(s) ==
  /\ s \in live /\ drops < MaxDrops /\ drops' = drops + 1
  /\ live' = live \ {s} /\ links' = [links EXCEPT ![s] = 0]
  /\ UNCHANGED <<ours, next, limbo, row, worker, repair, faults, lates, resets, repairs>>

(* What was given up happens after all.                                      *)
CreatedLate ==
  /\ limbo /\ next <= LastId
  /\ Created /\ limbo' = FALSE /\ lates' = lates + 1
  /\ UNCHANGED <<links, row, worker, repair, faults, drops, resets, repairs>>

Crash ==
  /\ worker # Idle /\ Fault /\ worker' = Idle
  /\ UNCHANGED <<service, row, repair, drops, lates, resets, repairs>>

(* The stage is reset, by the operator or because place was: what it had     *)
(* recorded is forgotten.                                                    *)
Reset ==
  /\ resets < MaxResets /\ resets' = resets + 1
  /\ row' = NoRow
  /\ UNCHANGED <<service, worker, repair, faults, drops, lates, repairs>>

Init ==
  /\ \E n \in 0..Litter :
       /\ live = 1..n /\ ours = 1..n /\ next = n + 1
       /\ \E k \in {0, 2} : links = [i \in Id |-> IF i <= n THEN k ELSE 0]
  /\ limbo = FALSE
  /\ row = NoRow /\ worker = Idle /\ repair = Away
  /\ faults = 0 /\ drops = 0 /\ lates = 0 /\ resets = 0 /\ repairs = 0

Run == \/ Start \/ AskRecorded \/ Walk \/ Create \/ CountLinks \/ Detach
       \/ Attach \/ Check \/ ReadBack \/ MarkDone

Repair == \/ RepairWalk \/ Keep \/ Clear \/ RepairCount
          \/ RepairDetach \/ RepairAttach \/ Retry

Environment ==
  \/ BeginRepair \/ RepairStops
  \/ OtherAdded \/ (\E s \in Id : Dropped(s)) \/ CreatedLate \/ Crash \/ Reset

Next == Run \/ Repair \/ Environment

Spec == Init /\ [][Next]_vars

FairSpec == Spec /\ WF_vars(Run) /\ WF_vars(Repair)

-----------------------------------------------------------------------------
(* The variables have these types.                                           *)
TypeOK ==
  /\ live \subseteq Id /\ ours \subseteq Id /\ links \in [Id -> Nat]
  /\ next \in 1..LastId + 1 /\ \A i \in live \cup ours : i < next
  /\ limbo \in BOOLEAN
  /\ row \in [status : {"pending", "running", "ok", "failed", "blocked"},
              attempts : 0..MaxAttempts + MaxFaults, artifact : Id \cup {NoId}]
  /\ row.status = "ok" => row.artifact \in ours
  /\ worker \in [pc : {"idle", "ask", "walk", "create", "count", "detach", "attach",
                       "check", "read", "missed", "done"},
                 page : 0..MaxPages, found : SUBSET Id, source : Id \cup {NoId},
                 res : {"none", "ok", "failed", "blocked"}]
  /\ repair \in [pc : {"idle", "walk", "keep", "clear", "count", "detach", "attach", "retry"},
                 page : 0..MaxPages, found : SUBSET Id, source : Id \cup {NoId}]
  /\ faults \in 0..MaxFaults /\ drops \in 0..MaxDrops
  /\ lates \in 0..MaxFaults /\ resets \in 0..MaxResets /\ repairs \in 0..MaxRepairs

(* The book is added once: however often the stage is run, stopped, reset or *)
(* left without an answer, it finds what it has added, and creates a source  *)
(* only if there is none.  It misses one only if a source disappeared -- the *)
(* pages behind it move up -- or was created after the list had been read.   *)
AddedOnce ==
  [][Copies' \subseteq Copies \/ Copies = {} \/ drops > 0 \/ lates' > 0]_vars

(* No source has disappeared or turned up by itself, and no repair follows   *)
(* another of which something failed.  (A stage that read the list while     *)
(* a repair cleared it may use a copy that the repair failed to delete, and  *)
(* that a second repair deletes.)                                            *)
Undisturbed == drops = 0 /\ lates = 0 /\ (faults = 0 \/ repairs <= 1)

(* A book that is recorded as added is there, and attached to its notebook,  *)
(* whatever fails and whatever the repair does meanwhile, if Undisturbed; a  *)
(* repair that is cut short may leave it unattached.                         *)
RecordIsTrue ==
  Undisturbed /\ row.status = "ok" =>
    /\ row.artifact \in live
    /\ faults = 0 => links[row.artifact] > 0 \/ repair.pc = "attach"

(* A source that a stage is using, or has recorded, is not the one that the  *)
(* repair deletes.                                                           *)
SparesTheUsed ==
  [][drops' = drops /\ Undisturbed =>
       /\ row.artifact \in live => row.artifact \in live'
       /\ worker.source \in live => worker.source \in live']_vars

(* What the row is to _advance, and this stage to the others: see StageRows.  *)
Fate == IF row.status = "ok" THEN "finished" ELSE IF Parked THEN "parked" ELSE "open"

Contract ==
  INSTANCE StageRows WITH
    Stage <- {"notebook"}, None <- "none",
    state <- [s \in {"notebook"} |-> Fate],
    run <- IF worker.pc # "idle" THEN "notebook" ELSE "none"

(* The stage is to the other stages what every stage is: begun only when its  *)
(* row is neither finished nor parked, which only the end of its run can     *)
(* make it, and a reset unmake (mark_running, mark_done and reset_stage).    *)
KeepsContract == Contract!Spec

(* The stage comes to an end, whatever is lost.                              *)
Settles == <>[](row.status = "ok" \/ Parked \/ next > LastId)

=============================================================================
