------------------------------- MODULE Pipeline -------------------------------
(***************************************************************************)
(* One book on its way through the stages of app/models.py: what a worker  *)
(* does in Scheduler._advance (app/pipeline.py), what the runners of       *)
(* app/stages read and write, and what can happen to the book's rows       *)
(* meanwhile: the sweep lists them again, the operator resets them, the    *)
(* process stops.                                                          *)
(*                                                                         *)
(* The worker reads the stages from the list its sweep took, and refreshes *)
(* one entry of it at a time; the runners read the database.  The two      *)
(* differ, and most of what is said here is about that difference.         *)
(***************************************************************************)
EXTENDS Integers

CONSTANTS
  Category,      \* the categories of categories.yml, each with a folder
  MaxAttempts,   \* MAX_ATTEMPTS, per stage
  MaxRescans,    \* MAX_RESCANS
  Weather,       \* the conditions that may prevail, out of Conditions
  LeavesWorkers, \* whether a sweep may give up on a worker, and another list the book
  Calm,          \* whether the operator leaves alone a book that a sweep is at
  MaxCrash,      \* bound: process restarts in a behaviour
  MaxRetries,    \* bound: stages the operator retries in a behaviour
  MaxMoves       \* bound: categories the operator sets in a behaviour

(* The place of a stage in models.STAGES.                                    *)
Rank == [classify |-> 1, acquire_ebook |-> 2, acquire_audiobook |-> 3, place |-> 4,
         index |-> 5, notebook |-> 6, verify |-> 7, shelve |-> 8]

Stage == DOMAIN Rank

(* What the outside world is like:                                           *)
(*   good  every service does what it is asked, files are where place looks  *)
(*   lost  as good, but a library app never shows the book                   *)
(*   bad   anything may fail, wait or be missing                             *)
Conditions == {"good", "lost", "bad"}

(* books.category before classify has run: the empty string.                 *)
Unclassified == "unclassified"

ASSUME CategoryAssumption == Category # {} /\ Unclassified \notin Category

ASSUME BudgetAssumption ==
  /\ MaxAttempts \in [Stage -> Nat \ {0}]
  /\ MaxRescans \in Nat
  /\ MaxCrash \in Nat /\ MaxRetries \in Nat /\ MaxMoves \in Nat

ASSUME WeatherAssumption ==
  Weather \subseteq Conditions /\ Weather # {}
  /\ LeavesWorkers \in BOOLEAN /\ Calm \in BOOLEAN

VARIABLES
  row,       \* stage_runs of the book: status and attempts of each stage
  placed,    \* place's output_path: the formats it has filed
  rescans,   \* verify's output_path: the rescans it has asked for
  fresh,     \* index finished less than SCAN_GRACE_SECONDS ago
  category,  \* books.category
  review,    \* books.needs_review: the category was a guess
  file,      \* where copies of each format lie on disk
  shelf,     \* the formats the book's shelf on Goodreads claims; {} is to-read
  proof,     \* the formats the last finished check of verify found everywhere
  listing,   \* what the running sweep has listed of the book, until it starts it
  worker,    \* the thread in _advance for the book
  weather,   \* environment
  crashes, retries, moves

stages == <<row, placed, rescans, fresh>>        \* the table stage_runs
book == <<category, review>>                     \* the table books
world == <<file, shelf, proof>>                  \* what the runners bring about
around == <<weather, crashes, retries, moves>>   \* the environment and the bounds

vars == <<stages, book, world, listing, worker, around>>

-----------------------------------------------------------------------------
(* Rows and the questions _advance asks of them.                           *)

Statuses == {"pending", "running", "ok", "failed", "skipped", "blocked"}

Fresh == [status |-> "pending", attempts |-> 0]

Satisfied(r) == r.status \in {"ok", "skipped"}

Terminal(r) == r.status \in {"ok", "failed", "skipped"}

Prerequisites ==
  [classify |-> {}, acquire_ebook |-> {}, acquire_audiobook |-> {},
   place |-> {"classify"}, index |-> {"place"}, notebook |-> {"place"},
   verify |-> {"place", "index", "notebook"}, shelve |-> {"place", "verify"}]

PrereqsMet(view, s) == \A p \in Prerequisites[s] : Satisfied(view[p])

Parked(view, s) ==
  view[s].status = "failed" /\ view[s].attempts >= MaxAttempts[s]

Format == {"ebook", "audiobook"}

AcquireStage == [ebook |-> "acquire_ebook", audiobook |-> "acquire_audiobook"]

Acquired(f) == row[AcquireStage[f]].status = "ok"

(* Mutants: a download waits whether it is filed or not; or never.            *)
AlwaysWaiting == \E f \in Format : Acquired(f)

(* _format_waiting                                                           *)
FormatWaiting == \E f \in Format : Acquired(f) /\ f \notin placed

(* service_for_stage: the stages with one service, which the breaker gates.  *)
Gated == {"acquire_ebook", "acquire_audiobook", "notebook", "shelve"}

(* A mutant: a stage is cleared without those after it.                      *)
ResetsOne(rows, s) ==
  /\ row' = [rows EXCEPT ![s] = Fresh]
  /\ placed' = IF s = "place" THEN {} ELSE placed
  /\ rescans' = IF s = "verify" THEN 0 ELSE rescans
  /\ fresh' = (s # "index" /\ fresh)

(* reset_stage: the stage and everything after it, and what they keep in     *)
(* output_path and finished_at.                                              *)
ResetStage(rows, s) ==
  /\ row' = [t \in Stage |-> IF Rank[t] >= Rank[s] THEN Fresh ELSE rows[t]]
  /\ placed' = IF Rank[s] <= Rank.place THEN {} ELSE placed
  /\ rescans' = IF Rank[s] <= Rank.verify THEN 0 ELSE rescans
  /\ fresh' = (Rank[s] > Rank.index /\ fresh)

-----------------------------------------------------------------------------
(* The worker.                                                             *)

(* Ranks of stages, and one past the last.                                   *)
End == 9

Phases == {"idle", "scan", "run", "done", "wake"}

Results == {"ok", "failed", "skipped", "blocked", "forgiven"}

Idle == [pc |-> "idle", view |-> [s \in Stage |-> Fresh], cat |-> Unclassified,
         at |-> End, res |-> "ok"]


(* Where the loop over the stages stops next: at place, which may be woken   *)
(* although satisfied, at a stage that is parked, at one that can run.       *)
Stops(view, s) ==
  IF Satisfied(view[s]) THEN s = "place"
  ELSE Parked(view, s) \/ PrereqsMet(view, s)

NextStop(view, from) ==
  LET ahead == {Rank[s] : s \in {t \in Stage : Rank[t] >= from /\ Stops(view, t)}}
  IN  CHOOSE i \in ahead \cup {End} : \A j \in ahead : i <= j

(* The loop goes on behind stage s with what the view now says.              *)
GoOn(view, s) ==
  worker' = [worker EXCEPT !.pc = "scan", !.view = view, !.res = "ok",
                           !.at = NextStop(view, Rank[s] + 1)]

(* The entry of a stage is read from the database again.                     *)
Refreshed(s) == [worker.view EXCEPT ![s] = row'[s]]

Reached(s) == worker.pc = "scan" /\ worker.at = Rank[s]

In(phase, s) == worker.pc = phase /\ worker.at = Rank[s]

Ends(res) == worker' = [worker EXCEPT !.pc = "done", !.res = res]

(* The list a sweep takes: db().list_books().                                *)
List ==
  /\ LeavesWorkers \/ worker = Idle
  /\ listing' = {[rows |-> row, cat |-> category]}
  /\ UNCHANGED <<stages, book, world, worker, around>>

(* The sweep comes to the book: _claim, which refuses it while a worker that *)
(* an earlier sweep left behind still has it, and the start of _advance.     *)
Start ==
  \E l \in listing :
    /\ listing' = {}
    /\ worker' = IF worker = Idle
                 THEN [pc |-> "scan", view |-> l.rows, cat |-> l.cat,
                       at |-> NextStop(l.rows, 1), res |-> "ok"]
                 ELSE worker
    /\ UNCHANGED <<stages, book, world, around>>

(* _advance returns, at a parked stage or behind the last, and _release.     *)
Leave ==
  /\ worker.pc = "scan"
  /\ worker.at = End \/ \E s \in Stage : Reached(s) /\ Parked(worker.view, s)
  /\ worker' = Idle
  /\ UNCHANGED <<stages, book, world, listing, around>>

(* The loop top at a satisfied place: a completed download that is not filed *)
(* wakes it.  The stages after it are reset in the database, not in the view.*)
PlaceAgain ==
  /\ Reached("place") /\ Satisfied(worker.view.place)
  /\ IF FormatWaiting
     THEN /\ ResetStage(row, "place")
          /\ worker' = [worker EXCEPT !.view = Refreshed("place"),
                                     !.at = NextStop(Refreshed("place"), Rank.place)]
     ELSE GoOn(worker.view, "place") /\ UNCHANGED stages
  /\ UNCHANGED <<book, world, listing, around>>

(* A mutant: a stage that has failed is tried without end.                   *)
RunsAgain(s) == Reached(s) /\ ~Satisfied(worker.view[s])

CanRun(s) ==
  Reached(s) /\ ~Satisfied(worker.view[s]) /\ ~Parked(worker.view, s)

(* mark_held: the breaker holds the stage's service and refused the probe.   *)
Refuse(s) ==
  /\ CanRun(s) /\ s \in Gated /\ weather = "bad"
  /\ row' = [row EXCEPT ![s] = [status |-> "blocked", attempts |-> 0]]
  /\ GoOn(Refreshed(s), s)
  /\ UNCHANGED <<placed, rescans, fresh, book, world, listing, around>>

(* mark_running.  Attempts are only compared with 1 and with MaxAttempts, so  *)
(* here and in mark_done they are not counted further.                       *)
MarkRunning(s) ==
  /\ CanRun(s)
  /\ row' = [row EXCEPT ![s] =
       [status |-> "running",
        attempts |-> IF @.attempts > MaxAttempts[s] THEN @.attempts ELSE @.attempts + 1]]
  /\ fresh' = (s # "index" /\ fresh)
  /\ worker' = [worker EXCEPT !.pc = "run"]
  /\ UNCHANGED <<placed, rescans, book, world, listing, around>>

-----------------------------------------------------------------------------
(* The runners.                                                            *)

(* A run goes wrong, with an error that counts or one that is forgiven.      *)
Fails == \E res \in {"failed", "forgiven"} : Ends(res)

(* What a run that depends on a service comes to: what it hopes for, or any  *)
(* of the alternatives when conditions are bad.                              *)
Outcome(hoped, otherwise) ==
  \/ Ends(hoped)
  \/ weather = "bad" /\ \E res \in otherwise : Ends(res)

(* classify.run: the category that the rules give the genres of the book, if *)
(* it has any, whatever the operator chose.                                  *)
Classify ==
  /\ In("run", "classify")
  /\ \/ category' \in Category /\ review' \in BOOLEAN /\ Ends("ok")
     \/ weather = "bad" /\ Fails /\ UNCHANGED book
  /\ UNCHANGED <<stages, world, listing, around>>

(* acquire.run_ebook and run_audiobook: a download ends, or an earlier copy  *)
(* is found.                                                                 *)
Acquire(f) ==
  /\ In("run", AcquireStage[f])
  /\ \/ /\ Ends("ok")
        /\ \/ file' = [file EXCEPT ![f] = @ \cup {"staging"}]
           \/ file[f] # {} /\ UNCHANGED file
     \/ weather = "bad" /\ (Fails \/ Ends("blocked")) /\ UNCHANGED file
  /\ UNCHANGED <<stages, book, shelf, proof, listing, around>>

(* Where the worker files a format: in the folder of the category it was     *)
(* given, or in Author/Title if it is an audiobook.                          *)
Home(f) == IF f = "ebook" THEN worker.cat ELSE "tree"

(* The formats that are filed there already, and those that could be.        *)
Filed == {f \in Format : Acquired(f) /\ Home(f) \in file[f]}

Fileable == Filed \cup {f \in Format : Acquired(f) /\ "staging" \in file[f]}

(* classify.reclassify_with_file: a guess is made again, with the file.      *)
Reclassify ==
  \/ UNCHANGED book
  \/ review /\ category' \in Category /\ review' \in BOOLEAN

(* Files are moved home, and an ebook on to where the category now sends it. *)
MoveIn(found, settled) ==
  file' = [f \in Format |->
    IF f \notin found THEN file[f]
    ELSE (file[f] \ {IF f \in Filed THEN Home(f) ELSE "staging"})
         \cup {IF f = "ebook" /\ settled THEN category' ELSE Home(f)}]

(* The part of place.run that files what was downloaded.  In bad conditions  *)
(* a file in staging may not be recognised, and a move may raise.            *)
FileAway ==
  /\ worker.cat # Unclassified
  /\ \E found \in SUBSET Fileable :
       /\ weather = "bad" \/ found = Fileable
       /\ IF "ebook" \in found THEN Reclassify ELSE UNCHANGED book
       /\ \/ /\ Filed \subseteq found /\ MoveIn(found, TRUE)
             /\ placed' = IF found = {} THEN placed ELSE found
             /\ Ends(IF found = {} THEN "blocked" ELSE "ok")
          \/ weather = "bad" /\ MoveIn(found, FALSE) /\ Fails /\ UNCHANGED placed

(* place.run.  The category is the one the sweep listed: a book classified   *)
(* since has none.                                                           *)
Place ==
  /\ In("run", "place")
  /\ IF \E f \in Format : Acquired(f)
     THEN \/ FileAway
          \/ worker.cat = Unclassified /\ Ends("failed") /\ UNCHANGED <<placed, file, book>>
     ELSE /\ Ends(IF \A f \in Format : Terminal(row[AcquireStage[f]]) THEN "skipped"
                  ELSE "blocked")
          /\ UNCHANGED <<placed, file, book>>
  /\ UNCHANGED <<row, rescans, fresh, shelf, proof, listing, around>>

(* index.run: the libraries that hold what is placed are told to rescan.     *)
Index ==
  /\ In("run", "index")
  /\ IF placed = {} THEN Ends("skipped") ELSE Outcome("ok", {"failed", "forgiven"})
  /\ UNCHANGED <<stages, book, world, listing, around>>

(* notebook.run: only an ebook has text to add, and not in every category.   *)
Notebook ==
  /\ In("run", "notebook")
  /\ IF "ebook" \notin placed THEN Ends("skipped")
     ELSE Ends("skipped") \/ Outcome("ok", {"blocked", "failed", "forgiven"})
  /\ UNCHANGED <<stages, book, world, listing, around>>

(* A mutant: the rescans that verify forces are not counted.                 *)
ForgetsRescans ==
  /\ row' = [row EXCEPT !.index = Fresh]
  /\ UNCHANGED rescans
  /\ Ends("blocked")

(* The part of verify.run that forces a rescan.                              *)
ForceRescan ==
  /\ row' = [row EXCEPT !.index = Fresh]
  /\ rescans' = rescans + 1
  /\ Ends("blocked")

(* A mutant: one rescan too many.                                            *)
ScansOnceMore ==
  LET patient == row.verify.attempts <= 1 /\ fresh IN
  \/ patient /\ Ends("blocked") /\ UNCHANGED <<row, rescans>>
  \/ ~patient /\ rescans <= MaxRescans /\ ForceRescan
  \/ ~patient /\ rescans > MaxRescans /\ Ends("failed") /\ UNCHANGED <<row, rescans>>

(* The part of verify.run for a book that is missing somewhere: not shown    *)
(* yet, or scan again, or missing for good.                                  *)
Missing ==
  LET patient == row.verify.attempts <= 1 /\ fresh IN
  \/ patient /\ Ends("blocked") /\ UNCHANGED <<row, rescans>>
  \/ ~patient /\ rescans < MaxRescans /\ ForceRescan
  \/ ~patient /\ rescans >= MaxRescans /\ Ends("failed") /\ UNCHANGED <<row, rescans>>

(* verify.run                                                                *)
Verify ==
  /\ In("run", "verify")
  /\ \/ /\ placed = {} \/ weather # "lost"
        /\ proof' = placed
        /\ Ends(IF placed = {} THEN "skipped" ELSE "ok")
        /\ UNCHANGED <<row, rescans>>
     \/ placed # {} /\ weather # "good" /\ Missing /\ UNCHANGED proof
  /\ UNCHANGED <<placed, fresh, book, file, shelf, listing, around>>

(* shelve.run: the formats downloaded or placed decide the shelf.  Among the *)
(* bad conditions is that shelving is switched off.                          *)
Shelve ==
  LET landed == {f \in Format : Acquired(f)} \cup placed
      busy == \E f \in Format : row[AcquireStage[f]].status = "running"
  IN
  /\ In("run", "shelve")
  /\ \/ busy /\ Ends("blocked") /\ UNCHANGED shelf
     \/ ~busy /\ landed = {} /\ Ends("skipped") /\ UNCHANGED shelf
     \/ ~busy /\ landed # {} /\ shelf' = landed /\ Ends("ok")
     \/ /\ ~busy /\ landed # {} /\ weather = "bad"
        /\ Ends("blocked") \/ Fails
        /\ UNCHANGED shelf
  /\ UNCHANGED <<stages, book, file, proof, listing, around>>

-----------------------------------------------------------------------------
(* After the run.                                                          *)

(* mark_done, and _forgive_transient for an error that is forgiven.  Only a  *)
(* blocked result gives the attempt back.  A completed download still has to *)
(* wake what waited for it.                                                  *)
MarkDone(s) ==
  /\ In("done", s)
  /\ row' = [row EXCEPT ![s] =
       [status |-> IF worker.res = "forgiven" THEN "blocked" ELSE worker.res,
        attempts |-> IF worker.res = "blocked" /\ @.attempts > 0 THEN @.attempts - 1
                     ELSE IF @.attempts > MaxAttempts[s] THEN MaxAttempts[s]
                     ELSE @.attempts]]
  /\ fresh' = (s = "index" \/ fresh)
  /\ IF s \in {"acquire_ebook", "acquire_audiobook"} /\ worker.res = "ok"
     THEN worker' = [worker EXCEPT !.pc = "wake"]
     ELSE GoOn(Refreshed(s), s)
  /\ UNCHANGED <<placed, rescans, book, world, listing, around>>

(* The end of _advance for an acquire stage that came back ok.               *)
Wake(f) ==
  LET s == AcquireStage[f]
      stale == IF f \in placed THEN {}
               ELSE IF Satisfied(row.place) THEN {"place"}
               ELSE IF f = "audiobook" /\ Satisfied(row.shelve) THEN {"shelve"} ELSE {}
  IN
  /\ In("wake", s)
  /\ \/ stale = {} /\ UNCHANGED stages
     \/ \E t \in stale : ResetStage(row, t)
  /\ GoOn([t \in Stage |-> IF t \in stale \cup {s} THEN row'[t] ELSE worker.view[t]], s)
  /\ UNCHANGED <<book, world, listing, around>>

-----------------------------------------------------------------------------
(* The operator, the clock, the process and the world.                     *)

Undisturbed == Calm => worker = Idle /\ listing = {}

(* POST /api/books/{id}/retry/{stage}; reconcile does it to a shelve that is *)
(* ok when Goodreads disagrees.                                              *)
Retry(s) ==
  /\ Undisturbed
  /\ retries < MaxRetries /\ retries' = retries + 1
  /\ ResetStage(row, s)
  /\ UNCHANGED <<book, world, listing, worker, weather, crashes, moves>>

(* POST /api/books/{id}/category                                             *)
SetCategory(c) ==
  /\ Undisturbed
  /\ moves < MaxMoves /\ moves' = moves + 1
  /\ category' = c /\ review' = FALSE
  /\ ResetStage(row, "place")
  /\ UNCHANGED <<world, listing, worker, weather, crashes, retries>>

(* Ten minutes pass since index finished.                                    *)
GraceEnds ==
  /\ fresh /\ fresh' = FALSE
  /\ UNCHANGED <<row, placed, rescans, book, world, listing, worker, around>>

(* The process stops; what was running stays so in the database.             *)
Crash ==
  /\ crashes < MaxCrash /\ crashes' = crashes + 1
  /\ worker' = Idle /\ listing' = {}
  /\ UNCHANGED <<stages, book, world, weather, retries, moves>>

Change ==
  /\ weather' \in Weather
  /\ UNCHANGED <<stages, book, world, listing, worker, crashes, retries, moves>>

Init ==
  /\ row = [s \in Stage |-> Fresh]
  /\ placed = {} /\ rescans = 0 /\ fresh = FALSE
  /\ category = Unclassified /\ review = FALSE
  /\ file = [f \in Format |-> {}]
  /\ shelf = {} /\ proof = {}
  /\ listing = {} /\ worker = Idle
  /\ weather \in Weather
  /\ crashes = 0 /\ retries = 0 /\ moves = 0

Runner ==
  \/ Classify \/ Place \/ Index \/ Notebook \/ Verify \/ Shelve
  \/ \E f \in Format : Acquire(f)

Advance ==
  \/ Leave \/ PlaceAgain \/ Runner
  \/ \E s \in Stage : Refuse(s) \/ MarkRunning(s) \/ MarkDone(s)
  \/ \E f \in Format : Wake(f)

Next ==
  \/ List \/ Start \/ Advance \/ GraceEnds \/ Crash \/ Change
  \/ \E s \in Stage : Retry(s)
  \/ \E c \in Category : SetCategory(c)

Spec == Init /\ [][Next]_vars

(* The sweep comes round to the book again and again, a worker that has it   *)
(* carries on, and time passes.                                              *)
Fairness ==
  /\ WF_vars(List /\ listing = {}) /\ WF_vars(Start) /\ WF_vars(Advance)
  /\ WF_vars(GraceEnds)

FairSpec == Spec /\ Fairness

-----------------------------------------------------------------------------
(* Properties.                                                             *)

Rows == {r \in [Stage -> [status : Statuses, attempts : Nat]] :
           \A s \in Stage : r[s].attempts \in 0 .. MaxAttempts[s] + 1}

Places == {"staging", "tree"} \cup Category

Categories == Category \cup {Unclassified}

Workers == [pc : Phases, view : Rows, cat : Categories, at : 1 .. End, res : Results]

TypeOK ==
  /\ row \in Rows
  /\ placed \in SUBSET Format /\ shelf \in SUBSET Format /\ proof \in SUBSET Format
  /\ rescans \in 0 .. MaxRescans
  /\ fresh \in BOOLEAN
  /\ category \in Categories /\ review \in BOOLEAN
  /\ file \in [Format -> SUBSET Places]
  /\ \A l \in listing : l \in [rows : Rows, cat : Categories]
  /\ worker \in Workers
  /\ weather \in Conditions
  /\ crashes \in 0 .. MaxCrash /\ retries \in 0 .. MaxRetries /\ moves \in 0 .. MaxMoves

(* Nobody but the pipeline touches the book.                                 *)
Unaided == retries = 0 /\ moves = 0

(* A check of verify that stands was made of what place has filed now: filing *)
(* anything else undoes it (the resets of _advance and _format_waiting).     *)
ProofIsCurrent ==
  Unaided /\ worker = Idle /\ Satisfied(row.verify) => proof = placed

(* docs/PIPELINE.md on verify: a book is never moved onto a collected shelf   *)
(* on the strength of an unchecked claim.                                    *)
NeverShelvedUnproved ==
  [][shelf' # shelf => proof # {}]_vars

(* What is finished is not done again: short of the operator, a stage that   *)
(* is ok is only undone for a download that is not filed yet, and index also *)
(* by a verify that misses the book.  docs/PIPELINE.md: if the stage's       *)
(* status is satisfied, skip it.                                             *)
FinishedStaysFinished ==
  [][Unaided' => \A s \in Stage : row[s].status = "ok" /\ row'[s].status # "ok" =>
       \/ Rank[s] >= Rank.place /\ \E f \in Format : Acquired(f) /\ f \notin placed
       \/ s = "index" /\ row.verify.status = "running"]_vars

(* What a row is to the stages, whoever resets it: see StageRows.             *)
Fate(rows, s) ==
  IF Satisfied(rows[s]) THEN "finished" ELSE IF Parked(rows, s) THEN "parked" ELSE "open"

Running == worker.pc \in {"run", "done"}

Contract ==
  INSTANCE StageRows WITH
    None <- "none",
    state <- [s \in Stage |-> Fate(row, s)],
    run <- IF Running THEN CHOOSE s \in Stage : worker.at = Rank[s] ELSE "none"

(* However stale the list is that the worker walks: a stage is only begun     *)
(* when its row is neither finished nor parked, and while it runs its row    *)
(* becomes neither by any other hand (mark_running, mark_done, mark_held and *)
(* reset_stage in db.py).                                                    *)
KeepsContract == Contract!Spec

(* A shelving that stands says what the book has: a format that comes after   *)
(* it brings it about again, by the resets of _advance or, if the process    *)
(* stops before those, by what _format_waiting finds.                        *)
ShelfIsCurrent ==
  Unaided /\ worker = Idle /\ row.shelve.status = "ok" =>
    shelf = {f \in Format : Acquired(f)} \/ FormatWaiting

ParkedSomewhere == \E s \in Stage : Parked(row, s)

Settled ==
  /\ \A s \in Stage : Satisfied(row[s])
  /\ placed = {f \in Format : Acquired(f)}
  /\ shelf = placed

(* Once the world behaves, a book is finished and stays finished, on the     *)
(* shelf of what it has, whatever its rows had come to by then -- unless a   *)
(* stage is parked for a human.                                              *)
Settles == <>[](weather = "good") => <>[](Settled \/ ParkedSomewhere)

(* A book the library apps never show comes to a human in the end: verify    *)
(* does not force rescans, or wait for them, for ever.                       *)
LostIsParked ==
  <>[](weather = "lost") => <>[](Settled \/ ParkedSomewhere)

=============================================================================
