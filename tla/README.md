# A TLA+ model of the goodreads pipeline

The program takes every book of a Goodreads shelf through eight stages:
`classify`, `acquire_ebook`, `acquire_audiobook`, `place`, `index`, `notebook`,
`verify`, `shelve`. A scheduler thread sweeps over all books and gives each to one
of six worker threads; a worker runs whatever stage of its book can run. What is
known of a book is eight rows of the table `stage_runs`; everything else is a
service that may be down, slow, or wrong about what it did.

What is hard in this program is not any stage but what happens between them:
workers act on lists and snapshots that are older than what they act on, every
write of a row is a statement of its own, the process may stop anywhere, a
service in trouble is met by all workers at once, and the operator's commands run
in a second process on the same rows and files. The models are about that.

* [Inventory](#inventory)
* [The modules](#the-modules)
* [The runs](#the-runs)
* [Fairness](#fairness)
* [Divergences](#divergences)
* [Proofs](#proofs)
* [Not modelled](#not-modelled)

To check a run: `tlc -workers 2 -config BreakerSafety.cfg MCBreaker` (`PROJECT.json`
names the module of each). To check the proofs: `tlapm BreakerProofs.tla`, and the
same for `BreakerHoldProofs`, `PipelineProofs`,
`SchedulerProofs`, `AcquireProofs`, `ShelvingProofs`, `NotebookProofs` and
`RefileProofs`.

## Inventory

| Component | State | Operations | What makes it correct | Modelled in |
|---|---|---|---|---|
| Circuit breaker, `app/breaker.py` | table `service_breaker`: one row per service with state, streak, trips, deadline, probe | `record_failure`, `record_success`, `claim_probe`, `resolve_probe`, `clear`, `adopt_backlog`, and the two moves of the clock; each under `_LOCK`, but for the rows that `adopt_backlog` reads before it takes the lock | one probe at a time, decided by its own claimant, unless a run outlives its claim; a hold ends on a verdict only; no failure an outage explains stays; held books come back | `Breaker` |
| Scheduler: sweeps, `app/pipeline.py` | `_in_flight`, `_sweep_lock`, the pool, timers of the periodic phases, `_last_touched` | `sweep`, `_sweep`, `_claim`, `_release`, `stop` | a book is in one worker's hands, every book gets its turn, a sweep ends | `Scheduler` |
| Scheduler: one book, `_advance` | per worker the listed rows of its book and the sweep's snapshot of the breaker | the gate, the run, the record, the forgiveness, the wake-ups | a stage runs after what it needs, what is finished stays so | `Breaker` (the gate), `Pipeline` (the walk) |
| Stage rows, `app/db.py`, `app/models.py` | table `stage_runs`: status, attempts, clock, holder, artifact, output, `queued_at` | `mark_running`, `mark_done`, `mark_held`, `hold_rows`, `reset_stage`, `bump_transient`, `mark_queued`, ... | attempts count failures; a reset leaves nothing that was concluded from what it undoes | all |
| `classify` | `books.category`, `needs_review` | `run`, `reclassify_with_file` | a guess is marked as one, and made again with the file | `Pipeline` |
| `acquire_*` | `queued_at`, the releases tried; the downloads of Shelfmark | `_run`, `_queue`, `_watch` | one download at a time; none is let go of while it runs; it comes to an end | `Acquire` |
| `place` | files on disk; `output_path` of its row | `run`, moves of one file or folder | idempotent; the file is where the category says | `Pipeline`, `Refile` |
| `index`, `verify` | `output_path` of `verify` counts forced rescans | `run` | `verify` waits and rescans a bounded number of times | `Pipeline` |
| `notebook` | sources and their links in Open Notebook; `artifact` of its row | `run` | a book is added once, and attached | `Notebook` |
| `shelve`, `app/goodreads.py`, `app/reconcile.py` | the shelves on Goodreads | `move_to_shelf`, `reconcile` | a book is never dropped; drift is put right | `Shelving` |
| Operator's routes, `app/main.py` | -- | retry a stage, set the category, clear a breaker, sweep now, switch shelving | a retry redoes what it says | actions of the others |
| Commands, `app/cli.py` | none of their own | `repair`, `reclassify`, `backfill-genres`: from a second process | they can be interrupted and run again; they do not fight the scheduler | `Notebook`, `Refile` |
| `discover` | rows of `books` | inserts, refreshes | never overwrites what was decided | -- |
| Sign-in, `app/auth.py` | epoch of the user, failures per key | login, logout, change of password | a token of an old epoch is refused | -- |
| Login window, `app/login.py` | one browser process | start, status, stop | one at a time, and it is stopped | -- |
| Health checks, `app/health.py` | table `service_health` | `check_all`; `service_for_stage` decides what the breaker gates | read by the pages only | the gate only |
| Clients, `app/clients` | sessions of HTTP | requests and the parsing of answers | an error has the right kind | as outcomes |

**How they interact.** All through one SQLite database, one statement at a time.
The scheduler calls the runner of a stage, gets a `StageResult`, writes the row,
and tells the breaker. The breaker, when it trips, rewrites rows of many books
(`reclaim`, `hold_rows`); when it closes it clears their clocks. A worker reads its
rows from the list the sweep took (`list_books`) and refreshes one entry at a time;
the runners of the stages read the database. The operator's routes and `reconcile`
write rows while workers run. `verify` resets `index` of its own book.

**What is hard.** `PROJECT.json` lists the hazards with their lines. They fall in
four groups: the breaker met by several workers at once, out of order and with old
snapshots; a worker's view of its book going out of date, by its own resets or by
others'; loops of waiting and retrying that must end; and stops of the process
between two writes.

## The modules

### Breaker

One service and any number of books, each with one stage that the service gates.
Every operation of `breaker.py` is one step, because the code holds `_LOCK` over
it; a worker is a sequence of such steps and of single writes to its row, and
everything may interleave between two of them. `adopt_backlog` is two steps: it reads
the failed rows outside the lock (`ReadBacklog`) and trips on them under it
(`AdoptBacklog`).

| State | In the code |
|---|---|
| `brk` | the row of `service_breaker`. `backoff` is `cooldown(trips)`, `wait` is `open_until` minus now, `gap` the age of the last failure, `probeAge` the age of `probe_at` |
| `row` | the row of `stage_runs` of each book's gated stage. Status, `failure_kind`, `service` and `held_by` are one word; `clock` is the age of `transient_since` |
| `worker` | where `_advance` is with the book, what the sweep had seen of the breaker, the variable `probe`, the result; how long ago the gate let it through (`age`), and how long the result has been there (`late`) |
| `snapshot` | `holding` of the sweep that runs |
| `backlog` | `adopt_backlog` has read enough failed rows and has yet to take the lock |
| `healthy` | whether the service and the local disk work: the environment |

A run of the gated stage is: `Submit` (with the snapshot as it is then), a gate
(`RunUngated`, `ClaimGranted`, or `ClaimRefused` and `MarkHeld`), the result
(`Answered`, `NotAsked`, `Unserved`, `Troubled`, `OwnGrace` for the 24 hours that `acquire`
grants itself),
`Record` (`record_failure`), `Check` (`is_holding`), `MarkDone`, `Settle`
(`resolve_probe` or `record_success`) and `Forgive`. The actions are steps of the
one function, in its order, and each is atomic in the code: a statement, or a
function under the lock.

A result says whether the service was asked: `Answers` are what the service said; `Unasked`
are the closes "not earned" of `probe_verdict`'s docstring, which are *blocked* with nothing
asked (a switch of `shelve`, a download under way), *skipped*, and *blocked* because the
request got no answer or a 429; then there are failures (*failed*, *unnamed*, *local*), the
grace of `acquire` and a hold. `Outcomes` is which of these the stage at hand may return.
`Verdict` closes the breaker on the first two, as the code does.

A run may take any time: it is many calls, and a walk of Open Notebook's sources alone may
be minutes. Only from its result to its settling there is a limit, `MaxSettle`, shorter than
the first cooldown (`SettleAssumption`): no request is made any more then, and what is left
are statements on the local database. A run is `Overdue` when it has taken as long as the
shortest cooldown or as a claim lives, whichever is less; it goes on and comes back, and
its result is recorded and settled like any other. What the properties say of a probe they
say of runs that are not overdue (`Trying` is such a run on its own claim); what an overdue
one does is under [Divergences](#divergences).

Time is ages and remaining waits in units of a `Tick`; a value stops growing one past what it is
compared with, so nothing grows without end and no bound is needed for it. Attempts stop at
`MaxAttempts`: only those of a row that has failed are looked at, after a run that counted them
up. `wait_seconds` may be stretched by Retry-After up to the cap; the model lets the service ask
for any time up to one beyond it.

Left out: the headline and the messages; more than one service (a breaker knows of
no other); that a book has more than one gated stage; a second worker with the same
book (which `Pipeline` has). `reclaim` reads and then writes; here it is one step. Which
failed rows are recent enough for `adopt_backlog` is left open.

`Outage` is what a breaker promises to those outside it: once it holds, nobody is let through
to the service until the deadline has come, then one book is at a time, and a try that takes
too long stops counting, over or not; a deadline is set anew
only after it has come, for a wait twice as long up to the cap; a close leaves nothing of
the outage. It has no half-open, no stale claim, no streak, no snapshot, no thread and no
restart. `Breaker` implements it: `Promise == INSTANCE Outage` maps its `held`, `cooldown` and
`wait` to the breaker's row, and `trying` to the books that are `Trying`. An overdue run that
fails the probe of another is a `Reopen` like any other.

### Pipeline

One book, from the shelf to the shelf. What the services do is chosen by the
environment (`weather`): *good* (they do what they are asked, and files are where
`place` looks), *lost* (the same, but a library app never shows the book), *bad*
(anything may fail, wait, be refused by the breaker or be missing).

| State | In the code |
|---|---|
| `row` | `stage_runs` of the book: status and attempts of each stage |
| `placed`, `rescans`, `fresh` | `output_path` of `place` and of `verify`; whether `finished_at` of `index` is within `SCAN_GRACE_SECONDS` |
| `category`, `review` | the columns of `books` |
| `file` | where copies of each format lie: staging, the folder of a category, or Author/Title for audiobooks |
| `shelf` | the formats that the book's shelf on Goodreads claims |
| `proof` | what the last finished run of `verify` was about. The code keeps it nowhere; it is what its rows stand for |
| `listing` | what the running sweep listed of the book, before it comes to it |
| `worker` | the thread in `_advance`: its view of the rows, the category it was given, the stage it is at |

The sweep is `List` and `Start`; the latter is `_claim` too. The worker goes over
the stages by `NextStop`, to the next one where the loop does anything: a satisfied
`place` (`PlaceAgain`), a parked stage (`Leave`), one that can run (`Refuse` or
`MarkRunning`). A stage that runs takes three steps: `MarkRunning`, its runner
(`Classify`, `Acquire`, `Place`, `Index`, `Notebook`, `Verify`, `Shelve`) and
`MarkDone`; a download that ended takes a fourth, `Wake`, which resets what was
concluded without it. The view is refreshed where the code refreshes it and nowhere
else. `Retry`, `SetCategory`, `Crash` and the end of the grace may come between any
two of them.

The runner's own statements are one step: they read and write what nobody but this
book's runners and the operator touches. A result "forgiven" is a failure that
`_forgive_transient` turns into *blocked*: it keeps its attempt.

Attempts are capped at `MaxAttempts` at rest; they are only compared with 1 and
with that.

`Calm` says whether the operator keeps his hands off a book that a sweep is at, and
`LeavesWorkers` whether a sweep may list a book that a worker of an earlier one
still has. Both are constants so that the runs can say what depends on them.

### StageRows

What the stages of a book may rely on of their rows: one runs at a time; it is neither
finished nor parked when it is begun; only its own run finishes or parks it; and a reset
is the only way back. A row is *finished* (ok or skipped), *parked* (failed, its attempts
spent) or *open*, which is what `_advance` makes of it. `Pipeline` implements it for the
eight stages, by the mapping `Fate` and `Running`; `Acquire`, `Shelving` and `Notebook` each
for the one stage they open up.

### BookTurns and Scheduler

`BookTurns` is what the scheduler promises and what the other modules take for
granted: a book is advanced by one worker at a time, and one that nobody advances
gets another turn, for as long as the scheduler is not stopped. `Scheduler`
implements it: `Turns == INSTANCE BookTurns` maps the turns of a book to the number
of threads that are in `_advance` with it by a claim. That excludes one thing that the code
does, a work item left behind by a `submit` that failed (below, and Divergences).

| State | In the code |
|---|---|
| `order` | the books by `_last_touched`: the first is the least recently touched |
| `due`, `rest` | which periodic phases are due; how many sweeps before one can be again |
| `sweep` | the sweep that has `_sweep_lock`: its phase, its list, the book it has claimed, its `pending` futures, what remains of its budget |
| `inFlight` | `_in_flight` |
| `queue`, `thread`, `started` | the pool: work items nobody has taken, what each thread does (*begun* `_advance`, *busy* in a stage, *done* but its callback not yet called), and the threads it has started. An item and a thread know whether there is a claim behind them |
| `shut`, `stopped` | the pool that the sweep holds is shut down; `stop()` was called |

A sweep is `BeginSweep`, `RunPhase` or `SkipPhase` for each phase, `List`, then `Take`
(`_claim`) and `Submit` until the pool is full, `Collect` or `Elapse` when it waits, and `End`;
or it ends in `GoOn` when the budget is over. `SubmitRefused` and `StartFails` are the two ways
into the `except` that gives the claim back: the pool is shut, or it cannot start a thread. In
the second `ThreadPoolExecutor` has queued the work item already, which stays behind without a
claim and without a callback; the book may then be claimed and queued again. A worker is
`Begin`, `Work` (which stamps the book) or `NothingToRun`, `Finish`, `Release`. `Stop` cancels
what is queued, whose callbacks release the books, and leaves threads and sweep to go on.

Time is what the code compares it with: within the reserve of the phases, past it,
past the budget, past twice the budget. It passes in a phase and while the sweep
waits for workers that are busy. A thread of `Hanging` may stay in a stage for ever.
`MaxOdd` bounds forced sweeps and failed starts together.
The pool is `ThreadPoolExecutor`, modelled from how the code uses it.

Left out: what a worker does with its book; that the timestamps have a resolution
(two books stamped in the same instant keep an order of their own).

### Acquire

One acquire stage of one book, and Shelfmark.

| State | In the code |
|---|---|
| `row` | `stage_runs`: status, attempts, `queued_at` (`queued`, and `old` once it is `QUEUE_ABANDON_SECONDS` ago), `output_path` as the list of releases `tried` |
| `worker` | where `_run` is, the release it has chosen, its result |
| `task` | what `/api/status` says of each release: nothing, active, ok, failed |
| `landed`, `died` | a file of the book lies where downloads land; the releases whose download has failed |

A run is `Begin`, then either `Watch` (the listing, judged) and `Drop`
(`clear_queued`), or `Search`, `Ask`, `MarkQueued`, `Remember`; then `MarkDone`. The
request and the two writes after it are three steps, and the process may stop between
them. `Found` is `find_task`: by release first, by wording else; `Reworded` are the
releases whose task is worded so that only the first finds it. `FirstState` is the
order of the listing. A release is a number, in the order of `rank()`: how one is
rejected or ranked is not modelled. `Reset` is `reset_stage`, of this stage or of
`acquire_ebook` before it, which clears `queued_at` and leaves the download.

### Shelving

One book, its shelves on Goodreads, `move_to_shelf` request by request, and
`reconcile`.

| State | In the code |
|---|---|
| `shelves`, `made` | Goodreads: where the book is; which collected shelves exist |
| `deep` | the shelves that have outgrown one page, for this book: `book_on_shelf` misses it there |
| `formats` | what was acquired |
| `row` | status, attempts, artifact (the shelf) of `shelve` |
| `switch` | `auto_shelve` of the book and of all |
| `worker`, `recon` | where the stage and the reconciliation are, and what they have read |

The stage is `Start`, `Choose`, `EnsureShelf`, `AddFirst`, `Confirm`, `Destroy`, `AddBack`,
`ConfirmBack`, `MarkDone`: make the shelf if need be, shelve, confirm, destroy the review (which
takes every shelf), shelve again. A request may fail before or after it took, and an answer may
be unreadable, which `_shelves_from_response` turns into no shelves. A shelf that does not exist
shows all books. `reconcile` is `ReadRow`, then `ReadShelf` per shelf, then `Judge`.
`MoveByHand` is the reader on the website.

### Notebook

One book's file in Open Notebook, where other books' sources come and go, and
`cli repair --apply` beside the stage.

| State | In the code |
|---|---|
| `live`, `ours`, `links`, `next` | Open Notebook: sources by creation, those of the file, how often each is attached |
| `limbo` | a creation whose request was given up, and which may still happen |
| `row` | status, attempts, artifact (the source) of `notebook` |
| `worker`, `repair` | where the stage and the repair are: the page they read, what they found |

The stage is `Start`, `AskRecorded` (`source_exists`), `Walk` (`sources_for_path`, a page a
step), `Create`, `CountLinks`, `Detach`, `Attach`, `Check` (`ensure_attached`), `ReadBack`,
`MarkDone`; an attachment that was missed is remembered over the read of the source. The repair
is `RepairWalk`, `Keep`, `Clear` (a deletion a step), `RepairCount`,
`RepairDetach`, `RepairAttach`, `Retry`; the errors it prints and passes over are there.
A page is computed from what is live when it is read, so that a walk can miss a source
when newer ones go.

### Refile

One ebook under `cli reclassify --apply` and `cli backfill-genres`, beside the sweeps.

| State | In the code |
|---|---|
| `rules`, `category` | the category that `categories.yml` gives the book now, and `books.category` |
| `file`, `place` | the folders that hold a copy; the folder in `output_path` of `place` |
| `index`, `told` | whether `index` and `notebook` are done; the path and the notebook that they announced |
| `worker`, `command` | the sweep that has listed the book and its worker, with the category and the placing as they were listed; where the command is |
| `clean`, `beside` | `reclassify` came to its end since the rules changed; a command was at the book between a sweep's listing it and the end of that sweep with it |

`reclassify` is `Plan` (`_plan_refile`), `Move`, `Record` (`set_output`), `SetCategory`,
`ResetIndex`; `backfill-genres` is `Backfill` and `ResetPlace`; each may be `Interrupted`
between any two. The sweep is `List` (`list_books`), `Begin` (a worker takes the book, up to the
budget of a sweep later) or `PassOver` (the budget is over), `Place`, `Tell`, `MarkDone`; all of
them go by the category that was listed. `clean` and `beside` are history; they restrain
nothing. The flag `needs_review` and the audiobook, which is filed by author and not by
category, are left out.

### How the modules compose

Each of the others is one book (or one service with its books) seen from inside a
turn; `Scheduler` is all books seen from outside. They meet in `BookTurns`: `Scheduler`
implements it, and the weak fairness of the workers in `Breaker`, `Pipeline`, `Acquire`,
`Shelving`, `Notebook` and `Refile` is its `Served`, together with the assumption that the
stage at hand does not hang. That at most one worker has the book, which all of them are
built on, is its `Safety`, which is proved for workers that have a claim: a `submit` that
failed to start a thread is outside the other modules. `Acquire`, `Shelving` and `Notebook` each
open up one runner that `Pipeline` takes in one step, and meet it in `StageRows`, which all
four implement: what `Pipeline` takes for granted of a stage's row while others run
(that it is begun from an open row, ended by its own run and undone by resets only) is
what the modules of single stages have, and the other way round. What they may return is
what `Pipeline` lets a stage return.

## The runs

| Run | Bounds | What it shows |
|---|---|---|
| `breaker_safety` | 2 books, threshold 2, cooldown 2 and at most 3, a probe stale after 1, runs of any length that are settled at once, streak window 0, grace 1, one act of the operator, the service in trouble | Seen from outside the breaker is an `Outage`: held until the deadline, tried by one book at a time, prolonged at the deadline only. One probe at a time, decided by its claimant, but for overdue runs; a failed probe is recorded when it is settled; a hold ends on a verdict; no failure survives a trip but the one being written, and what is left failed under a hold is old |
| `breaker_liveness` | 2 books, threshold 1 and the smallest times, restarts, weather that changes, every result but those that only shelve and notebook have | When the service works for good, no book stays held, a probe lost in the restart included |
| `pipeline` | 1 category, one attempt per stage (two for `place`), one forced rescan, good and bad weather | What `verify` found is about what is placed; the shelf says what the book has; what is finished stays so; the rows are `StageRows`; when the weather stays good the book ends on its shelf or before a human |
| `pipeline_operator` | the same with good and lost weather, 1 restart, 1 retry, 1 change of category | It still settles; a book the library never shows ends before a human |
| `scheduler` | 3 books, 2 threads of which one may hang, one phase, one forced sweep or failed start, one `stop` | `_in_flight` is what is in somebody's hands by a claim; a book is in one pair of these; the scheduler implements `BookTurns`, fairness included |
| `acquire` | 3 releases of which 2 are worded otherwise, 2 remembered, 2 attempts, 2 faults, 1 reset | One download at a time but for what a fault or a reset duplicates; none is let go of while it runs; a book is given up for cause; the stage ends |
| `shelving` | 2 attempts, 2 faults, 1 restart, 1 move by hand, 1 switch | A book recorded as shelved is there; a run without failures never drops it; whatever happened it is put right |
| `notebook` | pages of 2, 2 pages, 4 sources ever, up to 2 of them left by earlier versions, unattached or attached twice; 2 attempts, and one each of fault, source that disappears, reset, repair | A book is added once; what is recorded is there and attached; the repair spares what is used; the stage ends |
| `refile` | 4 categories (two share folder and notebook, a third the folder only, one has its own), 2 changes of the rules, 2 interruptions, 1 backfill, 1 file lost | Never two copies; record, category and file agree after `reclassify`; the services are told; it comes to rest |
| `pipeline_unchecked`, `acquire_lost`, `refile_cut` | as in their cfg | Divergences, below: a sentence of the documentation that does not hold |

Why the bounds are enough.

*Breaker.* Two books are what its properties speak of: a probing book and another
that arrives late, and further books behave as the second does (the proofs below need
no bound). Time is counted in the smallest units in which what the code compares
differs: a claim that goes stale (1) before the first cooldown (2), or with it, a run that is
overdue and one that is not, a doubled wait that meets its cap (3), and a service that asks
for more than the first wait and less than the cap. Runs have no bound. A result is
settled within the same unit (`MaxSettle = 0`), which is what a few statements on the local
database are against a cooldown of 300 s; the proofs hold for any `MaxSettle` shorter than the
cooldown. Threshold 2 is the smallest with a streak. The outcomes of the safety run are
one of each kind that the breaker or the rows tell apart in trouble; the others are in the
liveness run. The safety run has no restart, as `FailureUnderHoldIsOld` is about none: what a
restart does to the probe and to the hold is proved, and what it does to the books is in the
liveness run, where it may happen at any time and any number of times while the weather is bad.

*Pipeline.* A first failure of `place` for want of a category happens to every book (in the pass
that classifies it, the worker's copy of the book has none), so `place` needs a second attempt;
one attempt elsewhere parks a stage at its first failure, and `pipeline_unchecked`, which needs
more, has two. The run has neither restart nor operator; that rows are `StageRows` with any
number of both is proved (`ContractKept`). One rescan is enough for all of verify's branches:
wait, scan again, give up.

*Scheduler.* Two threads and three books are the smallest in which a sweep has more
books than the pool has room for, one thread hangs, and the order of the rest still
matters. One phase shows both what overruns and what is skipped. A forced sweep and a failed
start have one bound for both (`MaxOdd`), since neither has to do with the other.

*Acquire.* Two releases are remembered of three, so that the list drops one; two
worded otherwise and one that is not, so that either may be the one that runs.

*Shelving.* Two faults are a request that took without an answer and one more in the
attempt to mend it. Both shelves that exist from the start and those that must be made,
and pages that the book is too old for, are initial states.

*Notebook.* Four sources on two pages are the smallest list with a page boundary between
two copies of the file. `NotebookAssumption` says that a walk sees the whole list
(the code's limit is 50 pages of 100); beyond that a copy would be missed.

*Refile.* Two changes of the rules and two interruptions are the smallest in which the
second command meets the rest of the first.

Bounded counters stand for what happens seldom and without end: faults, restarts,
resets, interventions. Where a run has `CHECK_DEADLOCK FALSE`, the book may be finished
(or parked), the counters spent, and nothing left to do; the scheduler may be stopped.

Types are checked once in each module. Each property of a passing run has a mutant
in `PROJECT.json`: a change of one definition that TLC finds out by that property; the
operators it uses stand before the one they replace, with a comment that says
"A mutant".

## Fairness

The sweep comes round (`_loop` sweeps every 15 seconds for as long as the process
lives, and a stopped process is started again), every book gets its turn in it
(`BookTurns`, implemented by `Scheduler`), a worker's stage comes to an end (all client
calls have timeouts), and time passes. Each is weak fairness of the actions of one
party. None is assumed of a restart, a fault, the weather, the reader or the operator's
routes.

* `Breaker`: of each worker's step, of the clock, of the sweep's snapshot and of `adopt_backlog`
  once it has read; `HeldBooksReturn` has as a premise that the service works from some point
  on.
* `Pipeline`: of the sweep and of the worker. `Settles` and `LostIsParked` have a weather that
  stays; `Settles` allows a book to end with a parked stage, which is the documented end of one
  that fails too often.
* `Scheduler`: of the sweep and of each thread, except of `Finish` for a thread that hangs. That
  a wait times out, and a phase ends, are steps of the sweep.
* `Acquire`: of the stage, of the end of each download (Shelfmark gives up on one that stalls)
  and of the ten minutes.
* `Shelving`: of the stage, and of the reconciliation, which is a phase of the sweeps.
* `Notebook`: of the stage, and of the repair once it is begun; nobody has to begin it.
* `Refile`: strong fairness of the sweep's `List`, of `Begin`, which the end of the sweep's time
  may forestall but not for ever (the rotation), and of `Plan`: sweeps go on, and an operator
  who changes the rules runs the command until it has nothing to do. Weak fairness of what
  either has begun.

## Divergences

Three runs check a sentence of the documentation or of a comment and find it violated.
`PROJECT.json` quotes the lines.

* `pipeline_unchecked`. The wake-up of `place` resets everything after it in the
  database, but only `place` in the worker's view. In the same walk `shelve` may
  run on a `verify` that is no longer there.
* `acquire_lost`. A task that is missing for ten minutes has its `queued_at` cleared, but
  stays among the releases that were tried, and those are passed over. It is not queued
  again; a book with one release is given up although no download failed.
* `refile_cut`. `reclassify` interrupted after it wrote the category and before it reset
  `index` is passed over by the next run, since the category is the right one; the
  services keep the old path.

Others came up while modelling. The models do what the code does in each of them, and
the properties are stated so that they do not claim otherwise:

* A probe may run for longer than its claim lives (15 minutes), and any run that the gate let
  through for longer than the first cooldown (5 minutes): a walk of Open Notebook's sources alone
  may be minutes (`clients/opennotebook.py:85-95`). After that a second book may have the probe
  while the first still runs -- because the claim went stale, or because the breaker was closed
  or cleared, tripped and half opened again in between. "Exactly one book is allowed to run one
  stage" (`docs/PIPELINE.md:562`; `breaker.py:494`; `pipeline.py:461`) holds of claims, and of
  runs that are not overdue.
* `resolve_probe` does not look at who claimed the probe (`breaker.py:615`). Such a late run closes
  the breaker on its own result, or reopens it, while the probe of another book is out; and a
  late run that records a failure while the breaker is open may meet the deadline before it
  is settled, and double the cooldown a second time. `VerdictIsTheClaimants` and
  `FailedProbeIsRecorded` leave overdue runs out for that.
* `probe_verdict` closes on results for which nothing was asked of the service or nothing was
  answered: `shelve` returns *blocked* for a download under way, for either of its switches, for
  a 429 and for a request that failed in transport, and *skipped* for a book without files
  (`stages/shelve.py:57-85`, `:106-119`). The docstring owns up to it (`breaker.py:584-596`);
  `docs/PIPELINE.md:566-567` says that the verdict comes "only from evidence the service itself
  produced". `HoldEndsOnAVerdict` allows these three and no other.
* When the pool fails to start a thread, `submit` raises after it has queued the work item. The
  comment at `pipeline.py:311-317` takes the future for one "that was never created" and
  gives the claim back, so the item is run later without a claim, and the book may be queued
  or advanced a second time meanwhile: "two stage runs on one book", in the words of
  `pipeline.py:303-305`. `Scheduler` has this (`StartFails`); `InFlightIsHeld`, `OneHolder` and
  `BookTurns` speak of claims, and the modules of single books, which take it for granted
  that one worker has the book, leave it out.
* A sweep lists a book with its category (`pipeline.py:274`) and hands it to a worker up to its
  budget later (`:309`). A `reclassify` that runs wholly in between is lost on that worker: `place`
  files under the old folder (`stages/place.py:68-71`), `notebook` announces the old notebook
  (`stages/notebook.py:71-72`), and the next `reclassify` passes the book over, the category
  being that of the rules. `Refile` does so; `Agrees`, `Serviced` and `Settles` are about books
  with `~beside`.
* A worker with an old snapshot of a held service passes `claim_probe` because the breaker
  has closed since. Its ok then goes to `resolve_probe`, which ignores it, and not to
  `record_success`, so the streak of failures goes on (`pipeline.py:579`;
  `docs/PIPELINE.md:541-543`).
* A forgiven failure is written *failed* and then *blocked*; the attempt is not given back
  (`pipeline.py:694`), though blocked is said to cost none (`docs/PIPELINE.md:472-474`).
* The row of the probing book is written before the close that should clear its clock
  (`pipeline.py:542`; `docs/PIPELINE.md:609`), and is no longer recognised by then.
* A parked audiobook ends the walk, and `place` comes after it: the ebook stays in staging
  (`pipeline.py:444`; `docs/PIPELINE.md:15-17`).
* After `set_category` or `backfill-genres` a placed ebook is looked for in the folder of
  its new category only, where it is not (`place.py:153`; `docs/API.md:539`,
  `docs/OPERATIONS.md:235-237`). The docstring of `cmd_reclassify` knows of it. Hence
  `backfills = 0` in `Settles` of `Refile`.
* A worker that outlives its sweep may end between the next sweep's list and its claim:
  the book is run again from the old rows (`pipeline.py:302`; `docs/PIPELINE.md:131`).
  `FinishedStaysFinished` is checked without (`LeavesWorkers`), and fails with it.
* A retry while a sweep is at the book may be overwritten by the worker's `mark_done`, and
  the book may end satisfied with what was to be redone (`main.py:1332`). `Settles` of
  `Pipeline` is checked without (`Calm`), and fails with it. The code promises nothing
  precise about it.
* A book that is no longer on *to-read* is added to its new collected shelf and not taken
  off the older one (`goodreads.py:627-635`; `docs/PIPELINE.md:145`, `:661`). `InPlace`
  asks for the new shelf only.
* `README.md:61-62` speaks of up to four releases per book. Four is how many are remembered;
  when the fourth has died the stage fails, and its next attempt asks for a fifth, as long as
  `MAX_ATTEMPTS` lasts (`acquire.py:355`).
* `reset_stage` clears the recorded source, so that after a retry the stage looks for it
  by its path in the whole list: what the comment in `stages/notebook.py:101-112` says
  a recorded id is there to avoid. It finds it, unless the list moves under the walk.
* A `repair --apply` beside a stage that reads the list may make it miss the oldest copy,
  which moves to a page that was read. The stage then takes a copy that is gone, and fails
  and looks again; or, if a deletion failed, one that is still there and that the next
  `repair --apply` deletes (`cli.py:516-541`). It takes two repairs, a failed deletion and three
  earlier copies across a page; `RecordIsTrue` and `SparesTheUsed` leave it out
  (`Undisturbed`), and are proved without it.
* `reclassify` interrupted after the move, and the rules edited back, leaves the record on
  the old folder; `backfill-genres` interrupted between its two writes leaves `place` as it
  was. `Resumable` excludes both. A `reclassify` while a sweep is at the book may leave a
  record of the one and a file of the other: `beside` excludes it from `Agrees`.

## Proofs

`BreakerProofs` and `BreakerHoldProofs` prove of `Breaker`, for
any set of books and all values of the constants that satisfy its assumptions:

| Theorem | Statement |
|---|---|
| `TypeCorrect` | `Spec => []TypeOK` |
| `ShapeHolds` | `Spec => []BreakerShape` |
| `OneProbe` | `Spec => []ProbeExclusive` |
| `OwnVerdict` | `Spec => []VerdictIsTheClaimants` |
| `DeadlineStands` | `Spec => NoExtension` |
| `HoldEnds` | `Spec => HoldEndsOnAVerdict` |
| `TripSweeps` | `Spec => NoFailureSurvivesTheTrip` |
| `ProbeCountsOnce` | `Spec => []FailedProbeIsRecorded` |
| `FailuresUnderHolds` | `Spec => []FailureUnderHoldIsOld` |
| `PromiseKept` | `Spec => KeepsPromise`: it implements `Outage` |

*Types and shape.* They are one invariant, `TypedState`: that a wait is at least
`CoolBase` needs the shape (no backoff exactly while closed), and the shape needs the
types. All that the operations under the lock do to the breaker's row is put in one
formula, `LockedStep`, so that each invariant is proved of four cases and not of
fifteen actions.

*The probe.* `ProbeExclusive` is not inductive: nothing in it says that a claim in
the database is still there when its run is. `ClaimsAreFresh` says so: until a run
that was let through the gate is overdue, a half-open breaker has its claim, with the age
of the run, and an open one a deadline that is at least a cooldown from the run's start
away. It needs no assumption on how long a run takes: while a run is not overdue the clock
makes no lazy move under it, so another claim cannot be made and `resolve_probe` cannot meet
another's probe; once it is, the invariant asks nothing of it.

*The end of a hold.* `Verdict` also holds of a result that acquire's own grace
forgave. No such result gets to close a breaker: the grace is given only while the breaker
is closed, and what trips it then waits for longer than the result takes to be settled. That
is the invariant `GraceWhileClosed`, and, however long the run was, it rests on
`SettleAssumption` alone.

*The deadline* and *the trip* need types and shape only.

*The failure of a probe.* `ClaimsAreFresh` speaks of every run let through the gate, the book's own
claim asked for again after a restart included, for its deadline. `FailuresCount` adds that
once such a run has called `record_failure` the breaker is not half-open; nothing makes it so
again until the run is overdue.

*The failure on a row.* `FailuresAreOld` follows the row and its worker through the write,
the settling and the forgiveness; that rows in failure are held by nobody is what keeps a
close from giving them a new clock. It needs nothing of the breaker: the hold in
`FailureUnderHoldIsOld` is why it matters, not why it is true.

*The promise.* Each `LockedStep` of the breaker is one action of `Outage` or none: a failure
that trips it is `Trip`, one that fails a probe `Reopen`, a close `Close`, and the lazy moves
of the clock cannot be seen. A run that ends at the same moment is in each of them. The
one step that needs more is the claim that is granted: nobody else is trying then, since a
run on a claim that is not overdue would be the one in the row (`ClaimsAreFresh`), and the
deadline has come. `BreakerShape` and `NoExtension`, which no run lists, are proved as
they were; the promise says what the second does and more.

`PipelineProofs` proves of `Pipeline`, for any categories and any budgets of attempts,
rescans, restarts and interventions:

| Theorem | Statement |
|---|---|
| `TypeCorrect` | `Spec => []TypeOK` |
| `ProofStands` | `Spec => []ProofIsCurrent`, if `LeavesWorkers = FALSE` |
| `ShelfStands` | `Spec => []ShelfIsCurrent`, if `LeavesWorkers = FALSE` |
| `FinishedStays` | `Spec => FinishedStaysFinished`, if `LeavesWorkers = FALSE` |
| `ContractKept` | `Spec => KeepsContract`, if `LeavesWorkers = FALSE`: it implements `StageRows` |

The types need that no worker or list has a category while the book has none
(`SeenCategories`): `place` moves a file to the folder of the book's category, which is a
folder for that reason only.

The next three follow from one invariant, `Walk`, for a book that the operator leaves
alone. One half relates the worker to the rows (`SeesTheRows`): its view is the rows,
except for the stage it is at and for rows after `place` that a reset has cleared behind
it; of the acquire stages and `place` it knows the rows exactly. So a stage that the
worker takes to be unsatisfied is not satisfied in the rows either, and nothing that
stands is run again. The other half (`Standing`, `InTheMaking`) says what rests on what:
`verify` and `shelve` are satisfied only while `place` is, so that nothing stands while
`place` files something else. Restarts are allowed, and keep all this: a row left
`running` is not satisfied. The run `pipeline` has no restarts; here they are any number.
With `LeavesWorkers` a list may be older than the rows, and the invariant fails, as does
`FinishedStaysFinished` (see Divergences).

`ContractKept` is about every book, and the operator may do what he likes: he resets rows
under the worker, so `Walk` is of no use. What is left is `InHand`: a row that is open in the
worker's view is open in the table, since nobody but the worker finishes or parks one,
and a reset makes it no less open; the exception is a download that has just ended, whose
view is refreshed by the wake-up. The stage that runs has an open row. So a stage is begun
from an open row whatever the worker has missed.

`SchedulerProofs` proves of `Scheduler`, for any finite set of books and of threads, any
of which may hang, and any phases:

| Theorem | Statement |
|---|---|
| `TypeCorrect` | `Spec => []TypeOK` |
| `ClaimsAreKept` | `Spec => []InFlightIsHeld` |
| `Exclusion` | `Spec => []OneHolder` |
| `KeepsTurns` | `Spec => Turns!Safety` |

That `order` stays an order of all books is a lemma about `Touched`. `InFlightIsHeld` and
`OneHolder` are inductive together with the types (`Held`) and not apart: a claim is granted
because the book is not in `_in_flight`, which excludes other hands because `_in_flight` is all
of them, of the hands that have a claim. A failed start adds an item without one and gives the
claim back, so both go on holding, and so does the refinement. The refinement follows: at most
one thread has a book, so the cardinality in the mapping is 0 or 1, and a step of the scheduler
adds one book to those that are advanced, takes one away, stops, or stutters. The fairness of
`BookTurns` is left to TLC.

`AcquireProofs` proves of `Acquire`, for any number of releases and any bounds:

| Theorem | Statement |
|---|---|
| `TypeCorrect` | `Spec => []TypeOK` |
| `KeepsDownloads` | `Spec => HoldsOn` |
| `GivesUpRightly` | `Spec => []GivesUpForCause` |
| `DownloadsOnce` | `Spec => []OneDownload` |
| `ContractKept` | `Spec => KeepsContract`: it implements `StageRows` |

The attempts are bounded because each stop spends one at most (`Spent`). A release is let
go of in a step after the one that judged it, so `Gone` carries the judgement over: when
the row is about to be written, nothing that it knows of runs. It rests on the order of
the listing (`RunningIsSeen`). `GivesUpForCause` holds while nothing goes wrong, and the
invariant `Undisturbed` says what is then true of every step: what runs or has come is the
release that was asked for last, it is remembered as soon as the row says that there is a
download, and what was tried has a task. The smallest release not yet tried, which the
choice of a release needs, comes from the well-founded order of the naturals.
`OneDownload` counts downloads against faults and resets. Its invariant `Counted` says who
pays for which: a fault or a reset lets go of at most one download that runs; any other
is the one of the row, or, between the request and `mark_queued`, of the run that asked.
`ContractKept` needs that a run has an open row, which a reset keeps so.

`ShelvingProofs` proves of `Shelving`, for any bounds:

| Theorem | Statement |
|---|---|
| `TypeCorrect` | `Spec => []TypeOK` |
| `RecordHolds` | `Spec => []RecordIsTrue` |
| `StaysOnAShelf` | `Spec => []NeverDropped` |
| `ContractKept` | `Spec => KeepsContract`: it implements `StageRows` |

`Seen` carries an answer of Goodreads from the request to its use: only the run itself and
the reader change the shelves. `Somewhere` says that the book is on no shelf only between
the destroyed review and the second add, and that the shelf it is then added to exists.

`NotebookProofs` proves of `Notebook`, for pages of any size, any number of earlier copies
and any bounds:

| Theorem | Statement |
|---|---|
| `TypeCorrect` | `Spec => []TypeOK` |
| `AddsOnce` | `Spec => AddedOnce` |
| `RecordedIsThere` | `Spec => []RecordIsTrue` |
| `UsedIsSpared` | `Spec => SparesTheUsed` |
| `ContractKept` | `Spec => KeepsContract`: it implements `StageRows` |

`Seen` is why a walk of a list that shifts misses nothing: while it has found no copy, every
copy has at least as many sources before it as were read. Sources that are added push
copies back; the repair, which moves them forward, deletes copies only, and each of those had
its own place behind what was read. That a page which is not full is the last one is a lemma
about counting (`Full`): if a source has `hi` others before it, each of the first `hi` places is
taken. The other two say more: the oldest copy is never deleted, and is what everybody takes.
Not quite, since the repair may delete a copy that the walk has found, and so move the oldest
to a page that was read. `Missed` says what is then left: the walk holds a deleted copy, and
every older one but the oldest is one that the repair failed to delete (`Passed`).

`RefileProofs` proves of `Refile`, for any categories, folders and bounds:

| Theorem | Statement |
|---|---|
| `TypeCorrect` | `Spec => []TypeOK` |
| `NeverCopied` | `Spec => []OneCopy` |
| `RecordsAgree` | `Spec => []Agrees` |
| `ServicesAreTold` | `Spec => []Serviced` |

What a command decides from the disk and the record is one lemma, `PlanDecides`; the
invariants know of a plan only that. `Agrees` is about the end of a command, and needs
the middle of one: `WholeCommands` says where the record and the file are at each step
of a command while none was interrupted. `CutCommands` says it of interrupted ones: what
they leave is a book half way to the one new folder (`HalfWay`), which the next run takes
up. That is true of one new folder and not of two, hence `Resumable`. `Announced` carries
what the services were told from the plan, which knows whether the path will change, to
the reset at the end.

**Assumptions.** Those that the modules state of their constants, and no others: the times
are natural numbers with a first cooldown between 1 and the cap, thresholds, attempts and
memory are positive, bounds are natural numbers, `None` is not a book, books and threads are
finitely many, and `SettleAssumption`: a result is settled sooner than the first cooldown
ends. TLC evaluates them in every run.

**Only model-checked.** Liveness (`HeldBooksReturn`, `Settles`, `LostIsParked`, `PutRight`, and
the fairness that `TakesTurns` has beyond `KeepsTurns`), which is beyond the prover, as is
anything that needs ENABLED. Every other property of a passing run
is a theorem, those of `Pipeline` under the condition its table names.

## Not modelled

* What the clients make of HTTP answers, the scores by which a genre or a release is
  chosen, and the matching of names (`app/clients`, `app/genres.py`, most of
  `app/pathing.py`): calculations over text, without state. The models say whether a book
  or file is recognised, never why.
* `discover`: it inserts books and refreshes their data, one statement each.
* Sign-in and sessions (`app/auth.py`): a table of counts under a lock and an epoch that is
  compared; it touches nothing of the pipeline. One hazard of it is listed.
* The Goodreads login window (`app/login.py`): one browser under a lock, driven by a person.
* The timed health checks (`app/health.py`), configuration, credentials and permissions:
  read once, or written whole by one request at a time.
* `cli audit`, `rename`, `report`, `users`: they print, rename folders by the tags of their
  files, or write one row.
* Pages, logs, headlines, generated data (`app/static`, `app/version_data.py`): nothing
  reads them back.
