------------------------------ MODULE Scheduler ------------------------------
(***************************************************************************)
(* The sweeps of Scheduler (app/pipeline.py) over many books: the periodic *)
(* phases, the list served least recently touched first, the claims in     *)
(* _in_flight, the pool of workers that outlives a sweep, its budget of    *)
(* time, and stop().  What a worker does with its book is left to Breaker  *)
(* and Pipeline; here it may run stages, which takes time and stamps the   *)
(* book, or find nothing to run, which does neither.                       *)
(*                                                                         *)
(* Time is what a sweep makes of it: within the reserve of the phases,     *)
(* past it, past the budget, past twice the budget.  It passes in a phase, *)
(* and while the sweep waits for workers that have something to do.        *)
(*                                                                         *)
(* A submit that fails to start a thread has queued its work item already  *)
(* (ThreadPoolExecutor puts it into the queue first).  _sweep takes the    *)
(* future for one that was never created, and gives the claim back: the    *)
(* item will be run without one.                                           *)
(***************************************************************************)
EXTENDS Integers, Sequences, FiniteSets, Functions

CONSTANTS
  Book,
  Thread,    \* the workers of the pool: ADVANCE_WORKERS of them
  Hanging,   \* those of them whose stage may never come back
  Phases,    \* the periodic phases in the order _sweep takes them
  Rest,      \* sweeps that begin before a phase that has run is due again
  MaxOdd     \* bound: sweeps that the operator asks for, and submits that
             \* fail to start a thread

ASSUME PoolAssumption ==
  /\ IsFiniteSet(Book)
  /\ Thread # {} /\ IsFiniteSet(Thread) /\ Hanging \subseteq Thread

ASSUME PhaseAssumption ==
  /\ Phases \in Seq(STRING)
  /\ Rest \in [Range(Phases) -> Nat \ {0}]
  /\ MaxOdd \in Nat

VARIABLES
  order,     \* the books by _last_touched
  due,       \* phases whose interval is over
  rest,      \* sweeps before a phase can be due
  sweep,     \* the sweep that holds _sweep_lock
  inFlight,  \* _in_flight
  queue,     \* work items of the pool that no thread has taken
  thread,    \* what each worker does
  started,   \* the workers that the pool has started
  shut,      \* the pool that the sweep holds is shut down
  stopped,   \* stop() has been called
  forced,    \* sweeps that the operator has asked for
  failed     \* submits that have failed to start a thread

pool == <<queue, thread, started>>
phases == <<due, rest>>
ended == <<shut, stopped>>
bounds == <<forced, failed>>
vars == <<order, phases, sweep, inFlight, pool, ended, bounds>>

-----------------------------------------------------------------------------
(* What remains of the budget.                                             *)
InReserve == 0  \* more than _PHASE_RESERVE_SECONDS
Short == 1      \* less
Over == 2       \* past SWEEP_BUDGET_SECONDS
Twice == 3      \* past twice that
Clock == InReserve..Twice

None == "none"

AtRest == [pc |-> "idle", at |-> 1, list |-> <<>>, book |-> None,
           pending |-> {}, cancelled |-> {}, time |-> InReserve]

Idle == [pc |-> "idle", book |-> None, claimed |-> FALSE]

(* A work item of the pool, and whether there is a claim behind it.          *)
Item(b, claim) == [book |-> b, claimed |-> claim]

(* The books that the pool has by their claims: waiting for a thread, or     *)
(* with one.                                                                 *)
Working(t) == thread[t].claimed /\ thread[t].pc \in {"begun", "busy"}
Waiting == {i.book : i \in {j \in Range(queue) : j.claimed}}
Advancing == {thread[t].book : t \in {u \in Thread : Working(u)}}
Ending == {thread[t].book : t \in {u \in Thread : thread[u].pc = "done"}}

(* A mutant: the book keeps its old place as well.                           *)
Again(b) == Append(order, b)

(* A mutant: the oldest stamp of a book never changes.                       *)
OldestStamp(b) == order

(* A worker stamps its book: it goes to the end.  _last_touched takes the    *)
(* latest stamp of a book.                                                   *)
Touched(b) ==
  LET at == CHOOSE i \in DOMAIN order : order[i] = b
  IN  [i \in DOMAIN order |-> IF i < at THEN order[i]
                              ELSE IF i < Cardinality(Book) THEN order[i + 1] ELSE b]

-----------------------------------------------------------------------------
(* The phases.                                                             *)

(* sweep(): by _loop, or with force_discover by POST /api/sweep.  A sweep    *)
(* that finds the lock taken changes nothing.                                *)
BeginSweep(force) ==
  /\ sweep.pc = "idle"
  /\ IF force THEN forced + failed < MaxOdd /\ forced' = forced + 1
     ELSE ~stopped /\ UNCHANGED forced
  /\ UNCHANGED failed
  /\ IF force THEN due' = Range(Phases)
     ELSE \E more \in SUBSET {p \in Range(Phases) : rest[p] = 0} : due' = due \cup more
  /\ rest' = [p \in Range(Phases) |-> IF rest[p] > 0 THEN rest[p] - 1 ELSE 0]
  /\ sweep' = [AtRest EXCEPT !.pc = "phase"]
  /\ UNCHANGED <<order, inFlight, pool, ended>>

AtPhase == sweep.pc = "phase" /\ sweep.at <= Len(Phases)

(* A mutant: the timer of a phase is not set when it runs.                   *)
ForgetsTimer(p) == UNCHANGED phases

(* The timer of a phase is set when it starts.                               *)
SetTimer(p) == due' = due \ {p} /\ rest' = [rest EXCEPT ![p] = Rest[p]]

(* take_phase grants: the phase runs for as long as it likes.                *)
RunPhase ==
  /\ AtPhase /\ Phases[sweep.at] \in due /\ sweep.time = InReserve
  /\ SetTimer(Phases[sweep.at])
  /\ \E now \in InReserve..Over : sweep' = [sweep EXCEPT !.at = @ + 1, !.time = now]
  /\ UNCHANGED <<order, inFlight, pool, ended, bounds>>

(* It is not due, or it is skipped and stays due.                            *)
SkipPhase ==
  /\ AtPhase /\ (Phases[sweep.at] \notin due \/ sweep.time # InReserve)
  /\ sweep' = [sweep EXCEPT !.at = @ + 1]
  /\ UNCHANGED <<order, phases, inFlight, pool, ended, bounds>>

(* list_books, sorted, and the pool: a new one if stop() has taken the old,  *)
(* whose workers end with what they are at.                                  *)
(* The reserve of the phases means nothing from here on.                     *)
List ==
  /\ sweep.pc = "phase" /\ sweep.at > Len(Phases)
  /\ sweep' = [sweep EXCEPT !.pc = "fill", !.list = order,
                           !.time = IF @ = Over THEN Over ELSE InReserve]
  /\ shut' = FALSE
  /\ started' = IF shut THEN {t \in Thread : thread[t] # Idle} ELSE started
  /\ UNCHANGED <<order, phases, inFlight, queue, thread, stopped, bounds>>

-----------------------------------------------------------------------------
(* The books.                                                              *)

Fillable ==
  sweep.time < Over /\ Cardinality(sweep.pending) < Cardinality(Thread) /\ sweep.list # <<>>

(* A mutant: who has the book is not looked at.                              *)
AlwaysGranted(b) == sweep' = [sweep EXCEPT !.pc = "claimed", !.book = b, !.list = Tail(@)]
                    /\ inFlight' = inFlight \cup {b}

(* _claim: a book that a worker of an earlier sweep still has is passed over.*)
Claim(b) ==
  IF b \in inFlight
  THEN sweep' = [sweep EXCEPT !.list = Tail(@)] /\ UNCHANGED inFlight
  ELSE /\ sweep' = [sweep EXCEPT !.pc = "claimed", !.book = b, !.list = Tail(@)]
       /\ inFlight' = inFlight \cup {b}

Take ==
  /\ sweep.pc = "fill" /\ Fillable
  /\ Claim(Head(sweep.list))
  /\ UNCHANGED <<order, phases, pool, ended, bounds>>

(* The pool starts a worker for a work item, unless there is one waiting for *)
(* it, or there are all.                                                     *)
NeedsWorker ==
  /\ started # Thread
  /\ Cardinality({t \in started : thread[t] = Idle}) <= Len(queue)

(* The work item goes to the pool, and the future gets its callback, which   *)
(* is called at once if the worker has been quicker.                         *)
Submit ==
  /\ sweep.pc = "claimed" /\ ~shut
  /\ IF NeedsWorker THEN \E t \in Thread \ started : started' = started \cup {t}
     ELSE UNCHANGED started
  /\ queue' = Append(queue, Item(sweep.book, TRUE))
  /\ sweep' = [sweep EXCEPT !.pc = "fill", !.book = None, !.pending = @ \cup {sweep.book}]
  /\ UNCHANGED <<order, phases, inFlight, thread, ended, bounds>>

(* A mutant: the sweep raises, and nobody gives the book back.               *)
JustRaise == sweep' = AtRest /\ UNCHANGED inFlight

(* The book is given back by hand, and the sweep raises.                     *)
GiveBack == inFlight' = inFlight \ {sweep.book} /\ sweep' = AtRest

(* submit refuses: the pool is shut down.                                    *)
SubmitRefused ==
  /\ sweep.pc = "claimed" /\ shut
  /\ GiveBack
  /\ UNCHANGED <<order, phases, pool, ended, bounds>>

(* submit fails to start a worker: the work item stays behind, without a     *)
(* claim, for any worker that comes to it.                                   *)
StartFails ==
  /\ sweep.pc = "claimed" /\ ~shut /\ NeedsWorker
  /\ forced + failed < MaxOdd /\ failed' = failed + 1
  /\ queue' = Append(queue, Item(sweep.book, FALSE))
  /\ GiveBack
  /\ UNCHANGED <<order, phases, thread, started, ended, forced>>

(* Nothing more can be submitted for now: nothing is left to wait for, or    *)
(* the sweep waits.                                                          *)
End ==
  /\ sweep.pc = "fill" /\ ~Fillable /\ sweep.pending = {}
  /\ sweep' = AtRest
  /\ UNCHANGED <<order, phases, inFlight, pool, ended, bounds>>

Waits == sweep.pc = "fill" /\ ~Fillable /\ sweep.pending # {}

(* wait() does not take a cancelled future for one that is done.             *)
Done == sweep.pending \ (Waiting \cup Advancing \cup sweep.cancelled)

(* The loop goes on, ends, or leaves what is still running to the pool.      *)
GoOn(pending, now) ==
  sweep' = IF now = Twice \/ (now = Over /\ pending = {}) THEN AtRest
           ELSE [sweep EXCEPT !.pending = pending, !.time = now]

Collect ==
  /\ Waits /\ Done # {}
  /\ GoOn(sweep.pending \ Done, sweep.time)
  /\ UNCHANGED <<order, phases, inFlight, pool, ended, bounds>>

(* Nothing is left that takes no time.                                       *)
Occupied ==
  /\ \A t \in Thread : thread[t].pc \in {"idle", "busy"}
  /\ queue = <<>> \/ \A t \in started : thread[t].pc = "busy"

(* The wait times out: what remains of the budget, or the second after it,   *)
(* has passed.                                                               *)
Elapse ==
  /\ Waits /\ Done = {} /\ Occupied
  /\ GoOn(sweep.pending, IF sweep.time = Over THEN Twice ELSE Over)
  /\ UNCHANGED <<order, phases, inFlight, pool, ended, bounds>>

-----------------------------------------------------------------------------
(* The workers.                                                            *)

(* A thread takes the next work item and enters _advance.                    *)
Begin(t) ==
  /\ t \in started /\ thread[t] = Idle /\ queue # <<>>
  /\ thread' = [thread EXCEPT ![t] = [pc |-> "begun", book |-> Head(queue).book,
                                      claimed |-> Head(queue).claimed]]
  /\ queue' = Tail(queue)
  /\ UNCHANGED <<order, phases, sweep, inFlight, started, ended, bounds>>

(* _advance has something to run: mark_running.                              *)
Work(t) ==
  /\ thread[t].pc = "begun"
  /\ thread' = [thread EXCEPT ![t].pc = "busy"]
  /\ order' = Touched(thread[t].book)
  /\ UNCHANGED <<phases, sweep, inFlight, queue, started, ended, bounds>>

(* The future is done, its callback still to come.  The future of a submit   *)
(* that failed has none.                                                     *)
Ends(t) ==
  thread' = [thread EXCEPT ![t] = IF @.claimed THEN [@ EXCEPT !.pc = "done"] ELSE Idle]

(* Everything the book has is finished, parked, held or waiting.             *)
NothingToRun(t) ==
  /\ thread[t].pc = "begun"
  /\ Ends(t)
  /\ UNCHANGED <<order, phases, sweep, inFlight, queue, started, ended, bounds>>

(* mark_done of the last stage that ran.                                     *)
Finish(t) ==
  /\ thread[t].pc = "busy"
  /\ Ends(t)
  /\ order' = Touched(thread[t].book)
  /\ UNCHANGED <<phases, sweep, inFlight, queue, started, ended, bounds>>

(* The callback: _release; and the thread is free.                           *)
Release(t) ==
  /\ thread[t].pc = "done"
  /\ inFlight' = inFlight \ {thread[t].book}
  /\ thread' = [thread EXCEPT ![t] = Idle]
  /\ UNCHANGED <<order, phases, sweep, queue, started, ended, bounds>>

-----------------------------------------------------------------------------
(* A mutant: what was queued is forgotten, not cancelled.                    *)
Forgotten == inFlight

(* The callbacks of cancelled futures release their books.                   *)
Cancelled == inFlight \ Waiting

(* stop(): the pool drops what it has queued; its threads and the sweep, if  *)
(* they take longer than stop() waits, go on.                                *)
Stop ==
  /\ ~stopped /\ stopped' = TRUE
  /\ shut' = TRUE
  /\ inFlight' = Cancelled
  /\ queue' = <<>>
  /\ sweep' = [sweep EXCEPT !.cancelled = Waiting \cap sweep.pending]
  /\ UNCHANGED <<order, phases, thread, started, bounds>>

Init ==
  /\ order \in [1..Cardinality(Book) -> Book] /\ Range(order) = Book
  /\ due = Range(Phases) /\ rest = [p \in Range(Phases) |-> 0]
  /\ sweep = AtRest
  /\ inFlight = {}
  /\ queue = <<>> /\ thread = [t \in Thread |-> Idle] /\ started = {}
  /\ shut = FALSE /\ stopped = FALSE
  /\ forced = 0 /\ failed = 0

SweepStep ==
  \/ BeginSweep(FALSE) \/ RunPhase \/ SkipPhase \/ List
  \/ Take \/ Submit \/ SubmitRefused \/ StartFails
  \/ End \/ Collect \/ Elapse

WorkerStep(t) == Begin(t) \/ Work(t) \/ NothingToRun(t) \/ Finish(t) \/ Release(t)

Next == SweepStep \/ (\E t \in Thread : WorkerStep(t)) \/ BeginSweep(TRUE) \/ Stop

Spec == Init /\ [][Next]_vars

(* The loop of the sweep goes on, and so does every worker, but one that     *)
(* hangs in a stage.                                                         *)
Fairness ==
  /\ WF_vars(SweepStep)
  /\ \A t \in Thread \ Hanging : WF_vars(WorkerStep(t))
  /\ \A t \in Hanging : WF_vars(Begin(t) \/ Work(t) \/ NothingToRun(t) \/ Release(t))

FairSpec == Spec /\ Fairness

-----------------------------------------------------------------------------
Sweeps ==
  [pc : {"idle", "phase", "fill", "claimed"}, at : 1..Len(Phases) + 1,
   list : Seq(Book), book : Book \cup {None},
   pending : SUBSET Book, cancelled : SUBSET Book, time : Clock]

Items == [book : Book, claimed : BOOLEAN]

Taken == [pc : {"begun", "busy", "done"}, book : Book, claimed : BOOLEAN]

(* The variables have these types: the order is one of all books, and every  *)
(* work item and every worker has one of them.                               *)
TypeOK ==
  /\ order \in [1..Cardinality(Book) -> Book] /\ Range(order) = Book
  /\ due \subseteq Range(Phases)
  /\ rest \in [Range(Phases) -> Nat] /\ \A p \in Range(Phases) : rest[p] <= Rest[p]
  /\ sweep \in Sweeps
  /\ sweep.pc = "claimed" => sweep.book \in Book
  /\ inFlight \subseteq Book
  /\ queue \in Seq(Items)
  /\ thread \in [Thread -> {Idle} \cup Taken]
  /\ \A t \in Thread : thread[t].pc = "done" => thread[t].claimed
  /\ started \subseteq Thread
  /\ shut \in BOOLEAN /\ stopped \in BOOLEAN
  /\ forced \in 0..MaxOdd /\ failed \in 0..MaxOdd

(* The book that the sweep has claimed and not yet handed over.              *)
InHand == IF sweep.pc = "claimed" THEN {sweep.book} ELSE {}

(* _in_flight holds exactly the books that are in somebody's hands by their  *)
(* claims: of the sweep, the pool's queue, a worker, or a callback about to  *)
(* run.  A book left in it would never be swept again, one missing would be  *)
(* run twice.  The one that a failed submit has queued is missing.           *)
InFlightIsHeld == inFlight = InHand \cup Waiting \cup Advancing \cup Ending

(* No submit has left a work item behind without its claim.                  *)
AllClaimed ==
  /\ \A i \in DOMAIN queue : queue[i].claimed
  /\ \A t \in Thread : thread[t].pc # "idle" => thread[t].claimed

(* By its claim a book is in one pair of hands: claimed by the sweep, queued *)
(* once, or with one worker, whatever sweeps gave up on it, refused it or    *)
(* were cut short.  It is in other hands only once a submit has failed to    *)
(* start a thread.                                                           *)
OneHolder ==
  /\ \A i, j \in DOMAIN queue :
       i # j /\ queue[i].claimed /\ queue[j].claimed => queue[i].book # queue[j].book
  /\ \A t, u \in Thread :
       thread[t].claimed /\ thread[u].claimed /\ t # u => thread[t].book # thread[u].book
  /\ Waiting \cap (Advancing \cup Ending) = {}
  /\ InHand \cap (Waiting \cup Advancing \cup Ending) = {}
  /\ failed = 0 => AllClaimed

Turns == INSTANCE BookTurns WITH
  turn <- [b \in Book |-> Cardinality({t \in Thread : Working(t) /\ thread[t].book = b})],
  closed <- stopped

(* What the scheduler promises: by their claims no book is advanced by two   *)
(* workers, and none is left out for good -- a sweep ends although a worker  *)
(* hangs, a phase overruns or a submit raises, and the rotation by           *)
(* _last_touched gives each book its turn.                                   *)
TakesTurns == Turns!Spec
=============================================================================
