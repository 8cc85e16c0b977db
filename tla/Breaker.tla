------------------------------- MODULE Breaker -------------------------------
(***************************************************************************)
(* The per-service circuit breaker of app/breaker.py together with the     *)
(* part of Scheduler._advance (app/pipeline.py) that drives it.            *)
(*                                                                         *)
(* One service and one service-gated stage per book.  Every operation of   *)
(* the breaker is one step, because the code runs it under breaker._LOCK,  *)
(* but for adopt_backlog, which reads the rows before it takes the lock;   *)
(* a worker advancing a book is a sequence of such steps, and everything   *)
(* between two of them may interleave with the other workers, the sweep,   *)
(* the operator, the clock and a crash of the process.                     *)
(*                                                                         *)
(* Time is kept as ages and remaining waits, one unit a Tick, so that a    *)
(* timestamp column never grows: "wait" is open_until minus now, cut off   *)
(* at 0, and an age stops growing one past the limit it is compared with.  *)
(* A run of a stage is many calls and may take any time: a walk of Open    *)
(* Notebook's sources alone is minutes (clients/opennotebook.py:85-95).    *)
(***************************************************************************)
EXTENDS Integers, FiniteSets

CONSTANTS
  Book,         \* the books; each has one stage gated by the service
  None,         \* no book
  Threshold,    \* FAILURE_THRESHOLD
  CoolBase,     \* COOLDOWN_BASE_SECONDS
  CoolMax,      \* COOLDOWN_MAX_SECONDS
  ProbeStale,   \* PROBE_STALE_SECONDS
  Window,       \* FAILURE_WINDOW_SECONDS
  Grace,        \* TRANSIENT_GRACE_HOURS, the same 24h as MAX_TRANSIENT_HOURS
  MaxAttempts,  \* MAX_ATTEMPTS of the stage
  MaxSettle,    \* the longest it takes to record and settle a result, once it is there
  Outcomes,     \* what one run of that stage may come back with, see Results
  Weather,      \* the values `healthy` may take: BOOLEAN, or {FALSE} to keep to trouble
  Restarts,     \* whether the process may be restarted
  MaxActs       \* bound: the operator's retries and clears in a behaviour

ASSUME BookAssumption == None \notin Book

ASSUME TimeAssumption ==
  /\ CoolBase \in Nat /\ CoolMax \in Nat /\ ProbeStale \in Nat
  /\ Window \in Nat /\ Grace \in Nat
  /\ 0 < CoolBase /\ CoolBase <= CoolMax /\ 0 < Grace

(* Once a run has its result no request is made any more: what is left are   *)
(* statements on the local database, and waiting for _LOCK, under which      *)
(* nothing else is done either.  The shortest cooldown is 300s.              *)
ASSUME SettleAssumption == MaxSettle \in Nat /\ MaxSettle < CoolBase

ASSUME CountAssumption ==
  /\ Threshold \in Nat /\ 0 < Threshold
  /\ MaxAttempts \in Nat /\ 0 < MaxAttempts
  /\ MaxActs \in Nat

ASSUME OutcomeAssumption ==
  Outcomes \subseteq {"ok", "nothing", "waiting", "unasked", "skipped", "unreached",
                    "local", "unnamed", "failed", "forgiven"}

ASSUME WeatherAssumption ==
  Weather \subseteq BOOLEAN /\ Weather # {} /\ Restarts \in BOOLEAN

VARIABLES
  brk,        \* the service_breaker row
  row,        \* the book's stage_runs row
  worker,     \* the thread in _advance for the book, if any
  snapshot,   \* the running sweep's `holding` snapshot for the service
  backlog,    \* adopt_backlog has read failed rows enough, and has yet to trip on them
  healthy,    \* environment: the service answers, and the local disk has room
  acts        \* what the operator has done so far: retries and clears

vars == <<brk, row, worker, snapshot, backlog, healthy, acts>>

Smaller(a, b) == IF a < b THEN a ELSE b
Larger(a, b) == IF a < b THEN b ELSE a

-----------------------------------------------------------------------------
(* The breaker's row and the functions on it.                              *)

States == {"closed", "open", "half_open"}

(* `backoff` is cooldown(trips), 0 while trips is 0: the code only ever       *)
(* increments trips (doubling the cooldown) or sets it to 0.                  *)
Breakers == [state: States, failures: 0 .. Threshold - 1, gap: 0 .. Window + 1,
             backoff: 0 .. CoolMax, wait: 0 .. CoolMax,
             probe: Book \cup {None}, probeAge: 0 .. ProbeStale + 1]

ClosedBreaker == [state |-> "closed", failures |-> 0, gap |-> 0, backoff |-> 0,
                  wait |-> 0, probe |-> None, probeAge |-> 0]

(* effective_state: the open -> half-open flip is on the clock.              *)
EffectiveState(k) ==
  IF k.state = "open" /\ k.wait = 0 THEN "half_open" ELSE k.state

Holds(k) == EffectiveState(k) # "closed"

(* A mutant: the claim left by an abandoned probe is never given up.         *)
KeepsStaleClaim(k) ==
  IF k.state = "open" /\ k.wait = 0
  THEN [k EXCEPT !.state = "half_open", !.probe = None, !.probeAge = 0]
  ELSE k

(* _refresh_locked: the two moves the clock makes, written when one fired.   *)
Refreshed(k) ==
  IF k.state = "open" /\ k.wait = 0
  THEN [k EXCEPT !.state = "half_open", !.probe = None, !.probeAge = 0]
  ELSE IF k.state = "half_open" /\ k.probe # None /\ k.probeAge > ProbeStale
       THEN [k EXCEPT !.probe = None, !.probeAge = 0]
       ELSE k

NextBackoff(k) ==
  IF k.backoff = 0 THEN CoolBase ELSE Smaller(2 * k.backoff, CoolMax)

(* A mutant: what the service asks for is obeyed, however long.              *)
UncappedWaits(k) == {Larger(NextBackoff(k), asked) : asked \in 0 .. CoolMax + 1}

(* wait_seconds: Retry-After wins over the backoff, the cap over both.       *)
WaitTimes(k) ==
  {Smaller(Larger(NextBackoff(k), asked), CoolMax) : asked \in 0 .. CoolMax + 1}

(* _trip and _reopen; the trip also zeroes the streak, which in half_open is *)
(* zero already.                                                             *)
Opened(k, w) ==
  [state |-> "open", failures |-> 0, gap |-> 0, backoff |-> NextBackoff(k),
   wait |-> w, probe |-> None, probeAge |-> 0]

(* A streak is a chain of failures each within Window of the one before.     *)
NextStreak(k) == IF k.failures > 0 /\ k.gap <= Window THEN k.failures + 1 ELSE 1

Trips(k) == k.state = "closed" /\ NextStreak(k) >= Threshold

-----------------------------------------------------------------------------
(* The book's stage row.                                                   *)

NoClock == -1   \* transient_since is NULL

(* One word for status, failure_kind, service and held_by:                   *)
(*   failed     failed, for a reason that is the book's                      *)
(*   transient  failed with a kind in TRANSIENT_KINDS, naming the service    *)
(*   blocked    blocked, naming no service                                   *)
(*   forgiven   blocked, naming the service, held_by empty                   *)
(*   held       blocked, held_by the service                                 *)
(* A row that is running keeps service and held_by; `wasHeld` is held_by.    *)
Statuses == {"pending", "running", "ok", "failed", "transient", "blocked",
             "forgiven", "held"}

Rows == [status: Statuses, wasHeld: BOOLEAN, attempts: 0 .. MaxAttempts,
         clock: NoClock .. Grace]

FreshRow == [status |-> "pending", wasHeld |-> FALSE, attempts |-> 0,
             clock |-> NoClock]

(* mark_held and hold_rows write the same hold.                              *)
HeldRow == [status |-> "held", wasHeld |-> TRUE, attempts |-> 0,
            clock |-> NoClock]

Parked(r) == r.status \in {"failed", "transient"} /\ r.attempts >= MaxAttempts

Runnable(r) == r.status # "ok" /\ ~Parked(r)

(* Only the attempts of a row that has failed are looked at, and compared    *)
(* with MaxAttempts only.  A run counts them up before it fails, so that     *)
(* every count from there on may be written as MaxAttempts.                  *)
RunningRow(r) == [r EXCEPT !.status = "running",
                           !.attempts = Smaller(@ + 1, MaxAttempts)]

(* bump_transient: the clock starts at the first forgiven fault only.        *)
Bumped(r) == IF r.clock = NoClock THEN [r EXCEPT !.clock = 0] ELSE r

(* A mutant: the trip leaves the rows that have failed already.              *)
ReclaimsNothing(rows) == rows

(* reclaim: the failures this outage explains become holds.  The SELECT and  *)
(* the UPDATE of the rows it found are one step here.                        *)
Reclaimed(rows) ==
  [b \in Book |-> IF rows[b].status = "transient" THEN HeldRow ELSE rows[b]]

(* clear_transient_for_service: every row held or forgiven for the service.  *)
ClocksCleared(rows) ==
  [b \in Book |-> IF rows[b].wasHeld \/ rows[b].status = "forgiven"
                  THEN [rows[b] EXCEPT !.clock = NoClock] ELSE rows[b]]

-----------------------------------------------------------------------------
(* The worker that advances a book.                                        *)

(* What one run of the stage comes back with:                                *)
(*   ok        the stage succeeded, naming the service                       *)
(*   nothing   a failure the service's answer explains (data+answered, auth) *)
(*   waiting   blocked on work the service has accepted                      *)
(*   unasked   blocked for a reason of ours, with nothing asked: shelve      *)
(*             switched off, or a download under way                         *)
(*   skipped   nothing to do, nothing asked: shelve with no file             *)
(*   unreached blocked, naming the service: shelve's request got no answer,  *)
(*             or a 429                                                      *)
(*   local     a failure of ours before the service was asked (free space),  *)
(*             or a stage's own exception                                    *)
(*   failed    a transient failure naming the service                        *)
(*   unnamed   a transient failure that names no service: notebook's source  *)
(*             that is not attached                                          *)
(*   forgiven  acquire's own 24h grace: blocked, naming the service          *)
(*   hold      breaker.hold: blocked, held_by the service                    *)
Answers == {"ok", "nothing", "waiting"}
Unasked == {"unasked", "skipped", "unreached"}
Results == Answers \cup Unasked \cup {"local", "failed", "unnamed", "forgiven", "hold"}

(* Where _advance is with this book, in the order it gets there.             *)
Phases == {"idle", "ready", "refused", "run", "error", "record", "check",
           "done", "settle", "forgive"}

(* Phases in which a result is there and not settled yet.                    *)
Settling == {"error", "record", "check", "done", "settle"}

Active == Settling \cup {"run"}

(* `probe` is the variable of that name in _advance: "none" is the empty     *)
(* string, the others the service -- "passed" when claim_probe found the     *)
(* breaker closed, "claimed" when it gave out the probe, "again" when the    *)
(* book asked for the probe it had claimed before a restart.                 *)
Probes == {"none", "passed", "claimed", "again"}

(* What the sweep that submitted the book saw: "free" when its snapshot did  *)
(* not hold the service, "noted" when it did and the row was held already,   *)
(* "holding" when it did and the row was not.                                *)
Views == {"free", "holding", "noted"}

(* A claim is given up once it is stale, and after a trip or a reopening the *)
(* next probe is at least CoolBase away: a run that took longer than either  *)
(* may meet the probe of another book.                                       *)
Overdue == Smaller(CoolBase, ProbeStale + 1)

(* `age` is how long ago the gate let the book through, if it had to ask;    *)
(* `late` is how long the result has been there.                             *)
Workers == [pc: Phases, saw: Views, probe: Probes, res: Results,
            age: 0 .. Overdue, late: 0 .. MaxSettle]

Idle == [pc |-> "idle", saw |-> "free", probe |-> "none", res |-> "ok",
         age |-> 0, late |-> 0]

At(b, phase) == worker[b].pc = phase

GoTo(b, phase) == worker' = [worker EXCEPT ![b].pc = phase]

(* The book runs on a claim that is not overdue.                             *)
Trying(b) ==
  /\ worker[b].pc \in Active /\ worker[b].probe = "claimed"
  /\ worker[b].age < Overdue

(* A mutant: everything but a transient failure or a hold is an answer, the  *)
(* verdict that probe_verdict's docstring says it replaced.                  *)
AnyOutcome(res) == res \notin {"failed", "unnamed", "hold"}

(* probe_verdict: whether a half-open breaker closes on the result.          *)
(* `refused` is the result "hold"; every other blocked result counts, and a  *)
(* skipped one, whether or not the service was asked.                        *)
Verdict(res) == res \in Answers \cup Unasked \cup {"forgiven"}

-----------------------------------------------------------------------------
(* Operations of the breaker, each one step under breaker._LOCK.  They bind  *)
(* brk' and row'; `rows` is the row function the caller has come to.         *)

(* A mutant: a failure while the service is held starts the cooldown anew.   *)
RecordExtends(rows) ==
  LET k == Refreshed(brk) IN
  IF k.state # "closed" \/ Trips(k)
  THEN \E w \in WaitTimes(k) : brk' = Opened(k, w) /\ row' = Reclaimed(rows)
  ELSE /\ brk' = [k EXCEPT !.failures = NextStreak(k), !.gap = 0]
       /\ row' = rows

(* A mutant: any failure while the service is held only keeps its message.   *)
RecordOverlooksProbe(rows) ==
  LET k == Refreshed(brk) IN
  IF Trips(k)
  THEN \E w \in WaitTimes(k) : brk' = Opened(k, w) /\ row' = Reclaimed(rows)
  ELSE /\ brk' = IF k.state = "closed"
                 THEN [k EXCEPT !.failures = NextStreak(k), !.gap = 0] ELSE k
       /\ row' = rows

(* record_failure                                                            *)
RecordFailure(rows) ==
  LET k == Refreshed(brk) IN
  \/ /\ k.state = "open"                    \* the same outage: message only
     /\ brk' = k /\ row' = rows
  \/ /\ k.state = "half_open"               \* _reopen
     /\ \E w \in WaitTimes(k) : brk' = Opened(k, w)
     /\ row' = rows
  \/ /\ Trips(k)                            \* _trip
     /\ \E w \in WaitTimes(k) : brk' = Opened(k, w)
     /\ row' = Reclaimed(rows)
  \/ /\ k.state = "closed" /\ ~Trips(k)
     /\ brk' = [k EXCEPT !.failures = NextStreak(k), !.gap = 0]
     /\ row' = rows

(* _close and the same two writes in clear.                                  *)
Close == brk' = ClosedBreaker /\ row' = ClocksCleared(row)

(* record_success: reads the row without the lazy moves.                     *)
RecordSuccess ==
  IF brk.state = "closed"
  THEN brk' = ClosedBreaker /\ UNCHANGED row
  ELSE Close

(* resolve_probe, with the breaker as it is, whoever claimed the probe.      *)
ResolveProbe(res) ==
  LET k == Refreshed(brk) IN
  \/ k.state # "half_open" /\ brk' = k /\ UNCHANGED row
  \/ k.state = "half_open" /\ Verdict(res) /\ Close
  \/ /\ k.state = "half_open" /\ ~Verdict(res)
     /\ \E w \in WaitTimes(k) : brk' = Opened(k, w)
     /\ UNCHANGED row

-----------------------------------------------------------------------------
(* _advance, one book: the gate.                                           *)

(* _sweep takes its snapshot of `holding` before it submits a book, and      *)
(* after adopt_backlog.                                                      *)
TakeSnapshot ==
  /\ ~backlog
  /\ snapshot' = Holds(brk)
  /\ UNCHANGED <<brk, row, worker, backlog, healthy, acts>>

(* The book is submitted with the sweep's snapshot and the rows it listed.   *)
(* The sweep may be over, and another begun, before the worker gets here.    *)
(* Nothing but the book's own worker makes a runnable row ok or parked, so   *)
(* reading the status here is reading it at the gate; that an older worker   *)
(* of the same book may still run when the sweep lists it is left out.       *)
Submit(b) ==
  /\ At(b, "idle") /\ Runnable(row[b])
  /\ worker' = [worker EXCEPT ![b] = [Idle EXCEPT !.pc = "ready",
       !.saw = IF ~snapshot THEN "free"
               ELSE IF row[b].status = "held" THEN "noted" ELSE "holding"]]
  /\ UNCHANGED <<brk, row, snapshot, backlog, healthy, acts>>

RunStage(b, how) ==
  /\ worker' = [worker EXCEPT ![b] = [Idle EXCEPT !.pc = "run", !.probe = how]]
  /\ row' = [row EXCEPT ![b] = RunningRow(@)]

(* The snapshot does not hold the service: mark_running, no gate.            *)
RunUngated(b) ==
  /\ At(b, "ready") /\ worker[b].saw = "free"
  /\ RunStage(b, "none")
  /\ UNCHANGED <<brk, snapshot, backlog, healthy, acts>>

(* A mutant: the probe goes to whoever asks while the breaker is half open.  *)
ClaimsAnyway(b) ==
  LET k == Refreshed(brk) IN
  /\ k.state = "half_open"
  /\ brk' = [k EXCEPT !.probe = b, !.probeAge = 0]
  /\ RunStage(b, "claimed")

(* claim_probe takes the half-open probe.                                    *)
ClaimsFree(b) ==
  LET k == Refreshed(brk) IN
  /\ k.state = "half_open" /\ k.probe = None
  /\ brk' = [k EXCEPT !.probe = b, !.probeAge = 0]
  /\ RunStage(b, "claimed")

(* claim_probe answers True: closed after all, a probe taken now, or the     *)
(* same book asking for its own claim again (probe_at is left as it was).    *)
ClaimGranted(b) ==
  LET k == Refreshed(brk) IN
  /\ At(b, "ready") /\ worker[b].saw # "free"
  /\ \/ k.state = "closed" /\ brk' = k /\ RunStage(b, "passed")
     \/ ClaimsFree(b)
     \/ k.state = "half_open" /\ k.probe = b /\ brk' = k /\ RunStage(b, "again")
  /\ UNCHANGED <<snapshot, backlog, healthy, acts>>

ClaimRefused(b) ==
  LET k == Refreshed(brk) IN
  /\ At(b, "ready") /\ worker[b].saw # "free"
  /\ \/ k.state = "open"
     \/ k.state = "half_open" /\ k.probe \notin {None, b}
  /\ brk' = k
  /\ GoTo(b, "refused")
  /\ UNCHANGED <<row, snapshot, backlog, healthy, acts>>

(* mark_held, unless the row was listed as held by the service already.      *)
MarkHeld(b) ==
  /\ At(b, "refused")
  /\ worker' = [worker EXCEPT ![b] = Idle]
  /\ row' = [row EXCEPT ![b] = IF worker[b].saw = "noted" THEN @ ELSE HeldRow]
  /\ UNCHANGED <<brk, snapshot, backlog, healthy, acts>>

-----------------------------------------------------------------------------
(* _advance, one book: the stage runs and its result is recorded.          *)

Came(b, res, phase) ==
  worker' = [worker EXCEPT ![b].res = res, ![b].pc = phase]

(* mark_done with a blocked result gives the attempt back.                   *)
BlockedRow(r, status) ==
  [r EXCEPT !.status = status, !.wasHeld = status = "held",
            !.attempts = Larger(@ - 1, 0)]

(* Status ok or skipped.  Nothing reads the counters of such a row: only     *)
(* reset_stage runs it again.                                                *)
OkRow == [FreshRow EXCEPT !.status = "ok"]

FinishedRow(r, status) == [r EXCEPT !.status = status, !.wasHeld = FALSE]

DoneRow(r, res) ==
  CASE res \in {"ok", "skipped"}             -> OkRow
    [] res \in {"nothing", "local", "unnamed"} -> FinishedRow(r, "failed")
    [] res = "failed"                        -> FinishedRow(r, "transient")
    [] res \in {"waiting", "unasked"}         -> BlockedRow(r, "blocked")
    [] res \in {"forgiven", "unreached"}      -> BlockedRow(r, "forgiven")
    [] res = "hold"                          -> BlockedRow(r, "held")

(* _forgive_transient is for what failed with a transient kind.              *)
Over(w) ==
  IF w.res \in {"failed", "unnamed"} THEN [Idle EXCEPT !.pc = "forgive"] ELSE Idle

(* mark_done writes the result, `r` being the row the stage has left.        *)
(* Nothing is settled for a run that had no probe and did not end ok.        *)
Marked(b, r, res) ==
  LET w == [worker[b] EXCEPT !.res = res] IN
  /\ row' = [row EXCEPT ![b] = DoneRow(r, res)]
  /\ worker' = [worker EXCEPT ![b] =
       IF w.probe = "none" /\ res # "ok" THEN Over(w) ELSE [w EXCEPT !.pc = "settle"]]

(* The service answers; mark_done follows, with nothing read in between.     *)
(* An empty search also resets the book's clock.                             *)
Answered(b) ==
  /\ At(b, "run")
  /\ \/ \E res \in {"ok", "waiting"} \cap Outcomes : Marked(b, row[b], res)
     \/ \E res \in {"nothing"} \cap Outcomes, c \in {row[b].clock, NoClock} :
          Marked(b, [row[b] EXCEPT !.clock = c], res)
  /\ UNCHANGED <<brk, snapshot, backlog, healthy, acts>>

(* Nothing was asked of the service; the reasons are the book's own.         *)
NotAsked(b) ==
  /\ At(b, "run")
  /\ \E res \in {"unasked", "skipped"} \cap Outcomes : Marked(b, row[b], res)
  /\ UNCHANGED <<brk, snapshot, backlog, healthy, acts>>

(* Only while the environment is in trouble: our own disk refuses the book   *)
(* before the dial, the service is unreachable, or what it did not do names  *)
(* no service.  None of these is recorded.                                   *)
Unserved(b) ==
  /\ At(b, "run") /\ ~healthy
  /\ \E res \in {"local", "unnamed", "unreached"} \cap Outcomes : Marked(b, row[b], res)
  /\ UNCHANGED <<brk, snapshot, backlog, healthy, acts>>

(* A 5xx or 429 in a stage that has a grace of its own, or a transient       *)
(* failure.                                                                  *)
Troubled(b) ==
  /\ At(b, "run") /\ ~healthy
  /\ \/ "forgiven" \in Outcomes /\ GoTo(b, "error")
     \/ "failed" \in Outcomes /\ Came(b, "failed", "record")
  /\ UNCHANGED <<brk, row, snapshot, backlog, healthy, acts>>

(* acquire._run's 5xx branch: a hold if the breaker holds already, else the  *)
(* book's own clock, and a real failure once that has run for Grace.         *)
OwnGrace(b) ==
  /\ At(b, "error")
  /\ IF Holds(brk)
     THEN Came(b, "hold", "record") /\ UNCHANGED row
     ELSE LET r == Bumped(row[b]) IN
          /\ row' = [row EXCEPT ![b] = r]
          /\ Came(b, IF r.clock < Grace THEN "forgiven" ELSE "failed", "record")
  /\ UNCHANGED <<brk, snapshot, backlog, healthy, acts>>

(* The one record_failure of this run.                                       *)
Record(b) ==
  /\ At(b, "record")
  /\ RecordFailure(row)
  /\ GoTo(b, IF worker[b].res = "hold" THEN "done" ELSE "check")
  /\ UNCHANGED <<snapshot, backlog, healthy, acts>>

(* is_holding, read without the lock: the result is downgraded to a hold.    *)
Check(b) ==
  /\ At(b, "check")
  /\ Came(b, IF Holds(brk) THEN "hold" ELSE worker[b].res, "done")
  /\ UNCHANGED <<brk, row, snapshot, backlog, healthy, acts>>

MarkDone(b) ==
  /\ At(b, "done")
  /\ Marked(b, row[b], worker[b].res)
  /\ UNCHANGED <<brk, snapshot, backlog, healthy, acts>>

(* A probe is resolved; any other run that ended ok is a success.            *)
Settle(b) ==
  LET w == worker[b] IN
  /\ At(b, "settle")
  /\ \/ w.probe # "none" /\ ResolveProbe(w.res)
     \/ w.probe = "none" /\ w.res = "ok" /\ RecordSuccess
  /\ worker' = [worker EXCEPT ![b] = Over(w)]
  /\ UNCHANGED <<snapshot, backlog, healthy, acts>>

(* The row _forgive_transient writes over: whatever mark_done or, meanwhile, *)
(* a reclaim or a retry left there.                                          *)
ForgivenRow(r) ==
  [r EXCEPT !.status = IF r.wasHeld THEN "held"
                       ELSE IF r.status = "transient" THEN "forgiven" ELSE "blocked"]

(* A mutant: only a stage with a grace of its own is forgiven anything.      *)
NothingForgiven(b) ==
  /\ At(b, "forgive")
  /\ worker' = [worker EXCEPT ![b] = Idle]
  /\ UNCHANGED <<brk, row, snapshot, backlog, healthy, acts>>

(* _forgive_transient                                                        *)
Forgive(b) ==
  LET r == Bumped(row[b]) IN
  /\ At(b, "forgive")
  /\ row' = [row EXCEPT ![b] = IF r.clock < Grace THEN ForgivenRow(r) ELSE r]
  /\ worker' = [worker EXCEPT ![b] = Idle]
  /\ UNCHANGED <<brk, snapshot, backlog, healthy, acts>>

-----------------------------------------------------------------------------
(* The sweep, the operator, the clock and the process.                     *)

(* adopt_backlog reads the failed rows, before it takes the lock.  Which of  *)
(* them are recent enough is left open.                                      *)
ReadBacklog ==
  /\ ~backlog
  /\ Cardinality({b \in Book : row[b].status = "transient"}) >= Threshold
  /\ backlog' = TRUE
  /\ UNCHANGED <<brk, row, worker, snapshot, healthy, acts>>

(* And trips on what it had read, under the lock.                            *)
AdoptBacklog ==
  LET k == Refreshed(brk) IN
  /\ backlog /\ backlog' = FALSE
  /\ \/ /\ k.state = "closed"
        /\ brk' = Opened(k, CoolBase)
        /\ row' = Reclaimed(row)
     \/ k.state # "closed" /\ brk' = k /\ UNCHANGED row
  /\ UNCHANGED <<worker, snapshot, healthy, acts>>

Act == acts < MaxActs /\ acts' = acts + 1

(* clear: the operator's way out of a held breaker.                          *)
Clear ==
  /\ Refreshed(brk).state # "closed"
  /\ Close
  /\ Act
  /\ UNCHANGED <<worker, snapshot, backlog, healthy>>

(* POST /api/books/{id}/retry: reset_stage, whatever the worker is doing.    *)
Retry(b) ==
  /\ row[b] # FreshRow
  /\ row' = [row EXCEPT ![b] = FreshRow]
  /\ Act
  /\ UNCHANGED <<brk, worker, snapshot, backlog, healthy>>

(* One unit of time.  A run may take as many as it likes, its result is      *)
(* settled within MaxSettle.                                                 *)
Older(w) ==
  [w EXCEPT
     !.age = IF w.pc \in Active /\ w.probe # "none" THEN Smaller(@ + 1, Overdue) ELSE @,
     !.late = IF w.pc \in Settling THEN @ + 1 ELSE @]

Tick ==
  /\ \A b \in Book : worker[b].pc \in Settling => worker[b].late < MaxSettle
  /\ brk' = [brk EXCEPT
       !.gap = IF brk.failures > 0 THEN Smaller(@ + 1, Window + 1) ELSE 0,
       !.wait = Larger(@ - 1, 0),
       !.probeAge = IF brk.probe # None THEN Smaller(@ + 1, ProbeStale + 1) ELSE 0]
  /\ row' = [b \in Book |-> [row[b] EXCEPT
       !.clock = IF @ = NoClock THEN @ ELSE Smaller(@ + 1, Grace)]]
  /\ worker' = [b \in Book |-> Older(worker[b])]
  /\ UNCHANGED <<snapshot, backlog, healthy, acts>>

(* The process restarts: the threads are gone, the rows in SQLite stay, and  *)
(* the first sweep takes a snapshot before it submits anything.  Restarts    *)
(* are among the troubles of the environment, which may begin at any moment  *)
(* and be over in the next one.                                              *)
Crash ==
  /\ Restarts /\ ~healthy
  /\ worker' = [b \in Book |-> Idle]
  /\ snapshot' = Holds(brk)
  /\ backlog' = FALSE
  /\ UNCHANGED <<brk, row, healthy, acts>>

Change ==
  /\ healthy' \in Weather
  /\ UNCHANGED <<brk, row, worker, snapshot, backlog, acts>>

Init ==
  /\ brk = ClosedBreaker
  /\ row = [b \in Book |-> FreshRow]
  /\ worker = [b \in Book |-> Idle]
  /\ snapshot = FALSE /\ backlog = FALSE
  /\ healthy \in Weather
  /\ acts = 0

Gate(b) == RunUngated(b) \/ ClaimGranted(b) \/ ClaimRefused(b) \/ MarkHeld(b)

Finish(b) ==
  Answered(b) \/ NotAsked(b) \/ Unserved(b) \/ Troubled(b) \/ OwnGrace(b) \/ Record(b)
    \/ Check(b) \/ MarkDone(b) \/ Settle(b) \/ Forgive(b)

Next ==
  \/ TakeSnapshot \/ ReadBacklog \/ AdoptBacklog \/ Clear \/ Tick \/ Crash \/ Change
  \/ \E b \in Book : Submit(b) \/ Gate(b) \/ Finish(b) \/ Retry(b)

Spec == Init /\ [][Next]_vars

(* The scheduler's thread sweeps every SWEEP_INTERVAL_SECONDS and takes the  *)
(* least recently touched book first, so every runnable book is submitted    *)
(* again and again; the pool runs what was submitted; time passes.           *)
Fairness ==
  /\ WF_vars(AdoptBacklog) /\ WF_vars(TakeSnapshot) /\ WF_vars(Tick)
  /\ \A b \in Book : WF_vars(Submit(b) \/ Gate(b) \/ Finish(b))

FairSpec == Spec /\ Fairness

-----------------------------------------------------------------------------
(* Properties.                                                             *)

TypeOK ==
  /\ brk \in Breakers
  /\ row \in [Book -> Rows]
  /\ worker \in [Book -> Workers]
  /\ snapshot \in BOOLEAN /\ backlog \in BOOLEAN
  /\ healthy \in BOOLEAN
  /\ acts \in 0 .. MaxActs

(* The row of the breaker is never in a shape its own functions do not leave *)
(* behind: a streak is counted only while closed, a backoff exists exactly   *)
(* while held, a claim exists only while half open, and a cooldown runs only *)
(* while open.  (_trip, _reopen, _reset_to_closed, _refresh_locked)          *)
BreakerShape ==
  /\ brk.state = "closed" <=> brk.backoff = 0
  /\ brk.state # "closed" => brk.backoff >= CoolBase
  /\ brk.state # "closed" => brk.failures = 0
  /\ brk.state # "open" => brk.wait = 0
  /\ brk.state # "half_open" => brk.probe = None

(* Why only an overdue run meets the probe of another book: until then a      *)
(* half-open breaker carries its claim, and an open one has not run out.     *)
ClaimsAreFresh ==
  \A b \in Book : worker[b].pc \in Active /\ worker[b].age < Overdue =>
    /\ worker[b].probe = "claimed" /\ brk.state = "half_open" =>
         brk.probe = b /\ brk.probeAge = worker[b].age
    /\ worker[b].probe = "passed" => brk.state # "half_open"
    /\ worker[b].probe # "none" /\ brk.state = "open" => brk.wait + worker[b].age >= CoolBase

(* However many books wait on a held service, and whatever stragglers of     *)
(* earlier claims are still running, at most one book is trying it out: a    *)
(* second one is let through only when the first has been at it for as long  *)
(* as a claim lives, or as the shortest cooldown.  A book that asks for its  *)
(* own claim again after a restart is not counted, because probe_at is not   *)
(* renewed for it.  (claim_probe, _refresh_locked)                           *)
ProbeExclusive == \A b, c \in Book : Trying(b) /\ Trying(c) => b = c

(* resolve_probe does not look at who claimed the probe, so that a run that  *)
(* comes back overdue decides whatever probe it finds.  Any other run that   *)
(* was let through the gate decides its own, though trips, reopenings and    *)
(* closes of others may lie in between.                                      *)
VerdictIsTheClaimants ==
  \A b \in Book :
    /\ At(b, "settle") /\ worker[b].probe \in {"passed", "claimed"}
    /\ worker[b].age < Overdue
    /\ EffectiveState(brk) = "half_open"
    => worker[b].probe = "claimed" /\ brk.probe = b

(* A probe that failed has been recorded once when its verdict is settled,   *)
(* so the cooldown is doubled once for it and not twice.  Only an overdue    *)
(* run can meet the deadline of another book's cooldown in between, and put  *)
(* it off a second time.                                                     *)
FailedProbeIsRecorded ==
  \A b \in Book :
    /\ At(b, "settle") /\ worker[b].probe # "none" /\ worker[b].res \in {"failed", "hold"}
    /\ worker[b].age < Overdue
    => EffectiveState(brk) # "half_open"

(* A hold ends by the operator's hand, on a success, or when a run that      *)
(* was let through the gate comes back with an answer or with one of the     *)
(* three results probe_verdict owns up to as closes that were not earned     *)
(* (nothing asked, skipped, unreached).  It never ends by the clock alone,   *)
(* nor on a failure, named or not, on our own disk, on an exception, on a    *)
(* hold, or on acquire's own grace.                                          *)
HoldEndsOnAVerdict ==
  [][Holds(brk) /\ ~Holds(brk') =>
       \/ acts' = acts + 1
       \/ \E b \in Book :
            /\ At(b, "settle")
            /\ \/ worker[b].res = "ok"
               \/ worker[b].res \in Answers \cup Unasked /\ worker[b].probe # "none"]_vars

(* What is still in flight when the breaker opens cannot prolong the hold:   *)
(* the deadline a trip or a failed probe set is only ever met or lifted.     *)
NoExtension ==
  [][EffectiveState(brk) = "open" => brk'.wait <= brk.wait]_vars

(* A failure the outage explains outlives the trip in one way only: its      *)
(* worker had read is_holding before the trip and wrote its row after it.    *)
NoFailureSurvivesTheTrip ==
  [][\A b \in Book :
       Holds(brk') /\ row'[b].status = "transient"
       => (Holds(brk) /\ row[b].status = "transient") \/ At(b, "done")]_vars

(* And a book left failed under a hold has been failing for the whole grace  *)
(* period, unless its own worker has yet to forgive it.                      *)
FailureUnderHoldIsOld ==
  ~Restarts /\ Holds(brk) =>
    \A b \in Book :
      row[b].status = "transient" => \/ worker[b].pc \in {"settle", "forgive"}
                                     \/ row[b].clock = Grace

(* All an outage is to those outside, with its backoff: the books that run   *)
(* on a claim of theirs, and are not overdue, are those that try the service.*)
Promise == INSTANCE Outage WITH
  held <- brk.state # "closed",
  cooldown <- brk.backoff,
  wait <- brk.wait,
  trying <- {b \in Book : Trying(b)}

(* The breaker keeps that promise: whatever its threads, its stragglers, its *)
(* clock and its restarts do, a hold is one wait after the other, each tried *)
(* out by one book at a time and doubled once, and none of it is left after  *)
(* the close.                                                                *)
KeepsPromise == Promise!Spec

(* Once the service answers for good, no book stays held: somebody is given  *)
(* the probe, a claim left by a crash included, and the close lets everybody *)
(* run.                                                                      *)
HeldBooksReturn ==
  <>[]healthy => \A b \in Book : []<>(row[b].status # "held")

=============================================================================
