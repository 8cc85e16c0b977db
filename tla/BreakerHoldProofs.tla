--------------------------- MODULE BreakerHoldProofs ---------------------------
(***************************************************************************)
(* Proofs about Breaker: how a hold ends, how long it lasts, what failures *)
(* a trip leaves behind, and what becomes of failures: that of a probe is  *)
(* counted once, and one that is left on a book's row under a hold is as   *)
(* old as the grace period.                                                *)
(***************************************************************************)
EXTENDS BreakerProofs

(* The step properties of Breaker without their boxes.                       *)
Earned ==
  Holds(brk) /\ ~Holds(brk') =>
    \/ acts' = acts + 1
    \/ \E b \in Book :
         /\ At(b, "settle")
         /\ \/ worker[b].res = "ok"
            \/ worker[b].res \in Answers \cup Unasked /\ worker[b].probe # "none"

NotExtended == EffectiveState(brk) = "open" => brk'.wait <= brk.wait

-----------------------------------------------------------------------------
(* A deadline is only met or lifted.                                       *)

(* While the deadline has not come, the lazy moves do nothing.               *)
LEMMA BeforeTheDeadline ==
  ASSUME BreakerInv, EffectiveState(brk) = "open"
  PROVE  Refreshed(brk) = brk /\ brk.state = "open" /\ brk.wait \in Nat
  BY TimeAssumption DEF BreakerInv, EffectiveState, Refreshed, Breakers

(* Nothing a worker or the operator does there sets another deadline.        *)
LEMMA DeadlineOperations ==
  ASSUME BreakerInv, EffectiveState(brk) = "open"
  PROVE  /\ brk' = brk => brk'.wait <= brk.wait
         /\ Close => brk'.wait <= brk.wait
         /\ \A rows : RecordFailure(rows) => brk'.wait <= brk.wait
         /\ \A res : ResolveProbe(res) => brk'.wait <= brk.wait
         /\ RecordSuccess => brk'.wait <= brk.wait
<1> USE BeforeTheDeadline
<1>1. brk' = brk => brk'.wait <= brk.wait
  OBVIOUS
<1>2. Close => brk'.wait <= brk.wait
  BY DEF Close, ClosedBreaker
<1>3. ASSUME NEW rows, RecordFailure(rows) PROVE brk' = brk
  BY <1>3 DEF RecordFailure, Trips
<1>4. ASSUME NEW res, ResolveProbe(res) PROVE brk' = brk
  BY <1>4 DEF ResolveProbe
<1>5. RecordSuccess => Close
  BY DEF RecordSuccess
<1> QED
  BY <1>1, <1>2, <1>3, <1>4, <1>5

LEMMA DeadlineStep == TypedState /\ [Next]_vars => NotExtended
<1> SUFFICES ASSUME TypedState, [Next]_vars, EffectiveState(brk) = "open"
             PROVE  brk'.wait <= brk.wait
  BY DEF NotExtended
<1>1. BreakerInv /\ Refreshed(brk) = brk /\ brk.state = "open" /\ brk.wait \in Nat
  BY BeforeTheDeadline DEF TypedState
<1>2. CASE UNCHANGED vars
  BY <1>1, <1>2, DeadlineOperations DEF vars
<1>3. CASE Tick
  BY <1>1, <1>3 DEF Tick, Larger, BreakerInv, Breakers
<1>4. CASE TakeSnapshot \/ ReadBacklog \/ AdoptBacklog \/ Clear \/ Crash \/ Change
  BY <1>1, <1>4, DeadlineOperations
     DEF TakeSnapshot, ReadBacklog, AdoptBacklog, Clear, Crash, Change
<1>5. ASSUME NEW b \in Book, Submit(b) \/ Retry(b) PROVE brk' = brk
  BY <1>5 DEF Submit, Retry
<1>6. ASSUME NEW b \in Book, Gate(b) PROVE brk' = brk
  BY <1>1, <1>6
     DEF Gate, RunUngated, ClaimGranted, ClaimsFree, ClaimRefused, MarkHeld
<1>7. ASSUME NEW b \in Book, Finish(b) PROVE brk'.wait <= brk.wait
  BY <1>1, <1>7, DeadlineOperations
     DEF Finish, Answered, NotAsked, Unserved, Troubled, OwnGrace, Record, Check, MarkDone,
         Settle, Forgive
<1> QED
  BY <1>1, <1>2, <1>3, <1>4, <1>5, <1>6, <1>7, DeadlineOperations DEF Next

(* A trip or a failed probe sets a deadline, and whatever is still in flight *)
(* cannot put it off.                                                        *)
THEOREM DeadlineStands == Spec => NoExtension
<1>1. TypedState /\ [Next]_vars => NotExtended
  BY DeadlineStep
<1> QED
  BY <1>1, TypeInit, TypeStep, PTL DEF Spec, NoExtension, NotExtended

-----------------------------------------------------------------------------
(* What a run that needs no more of the service writes: not a failure of     *)
(* the service, nor a hold, nor acquire's own grace.                         *)
LEMMA DirectResults ==
  ASSUME TypedState, NEW b \in Book, Answered(b) \/ NotAsked(b) \/ Unserved(b)
  PROVE  \E r \in Rows, res \in Results \ {"failed", "hold", "forgiven"} : Marked(b, r, res)
<1>1. row[b] \in Rows
  BY DEF TypedState, RowType
<1>2. \A c \in {row[b].clock, NoClock} : [row[b] EXCEPT !.clock = c] \in Rows
  BY <1>1, RowOperators
<1>3. {"ok", "waiting", "nothing", "unasked", "skipped", "unreached", "local", "unnamed"}
        \subseteq Results \ {"failed", "hold", "forgiven"}
  BY DEF Results, Answers, Unasked
<1> QED
  BY <1>1, <1>2, <1>3 DEF Answered, NotAsked, Unserved

-----------------------------------------------------------------------------
(* A hold ends on a verdict.  One result makes probe_verdict close the       *)
(* breaker though it says that the service is in trouble: acquire's own      *)
(* grace, which blocks the row and names no hold.  It is given only while    *)
(* the breaker is closed, and settled before a later trip can have cooled    *)
(* down.                                                                     *)

(* The result is acquire's, or later.                                        *)
Decided == Settling \ {"error"}

GraceWhileClosed ==
  \A b \in Book : worker[b].pc \in Decided /\ worker[b].res = "forgiven" =>
    /\ brk.state # "half_open"
    /\ brk.state = "open" => brk.wait + worker[b].late >= CoolBase

GraceInv == TypedState /\ GraceWhileClosed

(* No run is newly forgiven, and those that were have waited no longer.      *)
NoneForgiven ==
  \A c \in Book : worker'[c].pc \in Decided /\ worker'[c].res = "forgiven" =>
    worker[c].pc \in Decided /\ worker[c].res = "forgiven" /\ worker'[c].late = worker[c].late

LEMMA NoCooldownEnds ==
  ASSUME GraceInv, NEW b \in Book, worker[b].pc \in Decided, worker[b].res = "forgiven"
  PROVE  Refreshed(brk) = brk /\ brk.state # "half_open"
<1>1. worker[b].late \in 0 .. MaxSettle /\ brk \in Breakers
  BY DEF GraceInv, TypedState, BreakerInv, Workers
<1>2. brk.state # "half_open" /\ ~(brk.state = "open" /\ brk.wait = 0)
  BY <1>1, SettleAssumption, TimeAssumption DEF GraceInv, GraceWhileClosed
<1> QED
  BY <1>2 DEF Refreshed

LEMMA GraceKept ==
  ASSUME GraceInv, LockedStep \/ brk' = brk, NoneForgiven
  PROVE  GraceWhileClosed'
<1> DEFINE k == Refreshed(brk)
<1> SUFFICES ASSUME NEW b \in Book, worker'[b].pc \in Decided, worker'[b].res = "forgiven"
             PROVE  /\ brk'.state # "half_open"
                    /\ brk'.state = "open" => brk'.wait + worker'[b].late >= CoolBase
  BY DEF GraceWhileClosed
<1>1. worker[b].pc \in Decided /\ worker[b].res = "forgiven" /\ worker'[b].late = worker[b].late
  BY DEF NoneForgiven
<1>2. k = brk /\ worker[b].late \in 0 .. MaxSettle
  BY <1>1, NoCooldownEnds DEF GraceInv, TypedState, Workers
<1>3. CASE brk' = brk
  BY <1>1, <1>3 DEF GraceInv, GraceWhileClosed
<1>4. CASE brk' = ClosedBreaker
  BY <1>4 DEF ClosedBreaker
<1>5. ASSUME NEW w \in WaitTimes(k), brk' = Opened(k, w)
      PROVE  brk'.state = "open" /\ brk'.wait + worker[b].late >= CoolBase
  <2>1. brk \in Breakers /\ (brk.state # "closed" => brk.backoff >= CoolBase)
        /\ (brk.backoff = 0 \/ brk.backoff >= CoolBase)
    BY DEF GraceInv, TypedState, BreakerInv, BreakerShape
  <2>2. w \in CoolBase .. CoolMax
    BY <1>2, <1>5, <2>1, OpenedType
  <2>3. brk'.state = "open" /\ brk'.wait = w
    BY <1>5 DEF Opened
  <2> QED
    BY <1>2, <2>2, <2>3, TimeAssumption, SettleAssumption
<1>6. ASSUME k.state = "closed", NEW f \in 0 .. Threshold - 1,
             brk' = [k EXCEPT !.failures = f, !.gap = 0]
      PROVE  brk'.state = "closed"
  <2>1. k \in Breakers
    BY RefreshedType DEF GraceInv, TypedState
  <2> QED
    BY <1>6, <2>1 DEF Breakers
<1>7. \/ brk' = brk
      \/ brk' = ClosedBreaker
      \/ brk'.state = "closed"
      \/ brk'.state = "open" /\ brk'.wait + worker[b].late >= CoolBase
  BY <1>2, <1>5, <1>6 DEF LockedStep
<1> QED
  BY <1>1, <1>3, <1>4, <1>7

LEMMA FinishForgivesNone ==
  ASSUME NEW b \in Book, Finish(b), ~OwnGrace(b), TypedState
  PROVE  NoneForgiven
<1>1. worker[b] \in Workers
  BY DEF TypedState
<1>2. ASSUME NEW res \in Results \ {"forgiven"}, NEW p \in Phases, Came(b, res, p)
      PROVE  NoneForgiven
  BY <1>1, <1>2 DEF Came, NoneForgiven, TypedState, Workers
<1>3. ASSUME NEW w, worker' = [worker EXCEPT ![b] = Over(w)] \/ worker' = [worker EXCEPT ![b] = Idle]
      PROVE  NoneForgiven
  <2>1. worker'[b].pc \in {"idle", "forgive"}
    BY <1>1, <1>3 DEF Over, Idle, TypedState
  <2>2. \A c \in Book : c # b => worker'[c] = worker[c]
    BY <1>3 DEF TypedState
  <2> QED
    BY <2>1, <2>2 DEF NoneForgiven, Decided, Settling
<1>4. CASE Answered(b) \/ NotAsked(b) \/ Unserved(b)
  <2>1. PICK r \in Rows, res \in Results \ {"failed", "hold", "forgiven"} : Marked(b, r, res)
    BY <1>4, DirectResults
  <2>2. /\ \A c \in Book : c # b => worker'[c] = worker[c]
        /\ worker'[b].pc \in {"idle", "forgive"} \/ worker'[b].res = res
    BY <2>1, MarkedWrites DEF TypedState
  <2> QED
    BY <2>2 DEF NoneForgiven, Decided, Settling
<1>5. CASE MarkDone(b)
  <2>1. worker[b].pc \in Decided /\ Marked(b, row[b], worker[b].res)
        /\ row[b] \in Rows /\ worker[b].res \in Results
    BY <1>1, <1>5 DEF MarkDone, At, Decided, Settling, TypedState, RowType, Workers
  <2>2. /\ \A c \in Book : c # b => worker'[c] = worker[c]
        /\ \/ worker'[b].pc \in {"idle", "forgive"}
           \/ worker'[b].res = worker[b].res /\ worker'[b].late = worker[b].late
    BY <2>1, MarkedWrites DEF TypedState
  <2> QED
    BY <2>1, <2>2 DEF NoneForgiven, Decided, Settling
<1>6. CASE Troubled(b)
  <2>1. CASE GoTo(b, "error")
    <3>1. worker'[b].pc = "error" /\ \A c \in Book : c # b => worker'[c] = worker[c]
      BY <1>1, <2>1 DEF GoTo, TypedState, Workers
    <3> QED
      BY <3>1 DEF NoneForgiven, Decided, Settling
  <2>2. CASE Came(b, "failed", "record")
    BY <1>2, <2>2 DEF Results, Phases
  <2> QED
    BY <1>6, <2>1, <2>2 DEF Troubled
<1>7. CASE Record(b)
  <2>1. worker[b].pc = "record" /\ worker'[b].res = worker[b].res
        /\ worker'[b].late = worker[b].late
        /\ \A c \in Book : c # b => worker'[c] = worker[c]
    BY <1>1, <1>7 DEF Record, At, GoTo, TypedState, Workers
  <2> QED
    BY <2>1 DEF NoneForgiven, Decided, Settling
<1>8. CASE Check(b)
  <2>1. worker'[b].late = worker[b].late /\ worker[b].pc \in Decided
        /\ (worker'[b].res = "forgiven" => worker[b].res = "forgiven")
        /\ \A c \in Book : c # b => worker'[c] = worker[c]
    BY <1>1, <1>8 DEF Check, Came, At, Decided, Settling, TypedState, Workers
  <2> QED
    BY <2>1 DEF NoneForgiven
<1>9. CASE Settle(b)
  BY <1>3, <1>9 DEF Settle
<1>10. CASE Forgive(b)
  BY <1>3, <1>10 DEF Forgive
<1> QED
  BY <1>4, <1>5, <1>6, <1>7, <1>8, <1>9, <1>10 DEF Finish

(* acquire's own grace is given only while the breaker is closed.            *)
LEMMA OwnGraceKeeps ==
  ASSUME GraceInv, NEW b \in Book, OwnGrace(b)
  PROVE  GraceWhileClosed'
<1> USE DEF GraceInv, TypedState
<1>1. worker \in [Book -> Workers] /\ brk' = brk /\ worker[b].pc = "error"
  BY DEF OwnGrace, At
<1>2. \A c \in Book : c # b => worker'[c] = worker[c]
  BY <1>1 DEF OwnGrace, Came
<1>3. ~Holds(brk) => brk.state = "closed"
  BY DEF Holds, EffectiveState
<1>4. CASE Holds(brk)
  <2>1. worker'[b].res = "hold"
    BY <1>1, <1>4 DEF OwnGrace, Came, Workers
  <2> QED
    BY <1>1, <1>2, <2>1 DEF GraceWhileClosed
<1> QED
  BY <1>1, <1>3, <1>4 DEF GraceWhileClosed

LEMMA GateKeepsGrace ==
  ASSUME GraceInv, NEW b \in Book, Gate(b)
  PROVE  GraceWhileClosed'
<1> DEFINE k == Refreshed(brk)
<1>1. worker \in [Book -> Workers] /\ k \in Breakers
  BY RefreshedType DEF GraceInv, TypedState
<1>2. NoneForgiven
  <2>1. /\ worker'[b].pc \notin Decided \/ worker'[b].res = "ok"
        /\ \A c \in Book : c # b => worker'[c] = worker[c]
    <3>1. ASSUME NEW how, RunStage(b, how)
          PROVE  worker'[b].res = "ok" /\ \A c \in Book : c # b => worker'[c] = worker[c]
      BY <1>1, <3>1 DEF RunStage, Idle
    <3>2. CASE MarkHeld(b) \/ ClaimRefused(b)
      BY <1>1, <3>2 DEF MarkHeld, ClaimRefused, GoTo, Idle, Decided, Settling, Workers
    <3> QED
      BY <3>1, <3>2 DEF Gate, RunUngated, ClaimGranted, ClaimsFree
  <2> QED
    BY <2>1 DEF NoneForgiven
<1>3. CASE LockedStep \/ brk' = brk
  BY <1>2, <1>3, GraceKept
<1>4. CASE ClaimsFree(b)
  <2>1. ASSUME NEW c \in Book, worker[c].pc \in Decided, worker[c].res = "forgiven" PROVE FALSE
    BY <1>4, <2>1, NoCooldownEnds DEF ClaimsFree
  <2> QED
    BY <1>2, <2>1 DEF GraceWhileClosed, NoneForgiven
<1> QED
  BY <1>3, <1>4 DEF Gate, RunUngated, ClaimGranted, ClaimRefused, MarkHeld, LockedStep

LEMMA TickKeepsGrace ==
  ASSUME GraceInv, Tick
  PROVE  GraceWhileClosed'
<1> SUFFICES ASSUME NEW b \in Book, worker'[b].pc \in Decided, worker'[b].res = "forgiven"
             PROVE  /\ brk'.state # "half_open"
                    /\ brk'.state = "open" => brk'.wait + worker'[b].late >= CoolBase
  BY DEF GraceWhileClosed
<1>1. /\ worker[b].pc \in Decided /\ worker[b].res = "forgiven"
      /\ worker'[b].late = worker[b].late + 1 /\ worker[b].late \in Nat
  <2>1. worker'[b] = Older(worker[b]) /\ worker[b] \in Workers
    BY DEF Tick, GraceInv, TypedState
  <2> QED
    BY <2>1, OverdueType DEF Older, Workers, Decided
<1>2. /\ brk.wait \in Nat /\ brk'.state = brk.state
      /\ brk'.wait = Larger(brk.wait - 1, 0)
  BY TimeAssumption DEF Tick, GraceInv, TypedState, BreakerInv, Breakers
<1>3. brk'.wait >= brk.wait - 1 /\ brk'.wait \in Nat
  BY <1>2 DEF Larger
<1> QED
  BY <1>1, <1>2, <1>3, TimeAssumption DEF GraceInv, GraceWhileClosed

LEMMA GraceStep == GraceInv /\ [Next]_vars => GraceInv'
<1> SUFFICES ASSUME GraceInv, [Next]_vars PROVE GraceInv'
  OBVIOUS
<1>1. TypedState'
  BY TypeStep DEF GraceInv
<1>2. CASE \/ TakeSnapshot \/ ReadBacklog \/ AdoptBacklog \/ Clear \/ Change \/ UNCHANGED vars
           \/ \E b \in Book : Retry(b)
  <2>1. LockedStep \/ brk' = brk
    BY <1>2, Operations, BacklogTrips
       DEF TakeSnapshot, ReadBacklog, Clear, Change, Retry, vars, GraceInv, TypedState
  <2>2. worker' = worker
    BY <1>2 DEF TakeSnapshot, ReadBacklog, AdoptBacklog, Clear, Change, Retry, vars
  <2> QED
    BY <1>1, <2>1, <2>2, GraceKept DEF NoneForgiven, GraceInv
<1>3. CASE Crash
  BY <1>1, <1>3 DEF Crash, Idle, Decided, Settling, GraceWhileClosed, GraceInv
<1>4. ASSUME NEW b \in Book, Submit(b) PROVE GraceWhileClosed'
  <2>1. \A c \in Book : worker'[c].pc \in Decided => worker'[c] = worker[c]
    BY <1>4 DEF Submit, Idle, Decided, Settling, GraceInv, TypedState
  <2>2. brk' = brk
    BY <1>4 DEF Submit
  <2> QED
    BY <2>1, <2>2, GraceKept DEF NoneForgiven
<1>5. ASSUME NEW b \in Book, Finish(b), ~OwnGrace(b) PROVE GraceWhileClosed'
  BY <1>5, FinishIsLocked, FinishForgivesNone, GraceKept DEF GraceInv
<1>6. GraceWhileClosed'
  BY <1>2, <1>3, <1>4, <1>5, GateKeepsGrace, TickKeepsGrace, OwnGraceKeeps
     DEF Next, Finish, GraceInv
<1> QED
  BY <1>1, <1>6 DEF GraceInv

LEMMA GraceInit == Init => GraceInv
  BY TypeInit DEF Init, GraceInv, GraceWhileClosed, Idle, Decided, Settling

(* The lazy moves and a re-opening leave a hold a hold.                      *)
LEMMA HoldsOn ==
  ASSUME BreakerInv, Holds(brk), NEW w,
         \/ brk' = brk \/ brk' = Refreshed(brk) \/ brk' = Opened(Refreshed(brk), w)
  PROVE  Holds(brk')
<1>1. brk.state # "closed" /\ Refreshed(brk).state # "closed"
  BY RefreshedType DEF Holds, EffectiveState
<1> QED
  BY <1>1 DEF Holds, EffectiveState, Opened

LEMMA EarnedStep == GraceInv /\ [Next]_vars => Earned
<1> SUFFICES ASSUME GraceInv, [Next]_vars, Holds(brk), ~Holds(brk')
             PROVE  \/ acts' = acts + 1
                    \/ \E b \in Book :
                         /\ At(b, "settle")
                         /\ \/ worker[b].res = "ok"
                            \/ /\ worker[b].res \in Answers \cup Unasked
                               /\ worker[b].probe # "none"
  BY DEF Earned
<1>1. BreakerInv /\ worker \in [Book -> Workers]
  BY DEF GraceInv, TypedState
<1>2. brk' # brk /\ brk' # Refreshed(brk) /\ \A w : brk' # Opened(Refreshed(brk), w)
  BY <1>1, HoldsOn
<1>3. Refreshed(brk).state # "closed" /\ brk.state # "closed" /\ Refreshed(brk) \in Breakers
  BY <1>1, RefreshedType DEF Holds, EffectiveState
<1>4. ASSUME NEW b \in Book, Gate(b) PROVE FALSE
  <2>1. CASE ClaimsFree(b)
    <3>1. brk'.state = "half_open"
      BY <1>3, <2>1 DEF ClaimsFree, Breakers
    <3> QED
      BY <3>1 DEF Holds, EffectiveState
  <2> QED
    BY <1>2, <1>4, <2>1 DEF Gate, RunUngated, ClaimGranted, ClaimRefused, MarkHeld
<1>5. ASSUME NEW b \in Book, Record(b) PROVE FALSE
  BY <1>2, <1>3, <1>5 DEF Record, RecordFailure, Trips
<1>6. ASSUME NEW b \in Book, Settle(b)
      PROVE  /\ At(b, "settle")
             /\ \/ worker[b].res = "ok"
                \/ worker[b].res \in Answers \cup Unasked /\ worker[b].probe # "none"
  <2>1. At(b, "settle")
    BY <1>6 DEF Settle
  <2>2. CASE worker[b].probe # "none" /\ ResolveProbe(worker[b].res)
    <3>1. Verdict(worker[b].res)
      BY <1>2, <2>2 DEF ResolveProbe
    <3>2. worker[b].res # "forgiven"
      <4>1. SUFFICES ASSUME worker[b].res = "forgiven" PROVE FALSE
        OBVIOUS
      <4>2. Refreshed(brk) = brk /\ brk.state # "half_open"
        BY <2>1, <4>1, NoCooldownEnds DEF At, Decided, Settling
      <4> QED
        BY <1>2, <2>2, <4>2 DEF ResolveProbe
    <3>3. worker[b].res \in Answers \cup Unasked
      BY <1>1, <3>1, <3>2 DEF Verdict, Workers, Results, Answers, Unasked
    <3> QED
      BY <2>1, <2>2, <3>3
  <2> QED
    BY <1>6, <2>1, <2>2 DEF Settle
<1>7. ASSUME NEW b \in Book, Finish(b)
      PROVE  /\ At(b, "settle")
             /\ \/ worker[b].res = "ok"
                \/ worker[b].res \in Answers \cup Unasked /\ worker[b].probe # "none"
  BY <1>2, <1>5, <1>6, <1>7
     DEF Finish, Answered, NotAsked, Unserved, Troubled, OwnGrace, Check, MarkDone, Forgive
<1>8. CASE Tick
  <2>1. brk'.state = brk.state
    BY <1>1, <1>8 DEF Tick, BreakerInv, Breakers
  <2> QED
    BY <1>3, <2>1 DEF Holds, EffectiveState
<1>9. CASE AdoptBacklog
  <2>1. brk' = Refreshed(brk)
    BY <1>3, <1>9 DEF AdoptBacklog
  <2> QED
    BY <1>2, <2>1
<1>10. CASE \/ TakeSnapshot \/ ReadBacklog \/ Crash \/ Change \/ UNCHANGED vars
            \/ \E b \in Book : Submit(b) \/ Retry(b)
  BY <1>2, <1>10 DEF TakeSnapshot, ReadBacklog, Crash, Change, Submit, Retry, vars
<1> QED
  BY <1>4, <1>7, <1>8, <1>9, <1>10 DEF Next, Clear, Act

(* No hold ends but by the operator, on a success, or on an answer or one of *)
(* the results probe_verdict takes for one, of a run let through the gate.   *)
THEOREM HoldEnds == Spec => HoldEndsOnAVerdict
<1>1. GraceInv /\ [Next]_vars => Earned
  BY EarnedStep
<1> QED
  BY <1>1, GraceInit, GraceStep, PTL DEF Spec, HoldEndsOnAVerdict, Earned

-----------------------------------------------------------------------------
(* A trip takes the failures it explains with it.                          *)

(* A failure that a step leaves under a hold was there, under the hold, or   *)
(* its own worker is writing it down.                                        *)
Survives(b) ==
  Holds(brk') /\ row'[b].status = "transient"
  => (Holds(brk) /\ row[b].status = "transient") \/ At(b, "done")

(* Rows that are reclaimed, cleared of their clocks, or given a new clock.   *)
LEMMA FailuresSwept ==
  ASSUME NEW rows \in [Book -> Rows], NEW b \in Book
  PROVE  /\ Reclaimed(rows)[b].status # "transient"
         /\ ClocksCleared(rows)[b].status = rows[b].status
<1>1. rows[b] \in Rows
  OBVIOUS
<1> QED
  BY <1>1 DEF Reclaimed, ClocksCleared, HeldRow, Rows

(* The lazy moves neither begin a hold nor end one.                          *)
LEMMA LazyMovesHold ==
  ASSUME BreakerInv
  PROVE  /\ Holds(brk) <=> Refreshed(brk).state # "closed"
         /\ Holds(Refreshed(brk)) <=> Refreshed(brk).state # "closed"
  BY RefreshedType DEF Holds, EffectiveState

LEMMA SweepingOperations ==
  ASSUME TypedState, NEW b \in Book
  PROVE  /\ RecordFailure(row) => Survives(b)
         /\ Close => Survives(b)
         /\ RecordSuccess => Survives(b)
         /\ \A res : ResolveProbe(res) => Survives(b)
<1>1. BreakerInv /\ row \in [Book -> Rows] /\ Refreshed(brk) \in Breakers
  BY RefreshedType DEF TypedState, RowType
<1>2. Close => Survives(b)
  BY DEF Close, ClosedBreaker, Survives, Holds, EffectiveState
<1>3. ASSUME RecordFailure(row) PROVE Survives(b)
  <2> DEFINE k == Refreshed(brk)
  <2>1. CASE k.state # "closed"
    BY <1>1, <1>3, <2>1, LazyMovesHold DEF RecordFailure, Trips, Survives
  <2>2. CASE row' = Reclaimed(row)
    BY <1>1, <2>2, FailuresSwept DEF Survives
  <2>3. CASE k.state = "closed" /\ brk' = [k EXCEPT !.failures = NextStreak(k), !.gap = 0]
    <3>1. brk'.state = "closed"
      BY <1>1, <2>3 DEF Breakers
    <3> QED
      BY <3>1 DEF Survives, Holds, EffectiveState
  <2> QED
    BY <1>3, <2>1, <2>2, <2>3 DEF RecordFailure
<1>4. RecordSuccess => Survives(b)
  BY <1>2 DEF RecordSuccess, ClosedBreaker, Survives, Holds, EffectiveState
<1>5. ASSUME NEW res, ResolveProbe(res) PROVE Survives(b)
  BY <1>1, <1>2, <1>5, LazyMovesHold DEF ResolveProbe, Survives
<1> QED
  BY <1>2, <1>3, <1>4, <1>5

(* Only a failure that names the service is written as one.                  *)
LEMMA DoneStatus ==
  ASSUME NEW r \in Rows, NEW res \in Results
  PROVE  DoneRow(r, res).status = "transient" => res = "failed" /\ ~DoneRow(r, res).wasHeld
  BY DEF DoneRow, OkRow, FreshRow, FinishedRow, BlockedRow, Rows, Results, Answers, Unasked

(* A step that keeps the breaker and leaves no new failure.                  *)
LEMMA NoNewFailure ==
  ASSUME NEW b \in Book, brk' = brk,
         row'[b].status = "transient" => row[b].status = "transient"
  PROVE  Survives(b)
  BY DEF Survives

LEMMA SweptStep ==
  ASSUME TypedState, [Next]_vars, NEW b \in Book
  PROVE  Survives(b)
<1>1. /\ BreakerInv /\ row \in [Book -> Rows] /\ worker \in [Book -> Workers]
      /\ Refreshed(brk) \in Breakers
  BY RefreshedType DEF TypedState, RowType
<1>2. CASE TakeSnapshot \/ ReadBacklog \/ Crash \/ Change \/ UNCHANGED vars
  BY <1>2, NoNewFailure DEF TakeSnapshot, ReadBacklog, Crash, Change, vars
<1>3. CASE AdoptBacklog
  BY <1>1, <1>3, FailuresSwept, LazyMovesHold DEF AdoptBacklog, Survives
<1>4. CASE Clear
  BY <1>4, SweepingOperations DEF Clear
<1>5. CASE Tick
  <2>1. row'[b].status = row[b].status
    BY <1>1, <1>5 DEF Tick, Rows
  <2>2. Holds(brk') => Holds(brk)
    BY <1>1, <1>5 DEF Tick, Holds, EffectiveState, BreakerInv, Breakers
  <2> QED
    BY <2>1, <2>2 DEF Survives
<1>6. ASSUME NEW c \in Book, Submit(c) \/ Retry(c) PROVE Survives(b)
  BY <1>1, <1>6, NoNewFailure DEF Submit, Retry, FreshRow
<1>7. ASSUME NEW c \in Book, Gate(c) PROVE Survives(b)
  <2>1. ASSUME NEW how, RunStage(c, how)
        PROVE  row'[b].status = "transient" => row[b].status = "transient"
    BY <1>1, <2>1 DEF RunStage, RunningRow, Rows
  <2>2. CASE RunUngated(c) \/ MarkHeld(c)
    BY <1>1, <2>1, <2>2, NoNewFailure DEF RunUngated, MarkHeld, HeldRow
  <2>3. CASE ClaimGranted(c) \/ ClaimRefused(c)
    <3>1. row'[b].status = "transient" => row[b].status = "transient"
      BY <2>1, <2>3 DEF ClaimGranted, ClaimsFree, ClaimRefused
    <3>2. brk' = Refreshed(brk) \/ Refreshed(brk).state = "half_open"
      BY <2>3 DEF ClaimGranted, ClaimsFree, ClaimRefused
    <3> QED
      BY <1>1, <3>1, <3>2, LazyMovesHold DEF Survives
  <2> QED
    BY <1>7, <2>2, <2>3 DEF Gate
<1>8. ASSUME NEW c \in Book, Finish(c) PROVE Survives(b)
  <2>1. CASE Troubled(c) \/ Check(c)
    BY <2>1, NoNewFailure DEF Troubled, Check
  <2>2. CASE Answered(c) \/ NotAsked(c) \/ Unserved(c)
    <3>1. PICK r \in Rows, res \in Results \ {"failed", "hold", "forgiven"} : Marked(c, r, res)
      BY <2>2, DirectResults
    <3>2. row'[c] = DoneRow(r, res) /\ (b # c => row'[b] = row[b])
      BY <3>1, MarkedWrites DEF TypedState
    <3>3. row'[b].status = "transient" => row[b].status = "transient"
      BY <3>2, DoneStatus
    <3> QED
      BY <2>2, <3>3, NoNewFailure DEF Answered, NotAsked, Unserved
  <2>3. CASE OwnGrace(c)
    <3>1. row'[b].status = row[b].status
      BY <1>1, <2>3 DEF OwnGrace, Bumped, Rows
    <3> QED
      BY <2>3, <3>1, NoNewFailure DEF OwnGrace
  <2>4. CASE Record(c)
    BY <2>4, SweepingOperations DEF Record
  <2>5. CASE MarkDone(c)
    BY <1>1, <2>5 DEF MarkDone, Marked, Survives
  <2>6. CASE Settle(c)
    BY <2>6, SweepingOperations, NoNewFailure DEF Settle
  <2>7. CASE Forgive(c)
    <3>1. ForgivenRow(Bumped(row[c])).status # "transient"
          /\ Bumped(row[c]).status = row[c].status
      BY <1>1 DEF ForgivenRow, Bumped, Rows
    <3>2. row'[b].status = "transient" => row[b].status = "transient"
      BY <1>1, <2>7, <3>1 DEF Forgive
    <3> QED
      BY <2>7, <3>2, NoNewFailure DEF Forgive
  <2> QED
    BY <1>8, <2>1, <2>2, <2>3, <2>4, <2>5, <2>6, <2>7 DEF Finish
<1> QED
  BY <1>2, <1>3, <1>4, <1>5, <1>6, <1>7, <1>8 DEF Next

(* No failed row is left under a hold by the trip, nor comes there later but *)
(* by the worker that was writing it down already.                           *)
THEOREM TripSweeps == Spec => NoFailureSurvivesTheTrip
<1>1. TypedState /\ [Next]_vars => \A b \in Book : Survives(b)
  BY SweptStep
<1> QED
  BY <1>1, TypeInit, TypeStep, PTL DEF Spec, NoFailureSurvivesTheTrip, Survives

-----------------------------------------------------------------------------
(* The failure of a probe.                                                 *)

(* A run that was let through the gate, the book's own claim asked for again *)
(* included.                                                                 *)
Gated(w) == w.pc \in Active /\ w.probe # "none"

(* A run that has failed and called record_failure.                          *)
Recorded(w) == w.pc = "check" \/ (w.pc \in {"done", "settle"} /\ w.res \in {"failed", "hold"})

(* What a gated run recorded has ended the probe, until it is overdue.       *)
FailuresCount ==
  \A b \in Book : Gated(worker[b]) /\ worker[b].age < Overdue /\ Recorded(worker[b]) =>
    brk.state # "half_open"

CountInv == ProbeInv /\ FailuresCount

(* No run has recorded a failure now, and those that had got no older.       *)
NoneRecorded ==
  \A c \in Book : Gated(worker'[c]) /\ Recorded(worker'[c]) =>
    Gated(worker[c]) /\ worker'[c].age = worker[c].age /\ Recorded(worker[c])

(* While a gated run is not overdue, the breaker does not turn half-open     *)
(* under the lock.                                                           *)
LEMMA NoneTurnsHalfOpen ==
  ASSUME ProbeInv, NEW b \in Book, Gated(worker[b]), worker[b].age < Overdue
  PROVE  /\ Refreshed(brk).state = brk.state
         /\ LockedStep \/ brk' = brk => (brk'.state = "half_open" => brk.state = "half_open")
<1> DEFINE k == Refreshed(brk)
<1>1. k \in Breakers /\ brk \in Breakers
  BY RefreshedType DEF ProbeInv, TypedState, BreakerInv
<1>2. ~(brk.state = "open" /\ brk.wait = 0)
  BY NoLazyMove DEF Gated
<1>3. k.state = brk.state
  BY <1>1, <1>2 DEF Refreshed, Breakers
<1> HIDE DEF k
<1>4. /\ ClosedBreaker.state = "closed" /\ \A w : Opened(k, w).state = "open"
      /\ \A f : [k EXCEPT !.failures = f, !.gap = 0].state = k.state
  BY <1>1 DEF ClosedBreaker, Opened, Breakers
<1>5. LockedStep => \/ brk' = k \/ brk' = ClosedBreaker \/ \E w : brk' = Opened(k, w)
                    \/ \E f : brk' = [k EXCEPT !.failures = f, !.gap = 0]
  BY DEF LockedStep, k
<1>6. LockedStep \/ brk' = brk => (brk'.state = "half_open" => brk.state = "half_open")
  BY <1>3, <1>4, <1>5
<1> QED
  BY <1>3, <1>6 DEF k

LEMMA CountKept ==
  ASSUME CountInv, LockedStep \/ brk' = brk, NoneRecorded
  PROVE  FailuresCount'
<1> SUFFICES ASSUME NEW b \in Book, Gated(worker'[b]), worker'[b].age < Overdue,
                    Recorded(worker'[b])
             PROVE  brk'.state # "half_open"
  BY DEF FailuresCount
<1>1. Gated(worker[b]) /\ Recorded(worker[b]) /\ worker[b].age < Overdue
  BY DEF NoneRecorded
<1> QED
  BY <1>1, NoneTurnsHalfOpen DEF CountInv, FailuresCount

(* record_failure ends the probe, if that is what it fails.                  *)
LEMMA RecordEndsTheProbe ==
  ASSUME CountInv, NEW b \in Book, Record(b)
  PROVE  FailuresCount'
<1> DEFINE k == Refreshed(brk)
<1>1. \A c \in Book : c # b => worker'[c] = worker[c]
  BY DEF Record, GoTo, CountInv, ProbeInv, TypedState
<1>2. LockedStep \/ brk' = brk
  BY FinishIsLocked DEF Finish, CountInv, ProbeInv
<1>3. brk'.state # "half_open"
  <2>1. k \in Breakers
    BY RefreshedType DEF CountInv, ProbeInv, TypedState
  <2> HIDE DEF k
  <2>2. [k EXCEPT !.failures = NextStreak(k), !.gap = 0].state = k.state
    BY <2>1 DEF Breakers
  <2>3. \A w : Opened(k, w).state = "open"
    BY DEF Opened
  <2>4. RecordFailure(row)
    BY DEF Record
  <2> QED
    BY <2>2, <2>3, <2>4 DEF RecordFailure, k
<1> QED
  BY <1>3 DEF FailuresCount

LEMMA FinishRecordsNone ==
  ASSUME NEW b \in Book, Finish(b), ~Record(b), TypedState
  PROVE  NoneRecorded
<1>1. worker[b] \in Workers /\ worker \in [Book -> Workers]
  BY DEF TypedState
<1>2. ASSUME NEW res \in Results, NEW p \in Phases \ {"check"}, Came(b, res, p),
             worker[b].pc \in Active,
             p \in {"done", "settle"} /\ res \in {"failed", "hold"} => Recorded(worker[b])
      PROVE  NoneRecorded
  BY <1>1, <1>2 DEF Came, NoneRecorded, Gated, Recorded, Workers
<1>3. ASSUME NEW w, worker' = [worker EXCEPT ![b] = Over(w)] \/ worker' = [worker EXCEPT ![b] = Idle]
      PROVE  NoneRecorded
  <2>1. worker'[b].pc \in {"idle", "forgive"}
    BY <1>1, <1>3 DEF Over, Idle
  <2>2. \A c \in Book : c # b => worker'[c] = worker[c]
    BY <1>1, <1>3
  <2> QED
    BY <2>1, <2>2 DEF NoneRecorded, Gated, Active, Settling
<1>4. CASE Answered(b) \/ NotAsked(b) \/ Unserved(b)
  <2>1. PICK r \in Rows, res \in Results \ {"failed", "hold", "forgiven"} : Marked(b, r, res)
    BY <1>4, DirectResults
  <2>2. /\ \A c \in Book : c # b => worker'[c] = worker[c]
        /\ \/ worker'[b].pc \in {"idle", "forgive"}
           \/ worker'[b].pc = "settle" /\ worker'[b].res = res
    BY <2>1, MarkedWrites DEF TypedState
  <2> QED
    BY <2>2 DEF NoneRecorded, Gated, Recorded, Active, Settling
<1>5. CASE MarkDone(b)
  <2>1. worker[b].pc = "done" /\ Marked(b, row[b], worker[b].res)
        /\ row[b] \in Rows /\ worker[b].res \in Results
    BY <1>1, <1>5 DEF MarkDone, At, TypedState, RowType, Workers
  <2>2. /\ \A c \in Book : c # b => worker'[c] = worker[c]
        /\ \/ worker'[b].pc \in {"idle", "forgive"}
           \/ /\ worker'[b].pc = "settle" /\ worker'[b].res = worker[b].res
              /\ worker'[b].probe = worker[b].probe /\ worker'[b].age = worker[b].age
    BY <2>1, MarkedWrites DEF TypedState
  <2> QED
    BY <2>1, <2>2 DEF NoneRecorded, Gated, Recorded, Active, Settling
<1>6. CASE Troubled(b)
  <2>1. worker[b].pc = "run" /\ worker[b].pc \in Active
    BY <1>6 DEF Troubled, At, Active
  <2>2. CASE GoTo(b, "error")
    <3>1. worker'[b].pc = "error" /\ \A c \in Book : c # b => worker'[c] = worker[c]
      BY <1>1, <2>2 DEF GoTo, Workers
    <3> QED
      BY <3>1 DEF NoneRecorded, Recorded
  <2>3. CASE Came(b, "failed", "record")
    BY <1>2, <2>1, <2>3 DEF Results, Phases
  <2> QED
    BY <1>6, <2>2, <2>3 DEF Troubled
<1>7. CASE OwnGrace(b)
  BY <1>2, <1>7 DEF OwnGrace, At, Active, Settling, Results, Phases
<1>8. CASE Check(b)
  BY <1>1, <1>2, <1>8 DEF Check, At, Active, Settling, Recorded, Results, Phases, Workers
<1>9. CASE Settle(b)
  BY <1>3, <1>9 DEF Settle
<1>10. CASE Forgive(b)
  BY <1>3, <1>10 DEF Forgive
<1> QED
  BY <1>4, <1>5, <1>6, <1>7, <1>8, <1>9, <1>10 DEF Finish

(* The gate gives nobody a failure, and makes the breaker half-open only     *)
(* when its time has come.                                                   *)
LEMMA GateKeepsCount ==
  ASSUME CountInv, NEW b \in Book, Gate(b)
  PROVE  FailuresCount'
<1> DEFINE k == Refreshed(brk)
<1>1. worker \in [Book -> Workers] /\ k \in Breakers
  BY RefreshedType DEF CountInv, ProbeInv, TypedState
<1>2. NoneRecorded
  <2>1. /\ worker'[b].pc \in {"run", "refused", "idle"}
        /\ \A c \in Book : c # b => worker'[c] = worker[c]
    <3>1. ASSUME NEW how, RunStage(b, how)
          PROVE  worker'[b].pc = "run" /\ \A c \in Book : c # b => worker'[c] = worker[c]
      BY <1>1, <3>1 DEF RunStage, Idle
    <3>2. CASE MarkHeld(b) \/ ClaimRefused(b)
      BY <1>1, <3>2 DEF MarkHeld, ClaimRefused, GoTo, Idle, Workers
    <3> QED
      BY <3>1, <3>2 DEF Gate, RunUngated, ClaimGranted, ClaimsFree
  <2> QED
    BY <2>1 DEF NoneRecorded, Recorded
<1>3. CASE LockedStep \/ brk' = brk
  BY <1>2, <1>3, CountKept
<1>4. CASE ClaimsFree(b)
  <2>1. ASSUME NEW c \in Book, Gated(worker[c]), worker[c].age < Overdue, Recorded(worker[c])
        PROVE  FALSE
    <3>1. k.state = brk.state
      BY <2>1, NoneTurnsHalfOpen DEF CountInv
    <3> QED
      BY <1>4, <2>1, <3>1 DEF ClaimsFree, CountInv, FailuresCount
  <2> QED
    BY <1>2, <2>1 DEF FailuresCount, NoneRecorded
<1> QED
  BY <1>3, <1>4 DEF Gate, RunUngated, ClaimGranted, ClaimRefused, MarkHeld, LockedStep

LEMMA TickKeepsCount ==
  ASSUME CountInv, Tick
  PROVE  FailuresCount'
<1> SUFFICES ASSUME NEW b \in Book, Gated(worker'[b]), worker'[b].age < Overdue,
                    Recorded(worker'[b])
             PROVE  brk'.state # "half_open"
  BY DEF FailuresCount
<1>1. worker'[b] = Older(worker[b]) /\ worker[b] \in Workers
  BY DEF Tick, CountInv, ProbeInv, TypedState
<1>2. Gated(worker[b]) /\ Recorded(worker[b]) /\ worker[b].age < Overdue
  BY <1>1, OverdueType DEF Older, Workers, Gated, Recorded, Smaller
<1>3. brk'.state = brk.state
  BY DEF Tick, CountInv, ProbeInv, TypedState, BreakerInv, Breakers
<1> QED
  BY <1>2, <1>3 DEF CountInv, FailuresCount

LEMMA CountStep == CountInv /\ [Next]_vars => CountInv'
<1> SUFFICES ASSUME CountInv, [Next]_vars PROVE CountInv'
  OBVIOUS
<1>1. ProbeInv' /\ TypedState
  BY ProbeStep DEF CountInv, ProbeInv
<1>2. CASE \/ TakeSnapshot \/ ReadBacklog \/ AdoptBacklog \/ Clear \/ Change \/ UNCHANGED vars
           \/ \E b \in Book : Retry(b)
  <2>1. LockedStep \/ brk' = brk
    BY <1>1, <1>2, Operations, BacklogTrips
       DEF TakeSnapshot, ReadBacklog, Clear, Change, Retry, vars, CountInv, TypedState
  <2>2. worker' = worker
    BY <1>2 DEF TakeSnapshot, ReadBacklog, AdoptBacklog, Clear, Change, Retry, vars
  <2> QED
    BY <1>1, <2>1, <2>2, CountKept DEF NoneRecorded, CountInv
<1>3. CASE Crash
  BY <1>1, <1>3 DEF Crash, Idle, Recorded, FailuresCount, CountInv
<1>4. ASSUME NEW b \in Book, Submit(b) PROVE FailuresCount'
  <2>1. \A c \in Book : worker'[c].pc \in Active => worker'[c] = worker[c]
    BY <1>1, <1>4 DEF Submit, Idle, Active, Settling, TypedState
  <2>2. brk' = brk
    BY <1>4 DEF Submit
  <2> QED
    BY <2>1, <2>2, CountKept DEF NoneRecorded, Gated
<1>5. ASSUME NEW b \in Book, Finish(b), ~Record(b) PROVE FailuresCount'
  BY <1>1, <1>5, FinishIsLocked, FinishRecordsNone, CountKept DEF CountInv
<1>6. FailuresCount'
  BY <1>2, <1>3, <1>4, <1>5, GateKeepsCount, TickKeepsCount, RecordEndsTheProbe
     DEF Next, CountInv
<1> QED
  BY <1>1, <1>6 DEF CountInv

LEMMA CountInit == Init => CountInv
  BY ProbeInit DEF Init, CountInv, FailuresCount, Recorded, Idle

(* A probe that failed is recorded once when resolve_probe settles it, so    *)
(* that the cooldown is doubled once for it, unless the run is overdue.      *)
THEOREM ProbeCountsOnce == Spec => []FailedProbeIsRecorded
<1>1. ASSUME CountInv PROVE FailedProbeIsRecorded
  <2>1. SUFFICES ASSUME NEW b \in Book, At(b, "settle"), worker[b].probe # "none",
                        worker[b].res \in {"failed", "hold"}, worker[b].age < Overdue
                 PROVE  EffectiveState(brk) # "half_open"
    BY DEF FailedProbeIsRecorded
  <2>2. Gated(worker[b]) /\ Recorded(worker[b])
    BY <2>1 DEF At, Gated, Recorded, Active, Settling
  <2>3. brk.state # "half_open"
    BY <1>1, <2>1, <2>2 DEF CountInv, FailuresCount
  <2>4. ~(brk.state = "open" /\ brk.wait = 0)
    BY <1>1, <2>1, <2>2, NoLazyMove DEF CountInv, Gated
  <2> QED
    BY <2>3, <2>4 DEF EffectiveState
<1> QED
  BY <1>1, CountInit, CountStep, PTL DEF Spec

-----------------------------------------------------------------------------
(* The failure that is left on a row.                                      *)

(* It is the book's own worker that wrote it down and is about to forgive    *)
(* it, or the grace period is over.  Only a restart can come in between.     *)
OldOrForgiven(r, w) ==
  r.status = "transient" =>
    /\ ~r.wasHeld
    /\ \/ w.pc = "settle" /\ w.res = "failed"
       \/ w.pc = "forgive"
       \/ w.pc \in {"idle", "ready", "refused"} /\ r.clock = Grace

FailuresAreOld == \A b \in Book : OldOrForgiven(row[b], worker[b])

(* A step that gives no book a new failure, nor changes one, nor moves its   *)
(* worker.                                                                   *)
LEMMA SameFailures ==
  ASSUME FailuresAreOld, worker' = worker,
         \A b \in Book : row'[b].status = "transient" => row'[b] = row[b]
  PROVE  FailuresAreOld'
  BY DEF FailuresAreOld, OldOrForgiven

(* A trip leaves no failure, and a close no other than there were.           *)
LEMMA SweptRows ==
  ASSUME TypedState, FailuresAreOld, NEW b \in Book
  PROVE  /\ Reclaimed(row)[b].status = "transient" => Reclaimed(row)[b] = row[b]
         /\ ClocksCleared(row)[b].status = "transient" => ClocksCleared(row)[b] = row[b]
<1>1. row[b] \in Rows /\ OldOrForgiven(row[b], worker[b])
  BY DEF TypedState, RowType, FailuresAreOld
<1>2. Reclaimed(row)[b] = IF row[b].status = "transient" THEN HeldRow ELSE row[b]
  BY DEF Reclaimed
<1>3. ClocksCleared(row)[b] = IF row[b].wasHeld \/ row[b].status = "forgiven"
                              THEN [row[b] EXCEPT !.clock = NoClock] ELSE row[b]
  BY DEF ClocksCleared
<1> QED
  BY <1>1, <1>2, <1>3 DEF HeldRow, OldOrForgiven, Rows

LEMMA RowsUnderTheLock ==
  ASSUME TypedState, FailuresAreOld,
         \/ RecordFailure(row) \/ Close \/ RecordSuccess \/ UNCHANGED <<brk, row>>
         \/ \E res : ResolveProbe(res)
  PROVE  \A b \in Book : row'[b].status = "transient" => row'[b] = row[b]
<1>1. row' = row \/ row' = Reclaimed(row) \/ row' = ClocksCleared(row)
  BY DEF RecordFailure, Close, RecordSuccess, ResolveProbe
<1> QED
  BY <1>1, SweptRows

LEMMA GateKeepsOld ==
  ASSUME TypedState, FailuresAreOld, NEW b \in Book, Gate(b)
  PROVE  FailuresAreOld'
<1>1. /\ row \in [Book -> Rows] /\ worker \in [Book -> Workers]
      /\ OldOrForgiven(row[b], worker[b])
  BY DEF TypedState, RowType, FailuresAreOld
<1>2. \A c \in Book : c # b => row'[c] = row[c] /\ worker'[c] = worker[c]
  BY <1>1 DEF Gate, RunUngated, ClaimGranted, ClaimsFree, ClaimRefused, MarkHeld, RunStage, GoTo
<1>3. ASSUME NEW how, RunStage(b, how) PROVE row'[b].status = "running"
  BY <1>1, <1>3 DEF RunStage, RunningRow, Rows
<1>4. CASE RunUngated(b) \/ ClaimGranted(b)
  <2>1. row'[b].status = "running"
    BY <1>3, <1>4 DEF RunUngated, ClaimGranted, ClaimsFree
  <2> QED
    BY <1>1, <1>2, <2>1 DEF FailuresAreOld, OldOrForgiven
<1>5. CASE ClaimRefused(b)
  <2>1. row' = row /\ worker[b].pc = "ready" /\ worker'[b].pc = "refused"
    BY <1>1, <1>5 DEF ClaimRefused, At, GoTo, Workers
  <2> QED
    BY <1>1, <1>2, <2>1 DEF FailuresAreOld, OldOrForgiven
<1>6. CASE MarkHeld(b)
  <2>1. /\ worker[b].pc = "refused" /\ worker'[b].pc = "idle"
        /\ row'[b] = row[b] \/ row'[b] = HeldRow
    BY <1>1, <1>6 DEF MarkHeld, At, Idle
  <2> QED
    BY <1>1, <1>2, <2>1 DEF FailuresAreOld, OldOrForgiven, HeldRow
<1> QED
  BY <1>4, <1>5, <1>6 DEF Gate

LEMMA FinishKeepsOld ==
  ASSUME TypedState, FailuresAreOld, NEW b \in Book, Finish(b)
  PROVE  FailuresAreOld'
<1> SUFFICES ASSUME NEW c \in Book PROVE OldOrForgiven(row'[c], worker'[c])
  BY DEF FailuresAreOld
<1>1. /\ row \in [Book -> Rows] /\ worker \in [Book -> Workers]
      /\ OldOrForgiven(row[b], worker[b]) /\ OldOrForgiven(row[c], worker[c])
      /\ row[b] \in Rows /\ worker[b] \in Workers
  BY DEF TypedState, RowType, FailuresAreOld
<1>2. c # b => worker'[c] = worker[c]
  BY <1>1 DEF Finish, Answered, NotAsked, Unserved, Marked, Troubled, OwnGrace, Record, Check,
     MarkDone, Settle, Forgive, Came, GoTo
<1>3. CASE Troubled(b) \/ OwnGrace(b) \/ Check(b)
  <2>1. /\ worker[b].pc \in {"run", "error", "check"}
        /\ c # b => row'[c] = row[c]
        /\ row'[b].status = row[b].status
    BY <1>1, <1>3 DEF Troubled, OwnGrace, Check, At, Bumped, Rows
  <2> QED
    BY <1>1, <1>2, <2>1 DEF OldOrForgiven
<1>8. CASE Answered(b) \/ NotAsked(b) \/ Unserved(b)
  <2>1. PICK r \in Rows, res \in Results \ {"failed", "hold", "forgiven"} : Marked(b, r, res)
    BY <1>8, DirectResults
  <2>2. row'[b] = DoneRow(r, res) /\ (c # b => row'[c] = row[c])
    BY <2>1, MarkedWrites DEF TypedState
  <2> QED
    BY <1>1, <1>2, <2>2, DoneStatus DEF OldOrForgiven
<1>4. CASE Record(b)
  <2>1. row'[c].status = "transient" => row'[c] = row[c]
    BY <1>4, RowsUnderTheLock DEF Record
  <2>2. worker[b].pc = "record"
    BY <1>4 DEF Record, At
  <2> QED
    BY <1>1, <1>2, <2>1, <2>2 DEF OldOrForgiven
<1>5. CASE MarkDone(b)
  <2>1. /\ Marked(b, row[b], worker[b].res) /\ worker[b].res \in Results
    BY <1>1, <1>5 DEF MarkDone, Workers
  <2>2. row'[b] = DoneRow(row[b], worker[b].res) /\ (c # b => row'[c] = row[c])
    BY <1>1, <2>1, MarkedWrites DEF TypedState
  <2>3. worker[b].res = "failed" =>
          worker'[b].pc = "forgive" \/ (worker'[b].pc = "settle" /\ worker'[b].res = "failed")
    BY <1>1, <2>1 DEF Marked, Over, Idle, Workers
  <2> QED
    BY <1>1, <1>2, <2>1, <2>2, <2>3, DoneStatus DEF OldOrForgiven
<1>6. CASE Settle(b)
  <2>1. row'[c].status = "transient" => row'[c] = row[c]
    BY <1>6, RowsUnderTheLock DEF Settle
  <2>2. /\ worker[b].pc = "settle"
        /\ worker[b].res = "failed" => worker'[b].pc = "forgive"
    BY <1>1, <1>6 DEF Settle, At, Over, Idle
  <2> QED
    BY <1>1, <1>2, <2>1, <2>2 DEF OldOrForgiven
<1>7. CASE Forgive(b)
  <2> DEFINE r == Bumped(row[b])
  <2>1. /\ worker'[b].pc = "idle" /\ (c # b => row'[c] = row[c])
        /\ row'[b] = IF r.clock < Grace THEN ForgivenRow(r) ELSE r
    BY <1>1, <1>7 DEF Forgive, Idle
  <2>2. /\ r.status = row[b].status /\ r.wasHeld = row[b].wasHeld
        /\ r.clock \in 0 .. Grace /\ ForgivenRow(r).status # "transient"
    BY <1>1, TimeAssumption DEF Bumped, ForgivenRow, Rows, NoClock
  <2>3. row'[b].status = "transient" => row'[b] = r /\ r.clock = Grace
    BY <2>1, <2>2, TimeAssumption
  <2> QED
    BY <1>1, <1>2, <2>1, <2>2, <2>3 DEF OldOrForgiven
<1> QED
  BY <1>3, <1>4, <1>5, <1>6, <1>7, <1>8 DEF Finish

LEMMA OldStep == ~Restarts /\ TypedState /\ FailuresAreOld /\ [Next]_vars => FailuresAreOld'
<1> SUFFICES ASSUME ~Restarts, TypedState, FailuresAreOld, [Next]_vars PROVE FailuresAreOld'
  OBVIOUS
<1>1. row \in [Book -> Rows] /\ worker \in [Book -> Workers]
  BY DEF TypedState, RowType
<1>2. CASE TakeSnapshot \/ ReadBacklog \/ Change \/ UNCHANGED vars
  BY <1>2, SameFailures DEF TakeSnapshot, ReadBacklog, Change, vars
<1>3. CASE Crash
  BY <1>3 DEF Crash
<1>4. CASE AdoptBacklog \/ Clear
  <2>1. worker' = worker
    BY <1>4 DEF AdoptBacklog, Clear
  <2>2. \A b \in Book : row'[b].status = "transient" => row'[b] = row[b]
    BY <1>4, SweptRows, RowsUnderTheLock DEF AdoptBacklog, Clear
  <2> QED
    BY <2>1, <2>2, SameFailures
<1>5. CASE Tick
  <2>1. ASSUME NEW b \in Book
        PROVE  /\ worker'[b].pc = worker[b].pc /\ worker'[b].res = worker[b].res
               /\ row'[b].status = row[b].status /\ row'[b].wasHeld = row[b].wasHeld
               /\ row[b].clock = Grace => row'[b].clock = Grace
    <3>1. row[b] \in Rows /\ worker[b] \in Workers /\ Smaller(Grace + 1, Grace) = Grace
          /\ Grace # NoClock
      BY <1>1, TimeAssumption DEF Smaller, NoClock
    <3>2. worker'[b] = Older(worker[b])
      BY <1>5 DEF Tick
    <3>3. worker'[b].pc = worker[b].pc /\ worker'[b].res = worker[b].res
      BY <3>1, <3>2 DEF Older, Workers
    <3> QED
      BY <1>5, <3>1, <3>3 DEF Tick, Rows
  <2> QED
    BY <2>1 DEF FailuresAreOld, OldOrForgiven
<1>6. ASSUME NEW b \in Book, Submit(b) PROVE FailuresAreOld'
  <2>1. /\ worker[b].pc = "idle" /\ worker'[b].pc = "ready" /\ row' = row
        /\ \A c \in Book : c # b => worker'[c] = worker[c]
    BY <1>1, <1>6 DEF Submit, At, Idle
  <2> QED
    BY <2>1 DEF FailuresAreOld, OldOrForgiven
<1>7. ASSUME NEW b \in Book, Retry(b) PROVE FailuresAreOld'
  <2>1. \A c \in Book : row'[c].status = "transient" => row'[c] = row[c]
    BY <1>1, <1>7 DEF Retry, FreshRow
  <2> QED
    BY <1>7, <2>1, SameFailures DEF Retry
<1>8. ASSUME NEW b \in Book, Gate(b) \/ Finish(b) PROVE FailuresAreOld'
  BY <1>8, GateKeepsOld, FinishKeepsOld
<1> QED
  BY <1>2, <1>3, <1>4, <1>5, <1>6, <1>7, <1>8 DEF Next

(* While the process is not restarted, a book that is failed under a hold    *)
(* has been failing for the whole grace period, or its worker has yet to     *)
(* forgive it.                                                               *)
THEOREM FailuresUnderHolds == Spec => []FailureUnderHoldIsOld
<1>1. Init => FailuresAreOld
  BY DEF Init, FailuresAreOld, OldOrForgiven, FreshRow
<1>2. FailuresAreOld => FailureUnderHoldIsOld
  BY DEF FailuresAreOld, OldOrForgiven, FailureUnderHoldIsOld
<1>3. CASE Restarts
  <2>1. FailureUnderHoldIsOld
    BY <1>3 DEF FailureUnderHoldIsOld
  <2>2. [Next]_vars /\ FailureUnderHoldIsOld => FailureUnderHoldIsOld'
    BY <1>3 DEF FailureUnderHoldIsOld
  <2> QED
    BY <2>1, <2>2, PTL DEF Spec
<1>4. CASE ~Restarts
  <2>1. TypedState /\ FailuresAreOld /\ [Next]_vars => FailuresAreOld'
    BY <1>4, OldStep
  <2> QED
    BY <1>1, <1>2, <2>1, TypeInit, TypeStep, PTL DEF Spec
<1> QED
  BY <1>3, <1>4

-----------------------------------------------------------------------------
(* What Outage promises.  An operation under the lock is one of its actions, *)
(* whichever thread makes it and whatever the lazy moves do first: these are *)
(* made when the deadline has come, and are not seen.  A book tries on its   *)
(* own because a claim is given out only when no other run holds one, or     *)
(* when that run is overdue.                                                 *)

Tries == {b \in Book : Trying(b)}

LEMMA LockedKeepsPromise ==
  ASSUME BreakerInv, LockedStep \/ brk' = brk, Tries' \subseteq Tries
  PROVE  [Promise!Next]_(Promise!vars)
<1> DEFINE k == Refreshed(brk)
<1>0. Promise!SomeEnd
  BY DEF Promise!SomeEnd, Tries
<1>1. /\ k \in Breakers /\ k.backoff = brk.backoff /\ k.wait = brk.wait
      /\ k.state = "closed" <=> brk.state = "closed"
      /\ k.state # "open" => k.wait = 0
  <2>1. k.wait = brk.wait
    BY DEF Refreshed, BreakerInv, Breakers
  <2> QED
    BY <2>1, RefreshedType
<1>2. /\ brk.state = "closed" <=> brk.backoff = 0
      /\ brk.state # "closed" => brk.backoff >= CoolBase
      /\ brk.backoff \in Nat
  BY TimeAssumption DEF BreakerInv, BreakerShape, Breakers
<1> HIDE DEF k
<1>3. ASSUME brk'.backoff = brk.backoff, brk'.wait = brk.wait,
             brk'.state = "closed" <=> brk.state = "closed"
      PROVE  Promise!End
  BY <1>0, <1>3 DEF Promise!End
<1>4. CASE brk' = brk \/ brk' = k
  BY <1>1, <1>3, <1>4 DEF Promise!Next
<1>5. CASE brk' = ClosedBreaker
  <2>1. brk'.state = "closed" /\ brk'.backoff = 0 /\ brk'.wait = 0
    BY <1>5 DEF ClosedBreaker
  <2>2. CASE brk.state = "closed"
    BY <1>1, <1>2, <1>3, <2>1, <2>2 DEF Promise!Next, BreakerInv, BreakerShape
  <2>3. CASE brk.state # "closed"
    BY <1>0, <2>1, <2>3 DEF Promise!Close, Promise!Next
  <2> QED
    BY <2>2, <2>3 DEF Promise!Next
<1>6. ASSUME k.state # "open", NEW w \in WaitTimes(k), brk' = Opened(k, w)
      PROVE  Promise!Trip \/ Promise!Reopen
  <2>1. brk'.state = "open" /\ brk'.backoff = NextBackoff(k) /\ brk'.wait = w
    BY <1>6 DEF Opened
  <2>2. NextBackoff(k) = IF brk.state = "closed" THEN CoolBase
                         ELSE IF 2 * brk.backoff < CoolMax THEN 2 * brk.backoff ELSE CoolMax
    BY <1>1, <1>2 DEF NextBackoff, Smaller
  <2>3. w \in NextBackoff(k) .. CoolMax
    <3>1. NextBackoff(k) \in Nat /\ NextBackoff(k) <= CoolMax
      BY <1>2, <2>2, TimeAssumption
    <3> QED
      BY <3>1, TimeAssumption DEF WaitTimes, Smaller, Larger
  <2>4. brk.wait = 0
    BY <1>1, <1>6
  <2>5. CASE brk.state = "closed"
    BY <1>0, <2>1, <2>2, <2>3, <2>5 DEF Promise!Trip, Promise!Sets
  <2>6. CASE brk.state # "closed"
    BY <1>0, <2>1, <2>2, <2>3, <2>4, <2>6 DEF Promise!Reopen, Promise!Sets
  <2> QED
    BY <2>5, <2>6
<1>7. ASSUME k.state = "closed", NEW f \in 0 .. Threshold - 1,
             brk' = [k EXCEPT !.failures = f, !.gap = 0]
      PROVE  Promise!End
  <2>1. brk'.state = k.state /\ brk'.backoff = k.backoff /\ brk'.wait = k.wait
    BY <1>1, <1>7 DEF Breakers
  <2> QED
    BY <1>1, <1>3, <2>1
<1> QED
  BY <1>4, <1>5, <1>6, <1>7 DEF LockedStep, Promise!Next, k

(* The gate gives the probe to one book, after the deadline.                 *)
LEMMA GateKeepsPromise ==
  ASSUME ProbeInv, NEW b \in Book, Gate(b)
  PROVE  [Promise!Next]_(Promise!vars)
<1> DEFINE k == Refreshed(brk)
<1>1. worker \in [Book -> Workers] /\ BreakerInv
  BY DEF ProbeInv, TypedState
<1>2. ASSUME NEW how \in Probes \ {"claimed"}, RunStage(b, how)
      PROVE  Tries' \subseteq Tries
  BY <1>1, <1>2 DEF RunStage, Idle, Tries, Trying
<1>3. CASE ClaimsFree(b)
  <2>1. k.state = "half_open" /\ k.probe = None /\ RunStage(b, "claimed")
        /\ brk' = [k EXCEPT !.probe = b, !.probeAge = 0]
    BY <1>3 DEF ClaimsFree
  <2>2. Tries = {}
    <3> SUFFICES ASSUME NEW c \in Book, Trying(c) PROVE FALSE
      BY DEF Tries
    <3>1. k = brk
      BY NoLazyMove DEF Trying
    <3> QED
      BY <2>1, <3>1, BookAssumption DEF ProbeInv, ClaimsAreFresh, Trying
  <2>3. Tries' = {b}
    <3>1. /\ worker'[b].pc = "run" /\ worker'[b].probe = "claimed" /\ worker'[b].age = 0
          /\ \A c \in Book : c # b => worker'[c] = worker[c]
      BY <1>1, <2>1 DEF RunStage, Idle
    <3>2. Trying(b)'
      BY <3>1, OverdueType DEF Trying, Active
    <3>3. \A c \in Book : c # b /\ Trying(c)' => Trying(c)
      BY <3>1 DEF Trying
    <3> QED
      BY <2>2, <3>2, <3>3 DEF Tries
  <2>4. /\ k \in Breakers /\ k.backoff = brk.backoff /\ k.wait = 0 /\ k.wait = brk.wait
        /\ brk.state # "closed"
    <3>1. k.wait = brk.wait
      BY <1>1 DEF Refreshed, BreakerInv, Breakers
    <3> QED
      BY <1>1, <2>1, <3>1, RefreshedType
  <2>5. brk'.state = "half_open" /\ brk'.backoff = brk.backoff /\ brk'.wait = brk.wait
    BY <2>1, <2>4 DEF Breakers
  <2>6. Promise!Try(b)
    BY <2>2, <2>3, <2>4, <2>5 DEF Promise!Try, Tries
  <2> QED
    BY <2>6 DEF Promise!Next
<1>4. CASE ~ClaimsFree(b)
  <2>1. LockedStep \/ brk' = brk
    BY <1>4 DEF Gate, RunUngated, ClaimGranted, ClaimRefused, MarkHeld, LockedStep
  <2>2. Tries' \subseteq Tries
    <3>1. CASE RunUngated(b) \/ ClaimGranted(b)
      BY <1>2, <1>4, <3>1 DEF RunUngated, ClaimGranted, Probes
    <3>2. CASE ClaimRefused(b) \/ MarkHeld(b)
      BY <1>1, <3>2 DEF ClaimRefused, MarkHeld, GoTo, Idle, Tries, Trying, Active, Settling, Workers
    <3> QED
      BY <3>1, <3>2 DEF Gate
  <2> QED
    BY <1>1, <2>1, <2>2, LockedKeepsPromise
<1> QED
  BY <1>3, <1>4

LEMMA RunsKeptTryNoMore == RunsKept => Tries' \subseteq Tries
  BY DEF RunsKept, Tries, Trying

LEMMA PromiseStep == ProbeInv /\ [Next]_vars => [Promise!Next]_(Promise!vars)
<1> SUFFICES ASSUME ProbeInv, [Next]_vars PROVE [Promise!Next]_(Promise!vars)
  OBVIOUS
<1>0. TypedState /\ BreakerInv
  BY DEF ProbeInv, TypedState
<1>1. ASSUME NEW b \in Book, Submit(b) PROVE [Promise!Next]_(Promise!vars)
  <2>1. Tries' \subseteq Tries /\ brk' = brk
    BY <1>0, <1>1, SubmitKeepsRuns, RunsKeptTryNoMore DEF Submit
  <2> QED
    BY <1>0, <2>1, LockedKeepsPromise
<1>2. ASSUME NEW b \in Book, Finish(b) PROVE [Promise!Next]_(Promise!vars)
  <2>1. Tries' \subseteq Tries /\ (LockedStep \/ brk' = brk)
    BY <1>0, <1>2, FinishKeepsRuns, FinishIsLocked, RunsKeptTryNoMore
  <2> QED
    BY <1>0, <2>1, LockedKeepsPromise
<1>3. CASE Tick
  <2>0. ASSUME NEW b \in Book, Trying(b)' PROVE Trying(b)
    <3>1. worker'[b] = Older(worker[b]) /\ worker[b] \in Workers
      BY <1>0, <1>3 DEF Tick, TypedState
    <3> QED
      BY <2>0, <3>1, OverdueType DEF Older, Trying, Smaller, Workers
  <2>1. Promise!SomeEnd
    BY <2>0 DEF Promise!SomeEnd
  <2>2. /\ brk'.state = brk.state /\ brk'.backoff = brk.backoff /\ brk.wait \in Nat
        /\ brk'.wait = Larger(brk.wait - 1, 0)
    BY <1>0, <1>3, TimeAssumption DEF Tick, BreakerInv, Breakers
  <2>3. CASE brk.wait > 0
    <3>1. brk'.wait = brk.wait - 1
      BY <2>2, <2>3 DEF Larger
    <3> QED
      BY <2>1, <2>2, <2>3, <3>1 DEF Promise!Tick, Promise!Next
  <2>4. CASE ~(brk.wait > 0)
    <3>1. brk'.wait = brk.wait
      BY <2>2, <2>4 DEF Larger
    <3> QED
      BY <2>1, <2>2, <3>1 DEF Promise!End, Promise!Next
  <2> QED
    BY <2>3, <2>4
<1>4. CASE TakeSnapshot \/ ReadBacklog \/ AdoptBacklog \/ Clear \/ Crash \/ Change \/ UNCHANGED vars
           \/ \E b \in Book : Retry(b)
  <2>1. LockedStep \/ brk' = brk
    BY <1>0, <1>4, Operations, BacklogTrips
       DEF TakeSnapshot, ReadBacklog, Clear, Crash, Change, Retry, vars, TypedState
  <2>2. Tries' \subseteq Tries
    BY <1>4 DEF TakeSnapshot, ReadBacklog, AdoptBacklog, Clear, Crash, Change, Retry, vars, Tries,
       Trying, Idle, Active, Settling
  <2> QED
    BY <1>0, <2>1, <2>2, LockedKeepsPromise
<1> QED
  BY <1>1, <1>2, <1>3, <1>4, GateKeepsPromise DEF Next

(* The breaker implements Outage: nobody tries a held service before the     *)
(* deadline, one book that is not overdue does after it, and a deadline that *)
(* has come is set anew once, for twice the wait.                            *)
THEOREM PromiseKept == Spec => KeepsPromise
<1>1. Init => Promise!Init
  BY DEF Init, Promise!Init, ClosedBreaker, Trying, Idle, Active, Settling
<1> QED
  BY <1>1, ProbeInit, ProbeStep, PromiseStep, PTL DEF Spec, KeepsPromise, Promise!Spec
=============================================================================
