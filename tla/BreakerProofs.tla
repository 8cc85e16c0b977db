----------------------------- MODULE BreakerProofs -----------------------------
(***************************************************************************)
(* Proofs about Breaker, for any set of books and any value of the times   *)
(* and limits its assumptions allow: type correctness, the shape of the    *)
(* breaker's row, and whom a claimed probe is left to, however long runs    *)
(* take.                                                                   *)
(***************************************************************************)
EXTENDS Breaker, TLAPS

(* What every operation under breaker._LOCK does to the breaker's row: the   *)
(* lazy moves only, a close, a trip or, where the deadline has come, a       *)
(* re-opening, or one more failure counted while closed.                     *)
LockedStep ==
  LET k == Refreshed(brk) IN
  \/ brk' = k
  \/ brk' = ClosedBreaker
  \/ k.state # "open" /\ \E w \in WaitTimes(k) : brk' = Opened(k, w)
  \/ /\ k.state = "closed"
     /\ \E f \in 0 .. Threshold - 1 : brk' = [k EXCEPT !.failures = f, !.gap = 0]

(* The breaker's row is typed and has the shape its functions leave.         *)
BreakerInv == brk \in Breakers /\ BreakerShape

RowType == row \in [Book -> Rows]

-----------------------------------------------------------------------------
(* Operators on rows of stages and of the breaker.                         *)

LEMMA RowOperators ==
  ASSUME NEW r \in Rows
  PROVE  /\ RunningRow(r) \in Rows
         /\ Bumped(r) \in Rows
         /\ ForgivenRow(r) \in Rows
         /\ \A c \in {r.clock, NoClock} : [r EXCEPT !.clock = c] \in Rows
         /\ \A res \in Results : DoneRow(r, res) \in Rows
         /\ HeldRow \in Rows /\ FreshRow \in Rows /\ OkRow \in Rows
<1> USE CountAssumption, TimeAssumption DEF Rows, Statuses, NoClock
<1>1. RunningRow(r) \in Rows
  <2>1. Smaller(r.attempts + 1, MaxAttempts) \in 0 .. MaxAttempts
    BY DEF Smaller
  <2> QED
    BY <2>1 DEF RunningRow
<1>2. Bumped(r) \in Rows
  BY DEF Bumped
<1>3. ForgivenRow(r) \in Rows
  BY DEF ForgivenRow
<1>4. \A c \in {r.clock, NoClock} : [r EXCEPT !.clock = c] \in Rows
  OBVIOUS
<1>5. HeldRow \in Rows /\ FreshRow \in Rows /\ OkRow \in Rows
  <2>1. HeldRow \in Rows
    BY DEF HeldRow
  <2>2. FreshRow \in Rows
    BY DEF FreshRow
  <2> QED
    BY <2>1, <2>2 DEF OkRow
<1>6. ASSUME NEW res \in Results PROVE DoneRow(r, res) \in Rows
  <2>0. Larger(r.attempts - 1, 0) \in 0 .. MaxAttempts
    BY DEF Larger
  <2>1. \A s \in Statuses : FinishedRow(r, s) \in Rows /\ BlockedRow(r, s) \in Rows
    BY <2>0 DEF FinishedRow, BlockedRow
  <2> QED
    BY <1>5, <1>6, <2>1 DEF DoneRow, Results, Answers, Unasked
<1> QED
  BY <1>1, <1>2, <1>3, <1>4, <1>5, <1>6

LEMMA RowSweeps ==
  ASSUME NEW rows \in [Book -> Rows]
  PROVE  Reclaimed(rows) \in [Book -> Rows] /\ ClocksCleared(rows) \in [Book -> Rows]
<1>1. Reclaimed(rows) \in [Book -> Rows]
  <2>1. HeldRow \in Rows
    BY CountAssumption, TimeAssumption DEF HeldRow, Rows, Statuses, NoClock
  <2> QED
    BY <2>1 DEF Reclaimed
<1>2. ClocksCleared(rows) \in [Book -> Rows]
  BY TimeAssumption DEF ClocksCleared, Rows, NoClock
<1> QED
  BY <1>1, <1>2

(* Writing some fields of a breaker's row keeps it typed.                    *)
LEMMA BreakerWrites ==
  ASSUME NEW k \in Breakers
  PROVE  /\ [k EXCEPT !.state = "half_open", !.probe = None, !.probeAge = 0] \in Breakers
         /\ [k EXCEPT !.probe = None, !.probeAge = 0] \in Breakers
         /\ \A f \in 0 .. Threshold - 1 : [k EXCEPT !.failures = f, !.gap = 0] \in Breakers
         /\ \A b \in Book : [k EXCEPT !.probe = b, !.probeAge = 0] \in Breakers
<1>1. 0 \in 0 .. Window + 1 /\ 0 \in 0 .. ProbeStale + 1
  BY TimeAssumption
<1>2. [k EXCEPT !.probe = None, !.probeAge = 0] \in Breakers
  BY <1>1 DEF Breakers
<1>3. [k EXCEPT !.state = "half_open", !.probe = None, !.probeAge = 0] \in Breakers
  BY <1>1 DEF Breakers, States
<1>4. ASSUME NEW f \in 0 .. Threshold - 1
      PROVE  [k EXCEPT !.failures = f, !.gap = 0] \in Breakers
  BY <1>1 DEF Breakers
<1>5. ASSUME NEW b \in Book
      PROVE  [k EXCEPT !.probe = b, !.probeAge = 0] \in Breakers
  BY <1>1 DEF Breakers
<1> QED
  BY <1>2, <1>3, <1>4, <1>5

LEMMA RefreshedType ==
  ASSUME BreakerInv
  PROVE  /\ Refreshed(brk) \in Breakers
         /\ Refreshed(brk).backoff = brk.backoff
         /\ Refreshed(brk).state = "closed" <=> brk.state = "closed"
         /\ Refreshed(brk).state = EffectiveState(brk)
         /\ Refreshed(brk).state # "closed" => Refreshed(brk).failures = 0
         /\ Refreshed(brk).state # "open" => Refreshed(brk).wait = 0
         /\ Refreshed(brk).state # "half_open" => Refreshed(brk).probe = None
<1> USE TimeAssumption, CountAssumption
    DEF BreakerInv, BreakerShape, EffectiveState, Breakers, States
<1>1. CASE brk.state = "open" /\ brk.wait = 0
  <2> DEFINE k == [brk EXCEPT !.state = "half_open", !.probe = None, !.probeAge = 0]
  <2>1. Refreshed(brk) = k
    BY <1>1 DEF Refreshed
  <2>2. k \in Breakers
    BY BreakerWrites
  <2>3. /\ k.state = "half_open" /\ k.probe = None
        /\ k.backoff = brk.backoff /\ k.failures = brk.failures /\ k.wait = brk.wait
    OBVIOUS
  <2> HIDE DEF k
  <2> QED
    BY <1>1, <2>1, <2>2, <2>3
<1>2. CASE brk.state = "half_open" /\ brk.probe # None /\ brk.probeAge > ProbeStale
  <2> DEFINE k == [brk EXCEPT !.probe = None, !.probeAge = 0]
  <2>1. Refreshed(brk) = k
    BY <1>2 DEF Refreshed
  <2>2. k \in Breakers
    BY BreakerWrites
  <2>3. /\ k.state = brk.state /\ k.probe = None
        /\ k.backoff = brk.backoff /\ k.failures = brk.failures /\ k.wait = brk.wait
    OBVIOUS
  <2> HIDE DEF k
  <2> QED
    BY <1>2, <2>1, <2>2, <2>3
<1>3. CASE ~(brk.state = "open" /\ brk.wait = 0)
           /\ ~(brk.state = "half_open" /\ brk.probe # None /\ brk.probeAge > ProbeStale)
  <2>1. Refreshed(brk) = brk
    BY <1>3 DEF Refreshed
  <2> QED
    BY <1>3, <2>1
<1> QED
  BY <1>1, <1>2, <1>3

(* A wait is at least the first cooldown: the cap is never below it.         *)
LEMMA OpenedType ==
  ASSUME NEW k \in Breakers, k.state # "closed" => k.backoff >= CoolBase,
         k.backoff = 0 \/ k.backoff >= CoolBase,
         NEW w \in WaitTimes(k)
  PROVE  Opened(k, w) \in Breakers /\ w \in CoolBase .. CoolMax
         /\ Opened(k, w).backoff >= CoolBase
<1>1. NextBackoff(k) \in CoolBase .. CoolMax
  BY TimeAssumption DEF NextBackoff, Smaller, Breakers
<1>2. w \in CoolBase .. CoolMax
  BY <1>1, TimeAssumption DEF WaitTimes, Smaller, Larger
<1> QED
  BY <1>1, <1>2, TimeAssumption, CountAssumption DEF Opened, Breakers, States

LEMMA LockedStepKeepsShape ==
  ASSUME BreakerInv, LockedStep
  PROVE  BreakerInv'
<1> DEFINE k == Refreshed(brk)
<1>1. /\ k \in Breakers
      /\ k.backoff = brk.backoff
      /\ k.state = "closed" <=> brk.state = "closed"
      /\ k.state # "closed" => k.failures = 0
      /\ k.state # "open" => k.wait = 0
      /\ k.state # "half_open" => k.probe = None
  BY RefreshedType
<1>2. /\ k.state = "closed" <=> k.backoff = 0
      /\ k.state # "closed" => k.backoff >= CoolBase
  BY <1>1 DEF BreakerInv, BreakerShape
<1> HIDE DEF k
<1>3. CASE brk' = k
  BY <1>1, <1>2, <1>3 DEF BreakerInv, BreakerShape
<1>4. CASE brk' = ClosedBreaker
  BY <1>4, TimeAssumption, CountAssumption
     DEF BreakerInv, BreakerShape, ClosedBreaker, Breakers, States
<1>5. ASSUME NEW w \in WaitTimes(k), brk' = Opened(k, w) PROVE BreakerInv'
  <2>1. Opened(k, w) \in Breakers /\ w \in CoolBase .. CoolMax
        /\ Opened(k, w).backoff >= CoolBase
    BY <1>1, <1>2, OpenedType
  <2> QED
    BY <1>5, <2>1, TimeAssumption DEF BreakerInv, BreakerShape, Opened, Breakers
<1>6. ASSUME k.state = "closed", NEW f \in 0 .. Threshold - 1,
             brk' = [k EXCEPT !.failures = f, !.gap = 0]
      PROVE  BreakerInv'
  <2>1. brk' \in Breakers
    BY <1>1, <1>6, BreakerWrites
  <2>2. /\ brk'.state = k.state /\ brk'.backoff = k.backoff
        /\ brk'.wait = k.wait /\ brk'.probe = k.probe
    BY <1>1, <1>6 DEF Breakers
  <2> QED
    BY <1>1, <1>2, <1>6, <2>1, <2>2 DEF BreakerInv, BreakerShape
<1> QED
  <2> USE DEF k
  <2> QED
    BY <1>3, <1>4, <1>5, <1>6 DEF LockedStep

-----------------------------------------------------------------------------
(* The operations of the breaker, and the writes of a worker.              *)

LEMMA Operations ==
  ASSUME BreakerInv, RowType
  PROVE  /\ RecordFailure(row) => LockedStep /\ RowType'
         /\ Close => LockedStep /\ RowType'
         /\ RecordSuccess => LockedStep /\ RowType'
         /\ \A res \in Results : ResolveProbe(res) => LockedStep /\ RowType'
<1>1. Reclaimed(row) \in [Book -> Rows] /\ ClocksCleared(row) \in [Book -> Rows]
  BY RowSweeps DEF RowType
<1>2. RecordFailure(row) => LockedStep /\ RowType'
  <2> SUFFICES ASSUME RecordFailure(row) PROVE LockedStep /\ RowType'
    OBVIOUS
  <2> DEFINE k == Refreshed(brk)
  <2>1. ASSUME k.state = "closed", ~Trips(k) PROVE NextStreak(k) \in 0 .. Threshold - 1
    <3>1. k \in Breakers
      BY RefreshedType
    <3> QED
      BY <2>1, <3>1, CountAssumption DEF Trips, NextStreak, Breakers
  <2>2. RowType'
    BY <1>1 DEF RecordFailure, RowType
  <2>3. CASE k.state = "open" /\ brk' = k
    BY <2>2, <2>3 DEF LockedStep
  <2>4. CASE (k.state = "half_open" \/ Trips(k)) /\ \E w \in WaitTimes(k) : brk' = Opened(k, w)
    <3>1. k.state # "open"
      BY <2>4 DEF Trips
    <3> QED
      BY <2>2, <2>4, <3>1 DEF LockedStep
  <2>5. CASE k.state = "closed" /\ ~Trips(k) /\ brk' = [k EXCEPT !.failures = NextStreak(k), !.gap = 0]
    BY <2>1, <2>2, <2>5 DEF LockedStep
  <2> QED
    BY <2>3, <2>4, <2>5 DEF RecordFailure
<1>3. Close => LockedStep /\ RowType'
  BY <1>1 DEF Close, LockedStep, RowType
<1>4. RecordSuccess => LockedStep /\ RowType'
  BY <1>3 DEF RecordSuccess, LockedStep, RowType
<1>5. ASSUME NEW res \in Results, ResolveProbe(res) PROVE LockedStep /\ RowType'
  BY <1>3, <1>5 DEF ResolveProbe, LockedStep, RowType
<1> QED
  BY <1>2, <1>3, <1>4, <1>5

LEMMA BacklogTrips ==
  ASSUME BreakerInv, RowType, AdoptBacklog
  PROVE  LockedStep /\ RowType'
<1> DEFINE k == Refreshed(brk)
<1>1. CASE k.state = "closed" /\ brk' = Opened(k, CoolBase) /\ row' = Reclaimed(row)
  <2>1. k.backoff = 0
    BY <1>1, RefreshedType DEF BreakerInv, BreakerShape
  <2>2. CoolBase \in WaitTimes(k)
    <3>1. Smaller(Larger(NextBackoff(k), 0), CoolMax) = CoolBase
      BY <2>1, TimeAssumption DEF NextBackoff, Smaller, Larger
    <3> QED
      BY <3>1, TimeAssumption DEF WaitTimes
  <2> HIDE DEF k
  <2>3. \E w \in WaitTimes(k) : brk' = Opened(k, w)
    BY <1>1, <2>2
  <2> QED
    BY <1>1, <2>3, RowSweeps DEF LockedStep, RowType, k
<1>2. CASE k.state # "closed" /\ brk' = k /\ row' = row
  BY <1>2 DEF LockedStep, RowType
<1> QED
  BY <1>1, <1>2 DEF AdoptBacklog

LEMMA OverdueType ==
  /\ Overdue \in Nat \ {0} /\ Overdue <= CoolBase /\ Overdue <= ProbeStale + 1
  /\ MaxSettle \in Nat
  BY TimeAssumption, SettleAssumption DEF Overdue, Smaller

LEMMA WorkerWrites ==
  ASSUME worker \in [Book -> Workers], NEW b \in Book
  PROVE  /\ \A p \in Phases : [worker EXCEPT ![b].pc = p] \in [Book -> Workers]
         /\ \A p \in Phases, r \in Results :
              [worker EXCEPT ![b].res = r, ![b].pc = p] \in [Book -> Workers]
         /\ \A p \in Phases, v \in Views :
              [worker EXCEPT ![b] = [Idle EXCEPT !.pc = p, !.saw = v]] \in [Book -> Workers]
         /\ \A how \in Probes :
              [worker EXCEPT ![b] = [Idle EXCEPT !.pc = "run", !.probe = how]]
                \in [Book -> Workers]
         /\ \A w : [worker EXCEPT ![b] = Over(w)] \in [Book -> Workers]
         /\ [worker EXCEPT ![b] = Idle] \in [Book -> Workers]
<1>1. Idle \in Workers
  BY OverdueType DEF Idle, Workers, Phases, Views, Probes, Results, Answers
<1>2. \A p \in Phases : [Idle EXCEPT !.pc = p] \in Workers
  BY <1>1 DEF Workers
<1>3. \A p \in Phases, v \in Views : [Idle EXCEPT !.pc = p, !.saw = v] \in Workers
  BY <1>1 DEF Workers
<1>4. \A how \in Probes : [Idle EXCEPT !.pc = "run", !.probe = how] \in Workers
  BY <1>1 DEF Workers, Phases
<1>5. \A p \in Phases : [worker EXCEPT ![b].pc = p] \in [Book -> Workers]
  BY DEF Workers
<1>6. \A p \in Phases, r \in Results :
        [worker EXCEPT ![b].res = r, ![b].pc = p] \in [Book -> Workers]
  BY DEF Workers
<1>7. \A w : Over(w) \in Workers
  BY <1>1, <1>2 DEF Phases, Over
<1> QED
  BY <1>1, <1>2, <1>3, <1>4, <1>5, <1>6, <1>7

(* mark_done, whatever the result: the row is typed, and the worker is over  *)
(* with its run or has yet to settle it.                                     *)
LEMMA MarkedWrites ==
  ASSUME RowType, worker \in [Book -> Workers], NEW b \in Book,
         NEW r \in Rows, NEW res \in Results, Marked(b, r, res)
  PROVE  /\ RowType' /\ worker' \in [Book -> Workers]
         /\ \A c \in Book : c # b => worker'[c] = worker[c] /\ row'[c] = row[c]
         /\ row'[b] = DoneRow(r, res)
         /\ \/ worker'[b].pc \in {"idle", "forgive"}
            \/ /\ worker'[b].pc = "settle" /\ worker'[b].res = res
               /\ worker'[b].probe = worker[b].probe /\ worker'[b].age = worker[b].age
               /\ worker'[b].late = worker[b].late
               /\ res = "ok" \/ worker[b].probe # "none"
<1> DEFINE w == [worker[b] EXCEPT !.res = res]
           v == IF w.probe = "none" /\ res # "ok" THEN Over(w) ELSE [w EXCEPT !.pc = "settle"]
<1>1. row' = [row EXCEPT ![b] = DoneRow(r, res)] /\ worker' = [worker EXCEPT ![b] = v]
  BY DEF Marked
<1>2. DoneRow(r, res) \in Rows
  BY RowOperators
<1>3. /\ w \in Workers /\ w.res = res /\ w.probe = worker[b].probe
      /\ w.age = worker[b].age /\ w.late = worker[b].late
  BY DEF Workers
<1>4. Over(w) \in Workers /\ Over(w).pc \in {"idle", "forgive"}
  <2>1. Idle \in Workers
    BY OverdueType DEF Idle, Workers, Phases, Views, Probes, Results, Answers
  <2> QED
    BY <2>1 DEF Over, Workers, Phases, Idle
<1> HIDE DEF w
<1>5. /\ v \in Workers
      /\ \/ v.pc \in {"idle", "forgive"}
         \/ /\ v.pc = "settle" /\ v.res = res /\ v.probe = w.probe
            /\ v.age = w.age /\ v.late = w.late
            /\ res = "ok" \/ w.probe # "none"
  <2>1. CASE w.probe = "none" /\ res # "ok"
    BY <1>4, <2>1
  <2>2. CASE ~(w.probe = "none" /\ res # "ok")
    BY <1>3, <2>2 DEF Workers, Phases
  <2> QED
    BY <2>1, <2>2
<1> HIDE DEF v
<1> QED
  BY <1>1, <1>2, <1>3, <1>5 DEF RowType

-----------------------------------------------------------------------------
(* The typing invariant, one lemma for each group of actions.              *)

TypedState ==
  /\ BreakerInv /\ RowType
  /\ worker \in [Book -> Workers]
  /\ snapshot \in BOOLEAN /\ healthy \in BOOLEAN
  /\ backlog \in BOOLEAN /\ acts \in 0 .. MaxActs

LEMMA TypedStateIs == TypedState <=> TypeOK /\ BreakerShape
  BY DEF TypedState, BreakerInv, RowType, TypeOK

LEMMA SameBreaker == ASSUME BreakerInv, brk' = brk PROVE BreakerInv'
  BY DEF BreakerInv, BreakerShape

LEMMA SubmitTypes ==
  ASSUME TypedState, NEW b \in Book, Submit(b)
  PROVE  TypedState'
<1>1. BreakerInv' /\ RowType'
  BY SameBreaker DEF Submit, TypedState, RowType
<1>2. worker' \in [Book -> Workers]
  <2>1. "ready" \in Phases /\ {"free", "noted", "holding"} \subseteq Views
    BY DEF Phases, Views
  <2> DEFINE v == IF ~snapshot THEN "free"
                  ELSE IF row[b].status = "held" THEN "noted" ELSE "holding"
  <2>2. v \in Views
    BY <2>1
  <2>3. worker' = [worker EXCEPT ![b] = [Idle EXCEPT !.pc = "ready", !.saw = v]]
    BY DEF Submit
  <2> HIDE DEF v
  <2> QED
    BY <2>1, <2>2, <2>3, WorkerWrites DEF TypedState
<1> QED
  BY <1>1, <1>2 DEF Submit, TypedState

LEMMA GateTypes ==
  ASSUME TypedState, NEW b \in Book, Gate(b)
  PROVE  TypedState'
<1> DEFINE k == Refreshed(brk)
<1>1. snapshot' \in BOOLEAN /\ healthy' \in BOOLEAN
      /\ backlog' \in BOOLEAN /\ acts' \in 0 .. MaxActs
  BY DEF Gate, RunUngated, ClaimGranted, ClaimRefused, MarkHeld, TypedState
<1>2. ASSUME NEW how \in Probes, RunStage(b, how)
      PROVE  RowType' /\ worker' \in [Book -> Workers]
  <2>1. RunningRow(row[b]) \in Rows
    BY RowOperators DEF TypedState, RowType
  <2> QED
    BY <1>2, <2>1, WorkerWrites DEF TypedState, RowType, RunStage
<1>3. CASE RunUngated(b)
  <2>1. RunStage(b, "none") /\ brk' = brk
    BY <1>3 DEF RunUngated
  <2> QED
    BY <1>1, <1>2, <2>1, SameBreaker DEF TypedState, Probes
<1>4. CASE ClaimGranted(b)
  <2>1. CASE brk' = k /\ (RunStage(b, "passed") \/ RunStage(b, "again"))
    <3>1. LockedStep
      BY <2>1 DEF LockedStep
    <3> QED
      BY <1>1, <1>2, <2>1, <3>1, LockedStepKeepsShape DEF TypedState, Probes
  <2>2. CASE ClaimsFree(b)
    <3>1. /\ k.state = "half_open" /\ brk' = [k EXCEPT !.probe = b, !.probeAge = 0]
          /\ RunStage(b, "claimed")
      BY <2>2 DEF ClaimsFree
    <3>2. /\ k \in Breakers /\ k.backoff = brk.backoff
          /\ k.failures = 0 /\ k.wait = 0 /\ brk.backoff # 0 /\ brk.backoff >= CoolBase
      BY <3>1, RefreshedType DEF TypedState, BreakerInv, BreakerShape
    <3>3. brk' \in Breakers
      BY <3>1, <3>2, BreakerWrites
    <3>4. /\ brk'.state = "half_open" /\ brk'.backoff = k.backoff
          /\ brk'.failures = k.failures /\ brk'.wait = k.wait
      BY <3>1, <3>2 DEF Breakers
    <3>5. BreakerInv'
      BY <3>2, <3>3, <3>4 DEF BreakerInv, BreakerShape
    <3> QED
      BY <1>1, <1>2, <3>1, <3>5 DEF TypedState, Probes
  <2> QED
    BY <1>4, <2>1, <2>2 DEF ClaimGranted
<1>5. CASE ClaimRefused(b)
  <2>1. LockedStep
    BY <1>5 DEF ClaimRefused, LockedStep
  <2>2. worker' \in [Book -> Workers]
    BY <1>5, WorkerWrites DEF ClaimRefused, GoTo, TypedState, Phases
  <2> QED
    BY <1>1, <1>5, <2>1, <2>2, LockedStepKeepsShape DEF TypedState, ClaimRefused, RowType
<1>6. CASE MarkHeld(b)
  <2>1. BreakerInv' /\ worker' \in [Book -> Workers]
    BY <1>6, SameBreaker, WorkerWrites DEF MarkHeld, TypedState
  <2>2. RowType'
    <3>1. row[b] \in Rows
      BY DEF TypedState, RowType
    <3>2. HeldRow \in Rows
      BY <3>1, RowOperators
    <3> QED
      BY <1>6, <3>1, <3>2 DEF MarkHeld, TypedState, RowType
  <2> QED
    BY <1>1, <2>1, <2>2 DEF TypedState
<1> QED
  BY <1>3, <1>4, <1>5, <1>6 DEF Gate

LEMMA MarksATypedRow ==
  ASSUME TypedState, NEW b \in Book,
         Answered(b) \/ NotAsked(b) \/ Unserved(b) \/ MarkDone(b)
  PROVE  \E r \in Rows, res \in Results : Marked(b, r, res)
<1>1. row[b] \in Rows /\ worker[b].res \in Results
  BY DEF TypedState, RowType, Workers
<1>2. \A c \in {row[b].clock, NoClock} : [row[b] EXCEPT !.clock = c] \in Rows
  BY <1>1, RowOperators
<1>3. {"ok", "waiting", "nothing", "unasked", "skipped", "unreached", "local", "unnamed"}
        \subseteq Results
  BY DEF Results, Answers, Unasked
<1> QED
  BY <1>1, <1>2, <1>3 DEF Answered, NotAsked, Unserved, MarkDone

LEMMA FinishTypes ==
  ASSUME TypedState, NEW b \in Book, Finish(b)
  PROVE  TypedState'
<1>1. snapshot' \in BOOLEAN /\ healthy' \in BOOLEAN
      /\ backlog' \in BOOLEAN /\ acts' \in 0 .. MaxActs
  BY DEF Finish, Answered, NotAsked, Unserved, Troubled, OwnGrace, Record, Check, MarkDone,
         Settle, Forgive, TypedState
<1>2. row[b] \in Rows /\ worker[b] \in Workers
  BY DEF TypedState, RowType
<1>3. ASSUME NEW res \in Results, NEW p \in Phases, Came(b, res, p)
      PROVE  worker' \in [Book -> Workers]
  BY <1>3, WorkerWrites DEF Came, TypedState
<1>4. ASSUME NEW p \in Phases, GoTo(b, p)
      PROVE  worker' \in [Book -> Workers]
  BY <1>4, WorkerWrites DEF GoTo, TypedState
<1>5. ASSUME NEW r \in Rows, row' = [row EXCEPT ![b] = r]
      PROVE  RowType'
  BY <1>5 DEF RowType, TypedState
<1>6. CASE Answered(b) \/ NotAsked(b) \/ Unserved(b) \/ MarkDone(b)
  <2>1. \E r \in Rows, res \in Results : Marked(b, r, res)
    BY <1>2, <1>6, MarksATypedRow
  <2>2. RowType' /\ worker' \in [Book -> Workers]
    BY <2>1, MarkedWrites DEF TypedState
  <2>3. BreakerInv'
    BY <1>6, SameBreaker DEF Answered, NotAsked, Unserved, MarkDone, TypedState
  <2> QED
    BY <1>1, <2>2, <2>3 DEF TypedState
<1>7. CASE Troubled(b)
  <2>1. BreakerInv' /\ RowType' /\ worker' \in [Book -> Workers]
    BY <1>3, <1>4, <1>7, SameBreaker DEF Troubled, TypedState, RowType, Results, Answers, Unasked, Phases
  <2> QED
    BY <1>1, <2>1 DEF TypedState
<1>8. CASE OwnGrace(b)
  <2>1. BreakerInv'
    BY <1>8, SameBreaker DEF OwnGrace, TypedState
  <2>2. CASE Holds(brk)
    <3>1. worker' \in [Book -> Workers] /\ RowType'
      BY <1>3, <1>8, <2>2 DEF OwnGrace, TypedState, RowType, Results, Answers, Unasked, Phases
    <3> QED
      BY <1>1, <2>1, <3>1 DEF TypedState
  <2>3. CASE ~Holds(brk)
    <3> DEFINE r == Bumped(row[b])
    <3>1. row' = [row EXCEPT ![b] = r]
          /\ Came(b, IF r.clock < Grace THEN "forgiven" ELSE "failed", "record")
      BY <1>8, <2>3 DEF OwnGrace
    <3>2. r \in Rows
      BY <1>2, RowOperators
    <3> HIDE DEF r
    <3>3. RowType'
      BY <1>5, <3>1, <3>2
    <3>4. worker' \in [Book -> Workers]
      BY <1>3, <3>1 DEF Results, Answers, Unasked, Phases
    <3> QED
      BY <1>1, <2>1, <3>3, <3>4 DEF TypedState
  <2> QED
    BY <2>2, <2>3
<1>9. CASE Record(b)
  <2>1. BreakerInv' /\ RowType'
    BY <1>9, Operations, LockedStepKeepsShape DEF Record, TypedState
  <2>2. worker' \in [Book -> Workers]
    BY <1>4, <1>9 DEF Record, Phases
  <2> QED
    BY <1>1, <2>1, <2>2 DEF TypedState
<1>10. CASE Check(b)
  <2>1. worker[b].res \in Results
    BY <1>2 DEF Workers
  <2>2. BreakerInv' /\ RowType' /\ worker' \in [Book -> Workers]
    BY <1>3, <1>10, <2>1, SameBreaker DEF Check, TypedState, RowType, Results, Answers, Unasked, Phases
  <2> QED
    BY <1>1, <2>2 DEF TypedState
<1>12. CASE Settle(b)
  <2>1. worker[b].res \in Results
    BY <1>2 DEF Workers
  <2>2. BreakerInv' /\ RowType'
    BY <1>12, <2>1, Operations, LockedStepKeepsShape, SameBreaker
       DEF Settle, TypedState, RowType
  <2>3. worker' \in [Book -> Workers]
    BY <1>12, WorkerWrites DEF Settle, TypedState
  <2> QED
    BY <1>1, <2>2, <2>3 DEF TypedState
<1>13. CASE Forgive(b)
  <2> DEFINE r == Bumped(row[b])
  <2>1. r \in Rows
    BY <1>2, RowOperators
  <2>2. ForgivenRow(r) \in Rows
    BY <2>1, RowOperators
  <2>3. row' = [row EXCEPT ![b] = IF r.clock < Grace THEN ForgivenRow(r) ELSE r]
    BY <1>13 DEF Forgive
  <2> HIDE DEF r
  <2>4. RowType'
    BY <1>5, <2>1, <2>2, <2>3
  <2>5. BreakerInv' /\ worker' \in [Book -> Workers]
    BY <1>13, SameBreaker, WorkerWrites DEF Forgive, TypedState
  <2> QED
    BY <1>1, <2>4, <2>5 DEF TypedState
<1> QED
  BY <1>6, <1>7, <1>8, <1>9, <1>10, <1>12, <1>13 DEF Finish

LEMMA OutsideTypes ==
  ASSUME TypedState,
         \/ TakeSnapshot \/ ReadBacklog \/ AdoptBacklog \/ Clear \/ Crash \/ Change
         \/ \E b \in Book : Retry(b)
  PROVE  TypedState'
<1>1. CASE TakeSnapshot \/ ReadBacklog
  BY <1>1, SameBreaker DEF TakeSnapshot, ReadBacklog, Holds, TypedState, RowType
<1>2. CASE AdoptBacklog
  <2>1. BreakerInv' /\ RowType'
    BY <1>2, BacklogTrips, LockedStepKeepsShape DEF TypedState
  <2> QED
    BY <1>2, <2>1 DEF AdoptBacklog, TypedState
<1>3. CASE Clear
  <2>1. BreakerInv' /\ RowType'
    BY <1>3, Operations, LockedStepKeepsShape DEF Clear, TypedState
  <2>2. acts' \in 0 .. MaxActs
    BY <1>3, CountAssumption DEF Clear, Act, TypedState
  <2> QED
    BY <1>3, <2>1, <2>2 DEF Clear, TypedState
<1>4. CASE Crash
  <2>1. BreakerInv' /\ RowType'
    BY <1>4, SameBreaker DEF Crash, TypedState, RowType
  <2>2. worker' \in [Book -> Workers]
    BY <1>4, OverdueType DEF Crash, Idle, Workers, Phases, Views, Probes, Results, Answers
  <2> QED
    BY <1>4, <2>1, <2>2 DEF Crash, Holds, TypedState
<1>5. CASE Change
  BY <1>5, SameBreaker, WeatherAssumption DEF Change, TypedState, RowType
<1>6. ASSUME NEW b \in Book, Retry(b) PROVE TypedState'
  <2>1. FreshRow \in Rows
    BY CountAssumption, TimeAssumption DEF FreshRow, Rows, Statuses, NoClock
  <2>2. RowType'
    BY <1>6, <2>1 DEF Retry, TypedState, RowType
  <2>3. acts' \in 0 .. MaxActs
    BY <1>6, CountAssumption DEF Retry, Act, TypedState
  <2> QED
    BY <1>6, <2>2, <2>3, SameBreaker DEF Retry, TypedState
<1> QED
  BY <1>1, <1>2, <1>3, <1>4, <1>5, <1>6

LEMMA TickTypes ==
  ASSUME TypedState, Tick
  PROVE  TypedState'
<1>1. brk' \in Breakers /\ brk'.state = brk.state /\ brk'.backoff = brk.backoff
      /\ brk'.failures = brk.failures /\ brk'.probe = brk.probe
      /\ brk'.wait = Larger(brk.wait - 1, 0)
  <2> DEFINE g == IF brk.failures > 0 THEN Smaller(brk.gap + 1, Window + 1) ELSE 0
             w == Larger(brk.wait - 1, 0)
             p == IF brk.probe # None THEN Smaller(brk.probeAge + 1, ProbeStale + 1) ELSE 0
  <2>1. brk \in Breakers /\ brk' = [brk EXCEPT !.gap = g, !.wait = w, !.probeAge = p]
    BY DEF Tick, TypedState, BreakerInv
  <2>2. g \in 0 .. Window + 1 /\ w \in 0 .. CoolMax /\ p \in 0 .. ProbeStale + 1
    BY <2>1, TimeAssumption DEF Breakers, Smaller, Larger
  <2>3. w = Larger(brk.wait - 1, 0)
    OBVIOUS
  <2> HIDE DEF g, w, p
  <2> QED
    BY <2>1, <2>2, <2>3 DEF Breakers
<1>2. BreakerInv'
  <2>1. brk.wait = 0 => Larger(brk.wait - 1, 0) = 0
    BY DEF Larger
  <2> QED
    BY <1>1, <2>1 DEF TypedState, BreakerInv, BreakerShape
<1>3. RowType'
  <2>1. ASSUME NEW b \in Book
        PROVE  [row[b] EXCEPT !.clock =
                  IF @ = NoClock THEN @ ELSE Smaller(@ + 1, Grace)] \in Rows
    <3>1. row[b] \in Rows
      BY DEF TypedState, RowType
    <3>2. (IF row[b].clock = NoClock THEN row[b].clock
           ELSE Smaller(row[b].clock + 1, Grace)) \in NoClock .. Grace
      BY <3>1, TimeAssumption DEF Rows, NoClock, Smaller
    <3> QED
      BY <3>1, <3>2 DEF Rows
  <2> QED
    BY <2>1 DEF Tick, RowType
<1>4. worker' \in [Book -> Workers]
  <2>1. ASSUME NEW b \in Book PROVE Older(worker[b]) \in Workers
    <3>1. worker[b] \in Workers /\ (worker[b].pc \in Settling => worker[b].late < MaxSettle)
      BY DEF Tick, TypedState
    <3>2. Smaller(worker[b].age + 1, Overdue) \in 0 .. Overdue
      BY <3>1, OverdueType DEF Workers, Smaller
    <3>3. worker[b].pc \in Settling => worker[b].late + 1 \in 0 .. MaxSettle
      BY <3>1, OverdueType DEF Workers
    <3> QED
      BY <3>1, <3>2, <3>3 DEF Older, Workers
  <2> QED
    BY <2>1 DEF Tick, TypedState
<1> QED
  BY <1>2, <1>3, <1>4 DEF Tick, TypedState

LEMMA TypeStep == TypedState /\ [Next]_vars => TypedState'
<1> SUFFICES ASSUME TypedState, [Next]_vars PROVE TypedState'
  OBVIOUS
<1>1. CASE UNCHANGED vars
  BY <1>1, SameBreaker DEF vars, TypedState, RowType
<1>2. ASSUME NEW b \in Book, Submit(b) \/ Gate(b) \/ Finish(b) PROVE TypedState'
  BY <1>2, SubmitTypes, GateTypes, FinishTypes
<1> QED
  BY <1>1, <1>2, OutsideTypes, TickTypes DEF Next

LEMMA TypeInit == Init => TypedState
<1> SUFFICES ASSUME Init PROVE TypedState
  OBVIOUS
<1> USE TimeAssumption, CountAssumption
<1>1. BreakerInv
  BY DEF Init, BreakerInv, BreakerShape, ClosedBreaker, Breakers, States
<1>2. RowType
  <2>1. FreshRow \in Rows
    BY DEF FreshRow, Rows, Statuses, NoClock
  <2> QED
    BY <2>1 DEF Init, RowType
<1>3. worker \in [Book -> Workers]
  BY OverdueType DEF Init, Idle, Workers, Phases, Views, Probes, Results, Answers
<1>4. acts \in 0 .. MaxActs
  BY DEF Init
<1> QED
  BY <1>1, <1>2, <1>3, <1>4, WeatherAssumption DEF Init, TypedState

(* Every variable of the breaker and of its workers stays in its type.       *)
THEOREM TypeCorrect == Spec => []TypeOK
<1>1. Init => TypedState
  BY TypeInit
<1>2. TypedState /\ [Next]_vars => TypedState'
  BY TypeStep
<1>3. TypedState => TypeOK
  BY TypedStateIs
<1> QED
  BY <1>1, <1>2, <1>3, PTL DEF Spec

(* The breaker's row is always in a shape its own functions leave.           *)
THEOREM ShapeHolds == Spec => []BreakerShape
<1>1. TypedState => BreakerShape
  BY TypedStateIs
<1> QED
  BY <1>1, TypeInit, TypeStep, PTL DEF Spec

-----------------------------------------------------------------------------
(* The probe.  The invariant that is inductive says what a book let through  *)
(* the gate can rely on until its run is overdue; that no two of them try    *)
(* the service in that time follows step by step.                            *)

ProbeInv == TypedState /\ ClaimsAreFresh /\ ProbeExclusive

(* No new run came through the gate, and none got older.                     *)
RunsKept ==
  \A c \in Book : worker'[c].pc \in Active =>
    \/ worker'[c].probe = "none"
    \/ /\ worker[c].pc \in Active
       /\ worker'[c].probe = worker[c].probe /\ worker'[c].age = worker[c].age

(* While a run let through the gate is not overdue no cooldown runs out, and *)
(* its claim does not get stale.                                             *)
LEMMA NoLazyMove ==
  ASSUME ProbeInv, NEW b \in Book, worker[b].pc \in Active,
         worker[b].age < Overdue, worker[b].probe # "none"
  PROVE  /\ ~(brk.state = "open" /\ brk.wait = 0)
         /\ worker[b].probe \in {"claimed", "passed"} => Refreshed(brk) = brk
<1>1. worker[b].age \in Nat /\ brk \in Breakers
  BY OverdueType DEF ProbeInv, TypedState, BreakerInv, Workers
<1>2. ~(brk.state = "open" /\ brk.wait = 0)
  BY <1>1, OverdueType, TimeAssumption DEF ProbeInv, ClaimsAreFresh
<1>3. ASSUME worker[b].probe \in {"claimed", "passed"}
      PROVE  ~(brk.state = "half_open" /\ brk.probeAge > ProbeStale)
  BY <1>1, <1>3, OverdueType, TimeAssumption DEF ProbeInv, ClaimsAreFresh, Breakers
<1> QED
  BY <1>2, <1>3 DEF Refreshed

(* What one run relies on, kept by every operation of the breaker.           *)
LEMMA RunKept ==
  ASSUME ProbeInv, LockedStep \/ brk' = brk,
         NEW b \in Book, worker'[b].pc \in Active, worker'[b].age < Overdue,
         worker'[b].probe # "none", worker[b].pc \in Active,
         worker'[b].probe = worker[b].probe, worker'[b].age = worker[b].age
  PROVE  /\ worker'[b].probe = "claimed" /\ brk'.state = "half_open" =>
              brk'.probe = b /\ brk'.probeAge = worker'[b].age
         /\ worker'[b].probe = "passed" => brk'.state # "half_open"
         /\ brk'.state = "open" => brk'.wait + worker'[b].age >= CoolBase
<1> DEFINE k == Refreshed(brk)
<1>1. /\ ~(brk.state = "open" /\ brk.wait = 0)
      /\ worker[b].probe \in {"claimed", "passed"} => k = brk
  BY NoLazyMove
<1>2. worker[b].age \in Nat
  BY OverdueType DEF ProbeInv, TypedState, Workers
<1>3. brk \in Breakers /\ k \in Breakers
      /\ (k.state = "closed" <=> brk.state = "closed") /\ k.backoff = brk.backoff
  BY RefreshedType DEF ProbeInv, TypedState, BreakerInv
<1>4. k = brk \/ k.state = "half_open"
  BY <1>1, <1>3 DEF Refreshed, Breakers
<1>5. CASE brk' = brk
  BY <1>5 DEF ProbeInv, ClaimsAreFresh
<1>6. CASE brk' = k
  BY <1>1, <1>4, <1>6 DEF ProbeInv, ClaimsAreFresh
<1>7. CASE brk' = ClosedBreaker
  BY <1>7 DEF ClosedBreaker
<1>8. ASSUME NEW w \in WaitTimes(k), brk' = Opened(k, w)
      PROVE  brk'.state = "open" /\ brk'.wait + worker[b].age >= CoolBase
  <2>1. /\ k.state # "closed" => k.backoff >= CoolBase
        /\ k.backoff = 0 \/ k.backoff >= CoolBase
    BY <1>3 DEF ProbeInv, TypedState, BreakerInv, BreakerShape
  <2>2. w \in CoolBase .. CoolMax
    BY <1>3, <1>8, <2>1, OpenedType
  <2>3. brk'.state = "open" /\ brk'.wait = w
    BY <1>8 DEF Opened
  <2> QED
    BY <1>2, <2>2, <2>3, TimeAssumption
<1>9. ASSUME k.state = "closed", NEW f \in 0 .. Threshold - 1,
             brk' = [k EXCEPT !.failures = f, !.gap = 0]
      PROVE  brk'.state = "closed"
  BY <1>3, <1>9 DEF Breakers
<1>10. \/ brk' = brk \/ brk' = k \/ brk' = ClosedBreaker
       \/ brk'.state = "closed"
       \/ brk'.state = "open" /\ brk'.wait + worker[b].age >= CoolBase
  BY <1>8, <1>9 DEF LockedStep
<1> QED
  BY <1>5, <1>6, <1>7, <1>10

LEMMA TriesKept ==
  ASSUME ProbeInv, RunsKept
  PROVE  ProbeExclusive'
<1>1. \A b \in Book : Trying(b)' => Trying(b)
  BY DEF RunsKept, Trying
<1> QED
  BY <1>1 DEF ProbeExclusive, ProbeInv

LEMMA ClaimsKept ==
  ASSUME ProbeInv, LockedStep \/ brk' = brk, RunsKept
  PROVE  ClaimsAreFresh' /\ ProbeExclusive'
<1>1. ASSUME NEW b \in Book, worker'[b].pc \in Active, worker'[b].age < Overdue
      PROVE  /\ worker'[b].probe = "claimed" /\ brk'.state = "half_open" =>
                  brk'.probe = b /\ brk'.probeAge = worker'[b].age
             /\ worker'[b].probe = "passed" => brk'.state # "half_open"
             /\ worker'[b].probe # "none" /\ brk'.state = "open" =>
                  brk'.wait + worker'[b].age >= CoolBase
  <2>1. CASE worker'[b].probe = "none"
    BY <2>1
  <2>2. CASE worker'[b].probe # "none"
    <3>1. /\ worker[b].pc \in Active
          /\ worker'[b].probe = worker[b].probe /\ worker'[b].age = worker[b].age
      BY <1>1, <2>2 DEF RunsKept
    <3> QED
      BY <1>1, <2>2, <3>1, RunKept
  <2> QED
    BY <2>1, <2>2
<1>2. ClaimsAreFresh'
  BY <1>1 DEF ClaimsAreFresh
<1> QED
  BY <1>2, TriesKept

LEMMA SubmitKeepsRuns == ASSUME NEW b \in Book, Submit(b), TypedState PROVE RunsKept
<1> DEFINE v == IF ~snapshot THEN "free"
                ELSE IF row[b].status = "held" THEN "noted" ELSE "holding"
<1>1. worker' = [worker EXCEPT ![b] = [Idle EXCEPT !.pc = "ready", !.saw = v]]
  BY DEF Submit
<1>2. worker'[b].pc = "ready" /\ \A c \in Book : c # b => worker'[c] = worker[c]
  BY <1>1 DEF Idle, TypedState
<1> QED
  BY <1>2 DEF RunsKept, Active, Settling

(* A worker that moves on inside its run keeps claim and age; out of it, it  *)
(* is no longer running.                                                     *)
LEMMA FinishKeepsRuns == ASSUME NEW b \in Book, Finish(b), TypedState PROVE RunsKept
<1>1. worker[b] \in Workers
  BY DEF TypedState
<1>2. ASSUME NEW res \in Results, NEW p \in Phases, Came(b, res, p), worker[b].pc \in Active
      PROVE  RunsKept
  BY <1>1, <1>2 DEF Came, RunsKept, TypedState, Workers
<1>3. ASSUME NEW p \in Phases, GoTo(b, p), worker[b].pc \in Active PROVE RunsKept
  BY <1>1, <1>3 DEF GoTo, RunsKept, TypedState, Workers
<1>4. ASSUME NEW w, worker' = [worker EXCEPT ![b] = Over(w)] \/ worker' = [worker EXCEPT ![b] = Idle]
      PROVE  RunsKept
  <2>1. worker'[b].pc \in {"idle", "forgive"}
    BY <1>1, <1>4 DEF Over, Idle, TypedState
  <2>2. \A c \in Book : c # b => worker'[c] = worker[c]
    BY <1>4 DEF TypedState
  <2> QED
    BY <2>1, <2>2 DEF RunsKept, Active, Settling
<1>6. CASE Answered(b) \/ NotAsked(b) \/ Unserved(b) \/ MarkDone(b)
  <2>1. worker[b].pc \in Active
    BY <1>6 DEF Answered, NotAsked, Unserved, MarkDone, At, Active, Settling
  <2>2. PICK r \in Rows, res \in Results : Marked(b, r, res)
    BY <1>6, MarksATypedRow
  <2>3. /\ \A c \in Book : c # b => worker'[c] = worker[c]
        /\ \/ worker'[b].pc \in {"idle", "forgive"}
           \/ worker'[b].probe = worker[b].probe /\ worker'[b].age = worker[b].age
    BY <2>2, MarkedWrites DEF TypedState
  <2> QED
    BY <2>1, <2>3 DEF RunsKept, Active, Settling
<1>7. CASE Troubled(b)
  BY <1>2, <1>3, <1>7 DEF Troubled, At, Active, Settling, Results, Phases
<1>8. CASE OwnGrace(b)
  BY <1>2, <1>8 DEF OwnGrace, At, Active, Settling, Results, Phases
<1>9. CASE Record(b)
  BY <1>3, <1>9 DEF Record, At, Active, Settling, Phases
<1>10. CASE Check(b)
  BY <1>1, <1>2, <1>10 DEF Check, At, Active, Settling, Results, Phases, Workers
<1>12. CASE Settle(b)
  BY <1>4, <1>12 DEF Settle
<1>13. CASE Forgive(b)
  BY <1>4, <1>13 DEF Forgive
<1> QED
  BY <1>6, <1>7, <1>8, <1>9, <1>10, <1>12, <1>13 DEF Finish

LEMMA FinishIsLocked ==
  ASSUME NEW b \in Book, Finish(b), TypedState PROVE LockedStep \/ brk' = brk
<1>1. worker[b].res \in Results
  BY DEF TypedState, Workers
<1> QED
  BY <1>1, Operations
     DEF Finish, Answered, NotAsked, Unserved, Troubled, OwnGrace, Record, Check, MarkDone,
         Settle, Forgive, TypedState

(* The gate is where claims are made.                                        *)
LEMMA GateKeepsClaims ==
  ASSUME ProbeInv, NEW b \in Book, Gate(b)
  PROVE  ClaimsAreFresh' /\ ProbeExclusive'
<1> DEFINE k == Refreshed(brk)
<1>1. worker \in [Book -> Workers] /\ k \in Breakers
      /\ (k.state = "closed" <=> brk.state = "closed")
  BY RefreshedType DEF ProbeInv, TypedState
<1>2. ASSUME NEW how \in Probes, RunStage(b, how)
      PROVE  /\ worker'[b].pc = "run" /\ worker'[b].probe = how /\ worker'[b].age = 0
             /\ \A c \in Book : c # b => worker'[c] = worker[c]
  BY <1>1, <1>2 DEF RunStage, Idle
<1>3. CASE RunUngated(b)
  <2>1. RunsKept /\ brk' = brk
    BY <1>2, <1>3 DEF RunUngated, RunsKept, Probes
  <2> QED
    BY <2>1, ClaimsKept
<1>4. CASE MarkHeld(b) \/ ClaimRefused(b)
  <2>1. worker'[b].pc \notin Active /\ \A c \in Book : c # b => worker'[c] = worker[c]
    BY <1>1, <1>4 DEF MarkHeld, ClaimRefused, GoTo, Idle, Active, Settling, Workers
  <2>2. LockedStep \/ brk' = brk
    BY <1>4 DEF MarkHeld, ClaimRefused, LockedStep
  <2> QED
    BY <2>1, <2>2, ClaimsKept DEF RunsKept
<1>5. ASSUME NEW how \in {"passed", "again"}, RunStage(b, how), brk' = k,
             k.state # "open", how = "passed" => k.state = "closed"
      PROVE  ClaimsAreFresh' /\ ProbeExclusive'
  <2>1. /\ worker'[b].probe = how /\ \A c \in Book : c # b => worker'[c] = worker[c]
    BY <1>2, <1>5 DEF Probes
  <2>2. LockedStep
    BY <1>5 DEF LockedStep
  <2>3. ASSUME NEW c \in Book, worker'[c].pc \in Active, worker'[c].age < Overdue
        PROVE  /\ worker'[c].probe = "claimed" /\ brk'.state = "half_open" =>
                    brk'.probe = c /\ brk'.probeAge = worker'[c].age
               /\ worker'[c].probe = "passed" => brk'.state # "half_open"
               /\ worker'[c].probe # "none" /\ brk'.state = "open" =>
                    brk'.wait + worker'[c].age >= CoolBase
    <3>1. CASE c = b
      BY <1>5, <2>1, <3>1
    <3>2. CASE c # b /\ worker'[c].probe # "none"
      BY <2>1, <2>2, <2>3, <3>2, RunKept
    <3> QED
      BY <3>1, <3>2
  <2>4. ClaimsAreFresh'
    BY <2>3 DEF ClaimsAreFresh
  <2>5. \A c \in Book : Trying(c)' => Trying(c)
    BY <2>1 DEF Trying
  <2> QED
    BY <2>4, <2>5 DEF ProbeExclusive, ProbeInv
<1>7. CASE ClaimsFree(b)
  <2>1. k.state = "half_open" /\ k.probe = None /\ RunStage(b, "claimed")
        /\ brk' = [k EXCEPT !.probe = b, !.probeAge = 0]
    BY <1>7 DEF ClaimsFree
  <2>2. ASSUME NEW c \in Book, worker[c].pc \in Active, worker[c].age < Overdue
        PROVE  worker[c].probe \notin {"claimed", "passed"}
    <3>1. SUFFICES ASSUME worker[c].probe \in {"claimed", "passed"} PROVE FALSE
      OBVIOUS
    <3>2. k = brk
      BY <2>2, <3>1, NoLazyMove
    <3>3. c = None
      BY <2>1, <2>2, <3>1, <3>2 DEF ProbeInv, ClaimsAreFresh
    <3> QED
      BY <3>3, BookAssumption
  <2>3. brk'.state = "half_open" /\ brk'.probe = b /\ brk'.probeAge = 0
    BY <1>1, <2>1 DEF Breakers
  <2>4. /\ worker'[b].probe = "claimed" /\ worker'[b].age = 0
        /\ \A c \in Book : c # b => worker'[c] = worker[c]
    BY <1>2, <2>1 DEF Probes
  <2>5. ASSUME NEW c \in Book, worker'[c].pc \in Active, worker'[c].age < Overdue,
               worker'[c].probe \in {"claimed", "passed"}
        PROVE  c = b
    BY <2>2, <2>4, <2>5
  <2>6. ClaimsAreFresh'
    BY <2>3, <2>4, <2>5 DEF ClaimsAreFresh
  <2>7. ProbeExclusive'
    BY <2>5 DEF ProbeExclusive, Trying
  <2> QED
    BY <2>6, <2>7
<1> QED
  BY <1>3, <1>4, <1>5, <1>7 DEF Gate, ClaimGranted

(* Time passes for a run, its claim and the cooldown alike.                  *)
LEMMA TickKeepsClaims ==
  ASSUME ProbeInv, Tick
  PROVE  ClaimsAreFresh' /\ ProbeExclusive'
<1>1. ASSUME NEW b \in Book
      PROVE  /\ worker'[b].pc = worker[b].pc /\ worker'[b].probe = worker[b].probe
             /\ worker[b].pc \in Active /\ worker[b].probe # "none" =>
                  worker'[b].age = Smaller(worker[b].age + 1, Overdue)
             /\ worker[b].age \in Nat
  <2>1. worker'[b] = Older(worker[b])
    BY DEF Tick
  <2>2. worker[b] \in Workers
    BY DEF ProbeInv, TypedState
  <2> QED
    BY <2>1, <2>2, OverdueType DEF Older, Workers
<1>2. /\ brk \in Breakers /\ brk'.state = brk.state /\ brk'.probe = brk.probe
      /\ brk'.wait = Larger(brk.wait - 1, 0)
      /\ brk.probe # None => brk'.probeAge = Smaller(brk.probeAge + 1, ProbeStale + 1)
  BY DEF Tick, ProbeInv, TypedState, BreakerInv, Breakers
<1>3. ASSUME NEW b \in Book, worker'[b].pc \in Active, worker'[b].age < Overdue,
             worker'[b].probe # "none"
      PROVE  /\ worker[b].pc \in Active /\ worker[b].probe = worker'[b].probe
             /\ worker'[b].age = worker[b].age + 1 /\ worker[b].age < Overdue
             /\ worker[b].age \in Nat
  BY <1>1, <1>3, OverdueType DEF Smaller
<1>4. ASSUME NEW b \in Book, worker'[b].pc \in Active, worker'[b].age < Overdue
      PROVE  /\ worker'[b].probe = "claimed" /\ brk'.state = "half_open" =>
                  brk'.probe = b /\ brk'.probeAge = worker'[b].age
             /\ worker'[b].probe = "passed" => brk'.state # "half_open"
             /\ worker'[b].probe # "none" /\ brk'.state = "open" =>
                  brk'.wait + worker'[b].age >= CoolBase
  <2>2. ASSUME worker'[b].probe = "claimed", brk'.state = "half_open"
        PROVE  brk'.probe = b /\ brk'.probeAge = worker'[b].age
    <3>0. /\ worker[b].pc \in Active /\ worker[b].probe = "claimed"
          /\ worker'[b].age = worker[b].age + 1 /\ worker[b].age < Overdue
          /\ worker[b].age \in Nat
      BY <1>3, <1>4, <2>2
    <3>1. brk.probe = b /\ brk.probeAge = worker[b].age
      BY <1>2, <3>0, <2>2 DEF ProbeInv, ClaimsAreFresh
    <3>2. brk'.probeAge = Smaller(worker[b].age + 1, ProbeStale + 1)
      BY <1>2, <3>1, BookAssumption
    <3>3. worker[b].age + 1 <= ProbeStale + 1
      BY <3>0, OverdueType, TimeAssumption
    <3> QED
      BY <1>2, <3>0, <3>1, <3>2, <3>3, TimeAssumption DEF Smaller
  <2>3. worker'[b].probe = "passed" => brk'.state # "half_open"
    BY <1>2, <1>3, <1>4 DEF ProbeInv, ClaimsAreFresh
  <2>4. ASSUME worker'[b].probe # "none", brk'.state = "open"
        PROVE  brk'.wait + worker'[b].age >= CoolBase
    <3>0. /\ worker[b].pc \in Active /\ worker[b].probe # "none"
          /\ worker'[b].age = worker[b].age + 1 /\ worker[b].age < Overdue
          /\ worker[b].age \in Nat
      BY <1>3, <1>4, <2>4
    <3>1. brk.wait + worker[b].age >= CoolBase
      BY <1>2, <3>0, <2>4 DEF ProbeInv, ClaimsAreFresh
    <3>2. brk.wait \in Nat
      BY <1>2, TimeAssumption DEF Breakers
    <3>3. brk'.wait >= brk.wait - 1 /\ brk'.wait \in Nat
      BY <1>2, <3>2 DEF Larger
    <3> QED
      BY <3>0, <3>1, <3>2, <3>3, TimeAssumption
  <2> QED
    BY <2>2, <2>3, <2>4
<1>5. ClaimsAreFresh'
  BY <1>4 DEF ClaimsAreFresh
<1>6. \A b \in Book : Trying(b)' => Trying(b)
  BY <1>3 DEF Trying
<1> QED
  BY <1>5, <1>6 DEF ProbeExclusive, ProbeInv

LEMMA OutsideKeepsClaims ==
  ASSUME ProbeInv,
         \/ TakeSnapshot \/ ReadBacklog \/ AdoptBacklog \/ Clear \/ Crash \/ Change
         \/ \E b \in Book : Retry(b)
         \/ UNCHANGED vars
  PROVE  ClaimsAreFresh' /\ ProbeExclusive'
<1>1. LockedStep \/ brk' = brk
  BY Operations, BacklogTrips
     DEF TakeSnapshot, ReadBacklog, Clear, Crash, Change, Retry, vars, ProbeInv, TypedState
<1>2. CASE worker' = worker
  BY <1>1, <1>2, ClaimsKept DEF RunsKept
<1>3. CASE Crash
  BY <1>1, <1>3, ClaimsKept DEF RunsKept, Crash, Idle
<1> QED
  BY <1>2, <1>3 DEF TakeSnapshot, ReadBacklog, AdoptBacklog, Clear, Change, Retry, vars

LEMMA ProbeStep == ProbeInv /\ [Next]_vars => ProbeInv'
<1> SUFFICES ASSUME ProbeInv, [Next]_vars PROVE ProbeInv'
  OBVIOUS
<1>1. TypedState'
  BY TypeStep DEF ProbeInv
<1>2. ASSUME NEW b \in Book, Submit(b) PROVE ClaimsAreFresh' /\ ProbeExclusive'
  <2>1. RunsKept /\ brk' = brk
    BY <1>2, SubmitKeepsRuns DEF ProbeInv, Submit
  <2> QED
    BY <2>1, ClaimsKept
<1>3. ASSUME NEW b \in Book, Finish(b) PROVE ClaimsAreFresh' /\ ProbeExclusive'
  <2>1. RunsKept /\ (LockedStep \/ brk' = brk)
    BY <1>3, FinishKeepsRuns, FinishIsLocked DEF ProbeInv
  <2> QED
    BY <2>1, ClaimsKept
<1>4. ClaimsAreFresh' /\ ProbeExclusive'
  BY <1>2, <1>3, GateKeepsClaims, TickKeepsClaims, OutsideKeepsClaims DEF Next
<1> QED
  BY <1>1, <1>4 DEF ProbeInv

LEMMA ProbeInit == Init => ProbeInv
  BY TypeInit DEF Init, ProbeInv, ClaimsAreFresh, ProbeExclusive, Trying, Idle, Active, Settling

(* Of all the books that run on a probe they have claimed, however long any  *)
(* of them has taken, at most one is not overdue: none is let through while  *)
(* another one still has its time.                                           *)
THEOREM OneProbe == Spec => []ProbeExclusive
<1>1. ProbeInv => ProbeExclusive
  BY DEF ProbeInv
<1> QED
  BY <1>1, ProbeInit, ProbeStep, PTL DEF Spec

(* A run let through the gate settles no probe but the one it claimed,       *)
(* unless it is overdue, though resolve_probe itself asks nobody's name.     *)
THEOREM OwnVerdict == Spec => []VerdictIsTheClaimants
<1>1. ASSUME ProbeInv PROVE VerdictIsTheClaimants
  <2>1. SUFFICES ASSUME NEW b \in Book, At(b, "settle"),
                        worker[b].probe \in {"passed", "claimed"},
                        worker[b].age < Overdue,
                        EffectiveState(brk) = "half_open"
                 PROVE  worker[b].probe = "claimed" /\ brk.probe = b
    BY DEF VerdictIsTheClaimants
  <2>2. worker[b].pc \in Active
    BY <2>1 DEF At, Active, Settling
  <2>3. brk.state = "half_open"
    <3>1. Refreshed(brk) = brk
      BY <2>1, <2>2, <1>1, NoLazyMove
    <3> QED
      BY <1>1, <2>1, <3>1, RefreshedType DEF ProbeInv, TypedState
  <2> QED
    BY <1>1, <2>1, <2>2, <2>3 DEF ProbeInv, ClaimsAreFresh
<1> QED
  BY <1>1, ProbeInit, ProbeStep, PTL DEF Spec

=============================================================================
