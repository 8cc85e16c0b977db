--------------------------- MODULE SchedulerProofs ---------------------------
(***************************************************************************)
(* Of any number of books, workers and phases: the types, _in_flight is    *)
(* what is in somebody's hands, a book is in one pair of hands, and the    *)
(* safety part of BookTurns.  The order of the list plays no part in it;   *)
(* that it gives every book its turn is checked by TLC.                    *)
(***************************************************************************)
EXTENDS Scheduler, FiniteSetTheorems, SequenceTheorems, TLAPS

-----------------------------------------------------------------------------
(* The work queue of the pool.                                             *)

(* The books that are queued by their claims, no two items for one of them.  *)
Queued(s) == {i.book : i \in {j \in Range(s) : j.claimed}}
Distinct(s) ==
  \A i, j \in DOMAIN s : i # j /\ s[i].claimed /\ s[j].claimed => s[i].book # s[j].book
Claimed(s) == \A i \in DOMAIN s : s[i].claimed

(* A new work item comes last.                                               *)
LEMMA Appended ==
  ASSUME NEW s \in Seq(Items), NEW b \in Book, NEW claim \in BOOLEAN
  PROVE  LET t == Append(s, Item(b, claim))
         IN  /\ t \in Seq(Items)
             /\ Queued(t) = Queued(s) \cup (IF claim THEN {b} ELSE {})
             /\ Distinct(s) /\ (claim => b \notin Queued(s)) => Distinct(t)
             /\ Claimed(s) /\ claim => Claimed(t)
<1>. DEFINE i == Item(b, claim)
            t == Append(s, i)
<1>0. i \in Items /\ i.book = b /\ i.claimed = claim
  BY DEF Item, Items
<1>. HIDE DEF i
<1>1. /\ t \in Seq(Items) /\ Len(t) = Len(s) + 1
      /\ \A k \in 1..Len(s) : t[k] = s[k]
      /\ t[Len(s) + 1] = i
  BY <1>0, AppendProperties
<1>2. DOMAIN s = 1..Len(s) /\ DOMAIN t = 1..Len(s) + 1 /\ Len(s) \in Nat
  BY <1>1, LenProperties
<1>. HIDE DEF t
<1>3. Range(t) = Range(s) \cup {i}
  BY <1>1, <1>2 DEF Range
<1>4. Queued(t) = Queued(s) \cup (IF claim THEN {b} ELSE {})
  BY <1>0, <1>3 DEF Queued
<1>5. \A k \in DOMAIN s : s[k].claimed => s[k].book \in Queued(s)
  BY DEF Queued, Range
<1>6. Distinct(s) /\ (claim => b \notin Queued(s)) => Distinct(t)
  BY <1>0, <1>1, <1>2, <1>5 DEF Distinct
<1>7. Claimed(s) /\ claim => Claimed(t)
  <2>. SUFFICES ASSUME Claimed(s), claim, NEW k \in DOMAIN t PROVE t[k].claimed
    BY DEF Claimed
  <2>1. CASE k \in DOMAIN s BY <2>1, <1>1, <1>2 DEF Claimed
  <2>2. CASE k = Len(s) + 1 BY <2>2, <1>0, <1>1
  <2>. QED BY <2>1, <2>2, <1>2
<1>. QED BY <1>1, <1>4, <1>6, <1>7 DEF t, i

(* The head is the work item that leaves, and no other is of its claim.      *)
LEMMA HeadTaken ==
  ASSUME NEW s \in Seq(Items), s # <<>>
  PROVE  /\ Head(s) \in Items /\ Tail(s) \in Seq(Items)
         /\ Queued(s) = Queued(Tail(s)) \cup (IF Head(s).claimed THEN {Head(s).book} ELSE {})
         /\ Distinct(s) => /\ Distinct(Tail(s))
                           /\ Head(s).claimed => Head(s).book \notin Queued(Tail(s))
         /\ Claimed(s) => Claimed(Tail(s)) /\ Head(s).claimed
<1>1. /\ Head(s) \in Items /\ Tail(s) \in Seq(Items) /\ Len(Tail(s)) = Len(s) - 1
      /\ \A i \in 1..Len(Tail(s)) : Tail(s)[i] = s[i + 1]
  BY HeadTailProperties
<1>2. DOMAIN s = 1..Len(s) /\ DOMAIN Tail(s) = 1..Len(s) - 1 /\ Len(s) \in Nat /\ Len(s) # 0
  BY <1>1, LenProperties, EmptySeq
<1>3. Head(s) = s[1]
  OBVIOUS
<1>4. Range(s) = Range(Tail(s)) \cup {Head(s)}
  <2>1. ASSUME NEW i \in DOMAIN s PROVE s[i] \in Range(Tail(s)) \cup {Head(s)}
    <3>1. CASE i = 1 BY <3>1, <1>3
    <3>2. CASE i # 1
      <4>1. i - 1 \in DOMAIN Tail(s) /\ Tail(s)[i - 1] = s[i]
        BY <3>2, <2>1, <1>1, <1>2
      <4>. QED BY <4>1 DEF Range
    <3>. QED BY <3>1, <3>2
  <2>2. ASSUME NEW i \in DOMAIN Tail(s) PROVE Tail(s)[i] \in Range(s)
    BY <2>2, <1>1, <1>2 DEF Range
  <2>3. Head(s) \in Range(s)
    BY <1>2, <1>3 DEF Range
  <2>. QED BY <2>1, <2>2, <2>3 DEF Range
<1>5. Queued(s) = Queued(Tail(s)) \cup (IF Head(s).claimed THEN {Head(s).book} ELSE {})
  BY <1>4 DEF Queued
<1>6. Distinct(s) => Distinct(Tail(s))
  BY <1>1, <1>2 DEF Distinct
<1>7. Distinct(s) /\ Head(s).claimed => Head(s).book \notin Queued(Tail(s))
  <2>. SUFFICES ASSUME Distinct(s), Head(s).claimed,
                       NEW i \in DOMAIN Tail(s), Tail(s)[i].claimed
                PROVE  Tail(s)[i].book # Head(s).book
    BY DEF Range, Queued
  <2>1. i + 1 \in DOMAIN s /\ Tail(s)[i] = s[i + 1] /\ i + 1 # 1 /\ 1 \in DOMAIN s
    BY <1>1, <1>2
  <2>. QED BY <2>1, <1>3 DEF Distinct
<1>8. Claimed(s) => Claimed(Tail(s)) /\ Head(s).claimed
  BY <1>1, <1>2, <1>3 DEF Claimed
<1>. QED BY <1>1, <1>5, <1>6, <1>7, <1>8

-----------------------------------------------------------------------------
(* Types.                                                                  *)

(* A stamped book goes to the end, and the others close up.                  *)
LEMMA Rotation ==
  ASSUME TypeOK, NEW b \in Book
  PROVE  Touched(b) \in [1..Cardinality(Book) -> Book] /\ Range(Touched(b)) = Book
<1>. DEFINE n == Cardinality(Book)
            at == CHOOSE i \in DOMAIN order : order[i] = b
<1>1. n \in Nat
  BY PoolAssumption, FS_CardinalityType
<1>2. DOMAIN order = 1..n /\ order \in [1..n -> Book] /\ Range(order) = Book
  BY DEF TypeOK
<1>3. at \in 1..n /\ order[at] = b
  BY <1>2 DEF Range
<1>. HIDE DEF n, at
<1>4. Touched(b) = [i \in 1..n |-> IF i < at THEN order[i] ELSE IF i < n THEN order[i + 1] ELSE b]
  BY <1>2 DEF Touched, n, at
<1>5. Touched(b) \in [1..n -> Book]
  BY <1>1, <1>2, <1>3, <1>4
<1>6. ASSUME NEW c \in Book PROVE \E i \in 1..n : Touched(b)[i] = c
  <2>1. PICK k \in 1..n : order[k] = c
    BY <1>2 DEF Range
  <2>2. CASE k < at BY <2>1, <2>2, <1>4
  <2>3. CASE k = at
    <3>1. Touched(b)[n] = b BY <1>1, <1>3, <1>4
    <3>. QED BY <3>1, <2>1, <2>3, <1>1, <1>3
  <2>4. CASE k > at
    <3>1. k - 1 \in 1..n /\ ~(k - 1 < at) /\ k - 1 < n /\ (k - 1) + 1 = k
      BY <2>4, <1>1, <1>3
    <3>2. Touched(b)[k - 1] = order[k]
      BY <3>1, <1>4
    <3>. QED BY <3>1, <3>2, <2>1
  <2>. QED BY <2>2, <2>3, <2>4, <1>1, <1>3
<1>7. Range(Touched(b)) = Book
  BY <1>5, <1>6 DEF Range
<1>. QED BY <1>5, <1>7 DEF n

LEMMA InitTyped == Init => TypeOK
<1>. SUFFICES ASSUME Init PROVE TypeOK
  OBVIOUS
<1>1. Len(Phases) \in Nat
  BY PhaseAssumption, LenProperties
<1>0. MaxOdd \in Nat
  BY PhaseAssumption
<1>2. sweep = AtRest /\ AtRest.pc = "idle"
  BY DEF Init, AtRest
<1>3. AtRest \in Sweeps
  BY <1>1 DEF AtRest, Sweeps, Clock, InReserve, Twice
<1>4. \A p \in Range(Phases) : Rest[p] \in Nat
  BY PhaseAssumption
<1>. QED
  <2>1. rest \in [Range(Phases) -> Nat] /\ \A p \in Range(Phases) : rest[p] <= Rest[p]
    BY <1>4 DEF Init
  <2>2. thread \in [Thread -> {Idle} \cup Taken] /\ queue \in Seq(Items)
    BY DEF Init
  <2>3. shut \in BOOLEAN /\ stopped \in BOOLEAN
    BY DEF Init
  <2>5. forced = 0 /\ failed = 0 /\ 0 \in 0..MaxOdd
    BY <1>0 DEF Init
  <2>4. sweep \in Sweeps /\ sweep.pc # "claimed"
    BY <1>2, <1>3
  <2>6. started \subseteq Thread /\ \A t \in Thread : thread[t].pc # "done"
    BY DEF Init, Idle
  <2>. QED BY <2>1, <2>2, <2>3, <2>4, <2>5, <2>6 DEF Init, TypeOK

(* What is left of a sweep's list.                                           *)
LEMMA ListShrinks ==
  ASSUME TypeOK, sweep.list # <<>>
  PROVE  Head(sweep.list) \in Book /\ Tail(sweep.list) \in Seq(Book)
<1>1. sweep.list \in Seq(Book)
  BY DEF TypeOK, Sweeps
<1>. QED BY <1>1, HeadTailProperties

LEMMA StepTyped == TypeOK /\ [Next]_vars => TypeOK'
<1>. SUFFICES ASSUME TypeOK, [Next]_vars PROVE TypeOK'
  OBVIOUS
<1>. USE DEF phases, pool, ended, bounds
<1>0. /\ Len(Phases) \in Nat /\ Phases \in Seq(STRING) /\ MaxOdd \in Nat
      /\ \A p \in Range(Phases) : Rest[p] \in Nat \ {0}
      /\ Rest \in [Range(Phases) -> Nat \ {0}]
  BY PhaseAssumption, LenProperties
<1>r. AtRest \in Sweeps
      /\ AtRest.pc = "idle"
  BY <1>0 DEF AtRest, Sweeps, Clock, InReserve, Twice
<1>1. ASSUME NEW force \in BOOLEAN, BeginSweep(force) PROVE TypeOK'
  <2>1. due' \subseteq Range(Phases)
    BY <1>1 DEF BeginSweep, TypeOK
  <2>2. rest' \in [Range(Phases) -> Nat] /\ \A p \in Range(Phases) : rest'[p] <= Rest[p]
    BY <1>1, <1>0 DEF BeginSweep, TypeOK
  <2>3. forced' \in 0..MaxOdd /\ failed' \in 0..MaxOdd
    BY <1>1, <1>0 DEF BeginSweep, TypeOK
  <2>4. /\ sweep' \in Sweeps
        /\ sweep'.pc = "phase"
    BY <1>1, <1>r DEF BeginSweep, Sweeps
  <2>. QED BY <1>1, <2>1, <2>2, <2>3, <2>4 DEF BeginSweep, TypeOK
<1>2. CASE RunPhase
  <2>1. Phases[sweep.at] \in Range(Phases)
    BY <1>2, <1>0 DEF RunPhase, AtPhase, TypeOK, Range
  <2>2. due' \subseteq Range(Phases)
    BY <1>2 DEF RunPhase, SetTimer, TypeOK
  <2>3. rest' \in [Range(Phases) -> Nat] /\ \A p \in Range(Phases) : rest'[p] <= Rest[p]
    BY <1>2, <1>0, <2>1 DEF RunPhase, SetTimer, TypeOK
  <2>4. PICK now \in InReserve..Over : sweep' = [sweep EXCEPT !.at = @ + 1, !.time = now]
    BY <1>2 DEF RunPhase
  <2>5. now \in Clock
    BY DEF Clock, InReserve, Over, Twice
  <2>6. sweep' \in Sweeps
        /\ sweep'.pc = "phase"
    <3>1. sweep \in Sweeps /\ sweep.at \in 1..Len(Phases) /\ sweep.pc = "phase"
      BY <1>2 DEF RunPhase, AtPhase, TypeOK, Sweeps
    <3>2. sweep.at + 1 \in 1..Len(Phases) + 1
      BY <3>1, <1>0
    <3>. QED BY <3>1, <3>2, <2>4, <2>5 DEF Sweeps
  <2>. QED BY <1>2, <2>2, <2>3, <2>6 DEF RunPhase, TypeOK
<1>3. CASE SkipPhase
  <2>1. sweep \in Sweeps /\ sweep.at \in 1..Len(Phases) /\ sweep.pc = "phase"
    BY <1>3 DEF SkipPhase, AtPhase, TypeOK, Sweeps
  <2>2. sweep.at + 1 \in 1..Len(Phases) + 1
    BY <2>1, <1>0
  <2>3. sweep' \in Sweeps /\ sweep'.pc = "phase"
    BY <1>3, <2>1, <2>2 DEF SkipPhase, Sweeps
  <2>. QED BY <1>3, <2>3 DEF SkipPhase, TypeOK
<1>4. CASE List
  <2>1. Cardinality(Book) \in Nat
    BY PoolAssumption, FS_CardinalityType
  <2>2. order \in Seq(Book)
    BY <2>1, SeqDef DEF TypeOK
  <2>3. sweep' \in Sweeps /\ sweep'.pc = "fill"
    <3>. DEFINE now == IF sweep.time = Over THEN Over ELSE InReserve
    <3>1. now \in Clock
      BY DEF Clock, InReserve, Over, Twice
    <3>2. sweep' = [sweep EXCEPT !.pc = "fill", !.list = order, !.time = now]
      BY <1>4 DEF List
    <3>3. sweep \in Sweeps
      BY DEF TypeOK
    <3>. HIDE DEF now
    <3>. QED BY <3>1, <3>2, <3>3, <2>2 DEF Sweeps
  <2>. QED BY <1>4, <2>3 DEF List, TypeOK
<1>5. CASE Take
  <2>1. Head(sweep.list) \in Book /\ Tail(sweep.list) \in Seq(Book) /\ sweep.pc = "fill"
    BY <1>5, ListShrinks DEF Take, Fillable
  <2>2. sweep' \in Sweeps /\ (sweep'.pc = "claimed" => sweep'.book \in Book)
    BY <1>5, <2>1 DEF Take, Claim, TypeOK, Sweeps
  <2>. QED BY <1>5, <2>1, <2>2 DEF Take, Claim, TypeOK
<1>6. CASE Submit
  <2>1. sweep.book \in Book
    BY <1>6 DEF Submit, TypeOK
  <2>2. queue' \in Seq(Items)
    BY <1>6, <2>1, Appended DEF Submit, TypeOK
  <2>3. sweep' \in Sweeps /\ sweep'.pc = "fill"
    BY <1>6, <2>1 DEF Submit, TypeOK, Sweeps
  <2>4. started' \subseteq Thread
    BY <1>6 DEF Submit, TypeOK
  <2>. QED BY <1>6, <2>2, <2>3, <2>4 DEF Submit, TypeOK
<1>7. CASE SubmitRefused
  BY <1>7, <1>r DEF SubmitRefused, GiveBack, TypeOK
<1>17. CASE StartFails
  <2>1. queue' \in Seq(Items)
    BY <1>17, Appended DEF StartFails, TypeOK
  <2>2. failed' \in 0..MaxOdd
    BY <1>17, <1>0 DEF StartFails, TypeOK
  <2>. QED BY <1>17, <1>r, <2>1, <2>2 DEF StartFails, GiveBack, TypeOK
<1>8. CASE End
  BY <1>8, <1>r DEF End, TypeOK
<1>9. CASE Collect
  <2>1. sweep' = AtRest \/ sweep' = [sweep EXCEPT !.pending = sweep.pending \ Done, !.time = sweep.time]
    BY <1>9 DEF Collect, GoOn
  <2>2. sweep.pc = "fill" /\ sweep \in Sweeps
    BY <1>9 DEF Collect, Waits, TypeOK
  <2>3. sweep' \in Sweeps /\ sweep'.pc # "claimed"
    BY <1>r, <2>1, <2>2 DEF Sweeps
  <2>. QED BY <1>9, <2>3 DEF Collect, TypeOK
<1>10. CASE Elapse
  <2>1. PICK now \in {Over, Twice} : GoOn(sweep.pending, now)
    BY <1>10 DEF Elapse
  <2>2. now \in Clock
    BY DEF Clock, InReserve, Over, Twice
  <2>3. sweep' = AtRest \/ sweep' = [sweep EXCEPT !.pending = sweep.pending, !.time = now]
    BY <2>1 DEF GoOn
  <2>4. sweep.pc = "fill" /\ sweep \in Sweeps
    BY <1>10 DEF Elapse, Waits, TypeOK
  <2>5. sweep' \in Sweeps /\ sweep'.pc # "claimed"
    BY <1>r, <2>2, <2>3, <2>4 DEF Sweeps
  <2>. QED BY <1>10, <2>5 DEF Elapse, TypeOK
<1>11. ASSUME NEW t \in Thread, Begin(t) PROVE TypeOK'
  <2>1. Head(queue) \in Items /\ Tail(queue) \in Seq(Items)
    BY <1>11, HeadTaken DEF Begin, TypeOK
  <2>2. thread' \in [Thread -> {Idle} \cup Taken]
    BY <1>11, <2>1 DEF Begin, TypeOK, Taken, Items
  <2>3. \A u \in Thread : thread'[u].pc = "done" => thread'[u].claimed
    BY <1>11 DEF Begin, TypeOK
  <2>. QED BY <1>11, <2>1, <2>2, <2>3 DEF Begin, TypeOK
<1>12. ASSUME NEW t \in Thread, Work(t) \/ Finish(t) PROVE TypeOK'
  <2>1. thread[t] \in Taken
    BY <1>12 DEF Work, Finish, TypeOK, Idle, Taken
  <2>2. Touched(thread[t].book) \in [1..Cardinality(Book) -> Book]
        /\ Range(Touched(thread[t].book)) = Book
    BY <2>1, Rotation DEF Taken
  <2>3. order' = Touched(thread[t].book)
    BY <1>12 DEF Work, Finish
  <2>4. /\ thread' \in [Thread -> {Idle} \cup Taken]
        /\ \A u \in Thread : thread'[u].pc = "done" => thread'[u].claimed
    BY <1>12, <2>1 DEF Work, Finish, Ends, TypeOK, Taken, Idle
  <2>. QED BY <1>12, <2>2, <2>3, <2>4 DEF Work, Finish, TypeOK
<1>13. ASSUME NEW t \in Thread, NothingToRun(t) PROVE TypeOK'
  <2>1. thread[t] \in Taken
    BY <1>13 DEF NothingToRun, TypeOK, Idle
  <2>2. /\ thread' \in [Thread -> {Idle} \cup Taken]
        /\ \A u \in Thread : thread'[u].pc = "done" => thread'[u].claimed
    BY <1>13, <2>1 DEF NothingToRun, Ends, TypeOK, Taken, Idle
  <2>. QED BY <1>13, <2>2 DEF NothingToRun, TypeOK
<1>14. ASSUME NEW t \in Thread, Release(t) PROVE TypeOK'
  BY <1>14 DEF Release, TypeOK, Idle
<1>15. CASE Stop
  <2>1. <<>> \in Seq(Items)
    OBVIOUS
  <2>2. sweep' \in Sweeps /\ sweep'.pc = sweep.pc /\ sweep'.book = sweep.book
    BY <1>15 DEF Stop, TypeOK, Sweeps
  <2>3. inFlight' \subseteq Book
    BY <1>15 DEF Stop, Cancelled, TypeOK
  <2>. QED BY <1>15, <2>1, <2>2, <2>3 DEF Stop, TypeOK
<1>16. CASE UNCHANGED vars
  BY <1>16 DEF vars, TypeOK
<1>. QED
  BY <1>1, <1>2, <1>3, <1>4, <1>5, <1>6, <1>7, <1>8, <1>9, <1>10, <1>11, <1>12, <1>13,
     <1>14, <1>15, <1>16, <1>17 DEF Next, SweepStep, WorkerStep

(* The variables of the scheduler keep their types, however many books,      *)
(* workers, phases and sweeps there are.                                     *)
THEOREM TypeCorrect == Spec => []TypeOK
<1>. QED BY InitTyped, StepTyped, PTL DEF Spec

-----------------------------------------------------------------------------
(* Who has a book.                                                         *)

Held == TypeOK /\ InFlightIsHeld /\ OneHolder

(* The four kinds of hands are only moved by the steps that name them.       *)
Hands == <<inFlight, queue, thread, InHand, failed>>

LEMMA HandsKept == Held /\ TypeOK' /\ UNCHANGED Hands => Held'
<1>. SUFFICES ASSUME Held, TypeOK', UNCHANGED Hands PROVE Held'
  OBVIOUS
<1>1. /\ inFlight' = inFlight /\ queue' = queue /\ thread' = thread /\ InHand' = InHand
      /\ failed' = failed
  BY DEF Hands
<1>2. Waiting' = Waiting /\ Advancing' = Advancing /\ Ending' = Ending
  BY <1>1 DEF Waiting, Advancing, Ending, Working
<1>. QED BY <1>1, <1>2 DEF Held, InFlightIsHeld, OneHolder, AllClaimed

(* The sweep claims a book that nobody has.                                  *)
LEMMA TakeHeld == Held /\ TypeOK' /\ Take => Held'
<1>. SUFFICES ASSUME Held, TypeOK', Take PROVE Held'
  OBVIOUS
<1>1. queue' = queue /\ thread' = thread /\ InHand = {} /\ failed' = failed
  BY DEF Take, pool, InHand, bounds
<1>2. Waiting' = Waiting /\ Advancing' = Advancing /\ Ending' = Ending
  BY <1>1 DEF Waiting, Advancing, Ending, Working
<1>. DEFINE b == Head(sweep.list)
<1>3. sweep \in Sweeps /\ sweep.pc = "fill"
  BY DEF Held, TypeOK, Take
<1>4. CASE b \in inFlight
  <2>1. sweep' = [sweep EXCEPT !.list = Tail(@)] /\ inFlight' = inFlight
    BY <1>4 DEF Take, Claim
  <2>2. InHand' = {}
    BY <2>1, <1>3 DEF InHand, Sweeps
  <2>. QED BY <1>1, <1>2, <2>1, <2>2 DEF Held, InFlightIsHeld, OneHolder, AllClaimed
<1>5. CASE b \notin inFlight
  <2>1. /\ sweep' = [sweep EXCEPT !.pc = "claimed", !.book = b, !.list = Tail(@)]
        /\ inFlight' = inFlight \cup {b}
    BY <1>5 DEF Take, Claim
  <2>2. InHand' = {b}
    BY <2>1, <1>3 DEF InHand, Sweeps
  <2>. QED BY <1>1, <1>2, <1>5, <2>1, <2>2 DEF Held, InFlightIsHeld, OneHolder, AllClaimed
<1>. QED BY <1>4, <1>5

(* It hands the book to the pool, or gives it back; a submit that fails has  *)
(* queued it all the same, without its claim.                                *)
LEMMA SubmitHeld == Held /\ TypeOK' /\ (Submit \/ SubmitRefused \/ StartFails) => Held'
<1>. SUFFICES ASSUME Held, TypeOK', Submit \/ SubmitRefused \/ StartFails PROVE Held'
  OBVIOUS
<1>. DEFINE b == sweep.book
<1>1. /\ thread' = thread /\ InHand = {b} /\ b \in Book /\ sweep \in Sweeps
      /\ queue \in Seq(Items)
  BY DEF Submit, SubmitRefused, StartFails, pool, InHand, Held, TypeOK
<1>0. failed \in Nat
  BY PhaseAssumption DEF Held, TypeOK
<1>2. Advancing' = Advancing /\ Ending' = Ending
  BY <1>1 DEF Advancing, Ending, Working
<1>3. InHand' = {}
  <2>1. CASE Submit BY <1>1, <2>1 DEF Submit, InHand, Sweeps
  <2>2. CASE SubmitRefused \/ StartFails
    <3>1. sweep' = AtRest
      BY <2>2 DEF SubmitRefused, StartFails, GiveBack
    <3>. QED BY <3>1 DEF InHand, AtRest
  <2>. QED BY <2>1, <2>2
<1>4. b \notin Waiting /\ b \notin Advancing /\ b \notin Ending
  BY <1>1 DEF Held, OneHolder
<1>5. Waiting = Queued(queue) /\ Waiting' = Queued(queue') /\ Distinct(queue)
  BY DEF Waiting, Queued, Distinct, Held, OneHolder
<1>6. CASE Submit
  <2>1. queue' = Append(queue, Item(b, TRUE)) /\ inFlight' = inFlight /\ failed' = failed
    BY <1>6 DEF Submit, bounds
  <2>2. Waiting' = Waiting \cup {b} /\ Distinct(queue') /\ (Claimed(queue) => Claimed(queue'))
    BY <2>1, <1>1, <1>4, <1>5, Appended
  <2>. QED
    BY <1>1, <1>2, <1>3, <1>4, <2>1, <2>2
    DEF Held, InFlightIsHeld, OneHolder, AllClaimed, Distinct, Claimed
<1>7. CASE SubmitRefused
  <2>1. queue' = queue /\ inFlight' = inFlight \ {b} /\ failed' = failed
    BY <1>7 DEF SubmitRefused, GiveBack, pool, bounds
  <2>2. Waiting' = Waiting
    BY <2>1 DEF Waiting
  <2>. QED
    BY <1>1, <1>2, <1>3, <1>4, <2>1, <2>2 DEF Held, InFlightIsHeld, OneHolder, AllClaimed
<1>8. CASE StartFails
  <2>1. queue' = Append(queue, Item(b, FALSE)) /\ inFlight' = inFlight \ {b} /\ failed' # 0
    BY <1>0, <1>8 DEF StartFails, GiveBack
  <2>2. Waiting' = Waiting /\ Distinct(queue')
    <3>1. PICK claim \in BOOLEAN : ~claim /\ queue' = Append(queue, Item(b, claim))
      <4>. WITNESS FALSE \in BOOLEAN
      <4>. QED BY <2>1
    <3>2. Queued(queue') = Queued(queue) \cup (IF claim THEN {b} ELSE {})
      BY <3>1, <1>1, Appended
    <3>3. Queued(queue') = Queued(queue)
      BY <3>1, <3>2
    <3>4. Distinct(queue) => Distinct(queue')
      BY <3>1, <1>1, Appended
    <3>. QED BY <3>3, <3>4, <1>5
  <2>. QED
    BY <1>1, <1>2, <1>3, <1>4, <2>1, <2>2 DEF Held, InFlightIsHeld, OneHolder, Distinct
<1>. QED BY <1>6, <1>7, <1>8

(* A thread takes the first work item.                                       *)
LEMMA BeginHeld == ASSUME NEW t \in Thread, Held, TypeOK', Begin(t) PROVE Held'
<1>. DEFINE b == Head(queue).book
            claim == Head(queue).claimed
            mine == IF claim THEN {b} ELSE {}
<1>1. queue \in Seq(Items) /\ queue # <<>> /\ queue' = Tail(queue) /\ Distinct(queue)
  BY DEF Begin, Held, TypeOK, OneHolder, Distinct
<1>2. /\ Waiting = Waiting' \cup mine /\ (claim => b \notin Waiting') /\ Distinct(queue')
      /\ b \in Book /\ claim \in BOOLEAN /\ (Claimed(queue) => Claimed(queue') /\ claim)
  BY <1>1, HeadTaken DEF Waiting, Queued, Items
<1>3. /\ thread[t].pc = "idle" /\ ~thread[t].claimed
      /\ thread' = [thread EXCEPT ![t] = [pc |-> "begun", book |-> b, claimed |-> claim]]
      /\ thread \in [Thread -> {Idle} \cup Taken]
      /\ failed' = failed
  BY DEF Begin, Idle, Held, TypeOK, bounds
<1>4. /\ thread'[t].pc = "begun" /\ thread'[t].book = b /\ thread'[t].claimed = claim
      /\ \A u \in Thread \ {t} : thread'[u] = thread[u]
  BY <1>3
<1>. HIDE DEF b, claim
<1>5. Advancing' = Advancing \cup mine
  BY <1>3, <1>4 DEF Advancing, Working
<1>6. Ending' = Ending
  BY <1>3, <1>4 DEF Ending
<1>7. InHand' = InHand /\ inFlight' = inFlight
  BY DEF InHand, Begin
<1>8. claim => b \notin Advancing /\ b \notin Ending /\ b \notin InHand
  BY <1>2 DEF Held, OneHolder
<1>9. \A u \in Thread : thread[u].claimed => thread[u].book \in Advancing \cup Ending
  BY <1>3 DEF Advancing, Ending, Working, Idle, Taken
<1>10. \A u, v \in Thread : thread'[u].claimed /\ thread'[v].claimed /\ u # v
                            => thread'[u].book # thread'[v].book
  BY <1>4, <1>8, <1>9 DEF Held, OneHolder
<1>11. failed' = 0 => AllClaimed'
  BY <1>2, <1>3, <1>4 DEF Held, OneHolder, AllClaimed, Claimed
<1>12. OneHolder'
  BY <1>2, <1>5, <1>6, <1>7, <1>8, <1>10, <1>11 DEF Held, OneHolder, Distinct
<1>13. InFlightIsHeld'
  BY <1>2, <1>5, <1>6, <1>7 DEF Held, InFlightIsHeld
<1>. QED BY <1>12, <1>13 DEF Held

(* What a thread has that goes on with its book, or is done with it.         *)
LEMMA Onward ==
  ASSUME NEW t \in Thread, Held, Work(t) \/ NothingToRun(t) \/ Finish(t)
  PROVE  /\ thread[t] \in Taken /\ thread[t].pc \in {"begun", "busy"}
         /\ \A u \in Thread \ {t} : thread'[u] = thread[u]
         /\ thread'[t].claimed = thread[t].claimed
         /\ thread[t].claimed => thread'[t].book = thread[t].book
         /\ Work(t) => thread'[t].pc = "busy"
         /\ ~Work(t) => thread'[t].pc \in {"idle", "done"}
<1>1. /\ thread \in [Thread -> {Idle} \cup Taken] /\ thread[t] \in Taken
      /\ thread[t].pc \in {"begun", "busy"}
  BY DEF Held, TypeOK, Work, NothingToRun, Finish, Idle, Taken
<1>2. CASE Work(t)
  BY <1>1, <1>2 DEF Work, Taken
<1>3. CASE ~Work(t)
  <2>1. Ends(t)
    BY <1>3 DEF NothingToRun, Finish
  <2>2. CASE thread[t].claimed
    BY <1>1, <1>3, <2>1, <2>2 DEF Ends, Taken
  <2>3. CASE ~thread[t].claimed
    <3>1. thread[t].claimed = FALSE
      BY <1>1, <2>3 DEF Taken
    <3>2. thread' = [thread EXCEPT ![t] = Idle]
      BY <2>1, <2>3 DEF Ends
    <3>3. /\ thread'[t] = Idle
          /\ \A u \in Thread \ {t} : thread'[u] = thread[u]
      BY <1>1, <3>2
    <3>4. thread'[t].claimed = FALSE /\ thread'[t].pc = "idle"
      BY <3>3 DEF Idle
    <3>5. thread'[t].claimed = thread[t].claimed
      BY <3>1, <3>4, Zenon
    <3>6. thread[t].claimed => thread'[t].book = thread[t].book
      BY <2>3
    <3>. QED BY <1>1, <1>3, <3>3, <3>4, <3>5, <3>6
  <2>. QED BY <2>2, <2>3
<1>. QED BY <1>2, <1>3

(* A thread goes on with its book, or is done with it.                       *)
LEMMA WorkHeld ==
  ASSUME NEW t \in Thread, Held, TypeOK', Work(t) \/ NothingToRun(t) \/ Finish(t)
  PROVE  Held'
<1>1. /\ thread \in [Thread -> {Idle} \cup Taken] /\ thread' \in [Thread -> {Idle} \cup Taken]
      /\ queue' = queue /\ inFlight' = inFlight /\ sweep' = sweep /\ failed' = failed
      /\ \A u \in Thread : thread[u].pc = "done" => thread[u].claimed
      /\ \A u \in Thread : thread'[u].pc = "done" => thread'[u].claimed
  BY DEF Held, TypeOK, Work, NothingToRun, Finish, bounds
<1>2. \A u \in Thread : /\ thread'[u].claimed = thread[u].claimed
                        /\ thread[u].claimed => thread'[u].book = thread[u].book
                        /\ thread'[u].pc # "idle" => thread[u].pc # "idle"
  <2>1. \A u \in Thread \ {t} : thread'[u] = thread[u]
    BY Onward
  <2>2. thread[t].pc # "idle"
    BY Onward
  <2>3. /\ thread'[t].claimed = thread[t].claimed
        /\ thread[t].claimed => thread'[t].book = thread[t].book
    BY Onward
  <2>. QED BY <2>1, <2>2, <2>3
<1>3. Waiting' = Waiting /\ InHand' = InHand
  BY <1>1 DEF Waiting, InHand
<1>4. Advancing' \cup Ending' = Advancing \cup Ending
  <2>1. Advancing \cup Ending = {thread[u].book : u \in {v \in Thread : thread[v].claimed}}
    BY <1>1 DEF Advancing, Ending, Working, Idle, Taken
  <2>2. Advancing' \cup Ending' = {thread'[u].book : u \in {v \in Thread : thread'[v].claimed}}
    BY <1>1 DEF Advancing, Ending, Working, Idle, Taken
  <2>. QED BY <2>1, <2>2, <1>2
<1>5. failed' = 0 => AllClaimed'
  BY <1>1, <1>2 DEF Held, OneHolder, AllClaimed
<1>6. OneHolder'
  BY <1>1, <1>2, <1>3, <1>4, <1>5 DEF Held, OneHolder
<1>. QED BY <1>1, <1>3, <1>4, <1>6 DEF Held, InFlightIsHeld

(* The callback of a future that is done gives its book back.                *)
LEMMA ReleaseHeld == ASSUME NEW t \in Thread, Held, TypeOK', Release(t) PROVE Held'
<1>. DEFINE b == thread[t].book
<1>1. /\ thread \in [Thread -> {Idle} \cup Taken] /\ thread[t].pc = "done" /\ thread[t].claimed
      /\ queue' = queue /\ inFlight' = inFlight \ {b} /\ sweep' = sweep /\ failed' = failed
      /\ thread' = [thread EXCEPT ![t] = Idle]
      /\ \A u \in Thread : thread[u].pc = "done" => thread[u].claimed
  BY DEF Held, TypeOK, Release, bounds
<1>2. /\ thread'[t].pc = "idle" /\ ~thread'[t].claimed
      /\ \A u \in Thread \ {t} : thread'[u] = thread[u]
  BY <1>1 DEF Idle
<1>3. Waiting' = Waiting /\ InHand' = InHand
  BY <1>1 DEF Waiting, InHand
<1>4. \A u \in Thread \ {t} : thread[u].claimed => thread[u].book # b
  BY <1>1 DEF Held, OneHolder
<1>5. b \in Ending
  BY <1>1 DEF Ending
<1>6. b \notin Waiting /\ b \notin InHand
  BY <1>5 DEF Held, OneHolder
<1>7. Advancing' = Advancing /\ b \notin Advancing
  BY <1>1, <1>2, <1>4 DEF Advancing, Working
<1>8. Ending' = Ending \ {b}
  BY <1>1, <1>2, <1>4 DEF Ending
<1>9. OneHolder'
  BY <1>1, <1>2, <1>3, <1>7, <1>8 DEF Held, OneHolder, AllClaimed
<1>. QED BY <1>1, <1>3, <1>6, <1>7, <1>8, <1>9 DEF Held, InFlightIsHeld

(* stop(): what was queued is cancelled and given back.                      *)
LEMMA StopHeld == Held /\ TypeOK' /\ Stop => Held'
<1>. SUFFICES ASSUME Held, TypeOK', Stop PROVE Held'
  OBVIOUS
<1>1. /\ queue' = <<>> /\ thread' = thread /\ inFlight' = inFlight \ Waiting /\ sweep \in Sweeps
      /\ failed' = failed
  BY DEF Stop, Cancelled, Held, TypeOK, bounds
<1>2. Waiting' = {} /\ DOMAIN queue' = {}
  BY <1>1 DEF Waiting, Range
<1>3. InHand' = InHand
  BY <1>1 DEF Stop, InHand, Sweeps
<1>4. Advancing' = Advancing /\ Ending' = Ending
  BY <1>1 DEF Advancing, Ending, Working
<1>. QED BY <1>1, <1>2, <1>3, <1>4 DEF Held, InFlightIsHeld, OneHolder, AllClaimed

LEMMA StepHeld == Held /\ [Next]_vars => Held'
<1>. SUFFICES ASSUME Held, [Next]_vars PROVE Held'
  OBVIOUS
<1>1. TypeOK'
  BY StepTyped DEF Held
<1>. USE DEF pool, phases, ended, bounds
<1>2. sweep \in Sweeps
  BY DEF Held, TypeOK
<1>3. ASSUME NEW force \in BOOLEAN, BeginSweep(force) PROVE Held'
  <2>1. InHand = {} /\ InHand' = {}
    BY <1>3 DEF BeginSweep, InHand, AtRest
  <2>. QED BY <1>1, <1>3, <2>1, HandsKept DEF BeginSweep, Hands
<1>4. CASE RunPhase \/ SkipPhase \/ List
  <2>1. InHand = {} /\ InHand' = {}
    BY <1>2, <1>4 DEF RunPhase, SkipPhase, List, AtPhase, InHand, Sweeps
  <2>. QED BY <1>1, <1>4, <2>1, HandsKept DEF RunPhase, SkipPhase, List, Hands
<1>5. CASE End \/ Collect \/ Elapse
  <2>1. sweep.pc = "fill" /\ (sweep' = AtRest \/ sweep'.pc = sweep.pc)
    BY <1>2, <1>5 DEF End, Collect, Elapse, Waits, GoOn, Sweeps
  <2>2. InHand = {} /\ InHand' = {}
    BY <2>1 DEF InHand, AtRest
  <2>. QED BY <1>1, <1>5, <2>2, HandsKept DEF End, Collect, Elapse, Hands
<1>6. CASE UNCHANGED vars
  BY <1>1, <1>6, HandsKept DEF vars, Hands, InHand
<1>. QED
  BY <1>1, <1>3, <1>4, <1>5, <1>6, TakeHeld, SubmitHeld, BeginHeld, WorkHeld, ReleaseHeld,
     StopHeld DEF Next, SweepStep, WorkerStep

LEMMA InitHeld == Init => Held
<1>. SUFFICES ASSUME Init PROVE Held
  OBVIOUS
<1>1. /\ inFlight = {} /\ queue = <<>> /\ \A t \in Thread : thread[t].pc = "idle" /\ ~thread[t].claimed
      /\ sweep.pc = "idle"
  BY DEF Init, AtRest, Idle
<1>2. InHand = {} /\ Waiting = {} /\ Advancing = {} /\ Ending = {} /\ DOMAIN queue = {}
  BY <1>1 DEF InHand, Waiting, Advancing, Ending, Working, Range
<1>. QED BY <1>1, <1>2, InitTyped DEF Held, InFlightIsHeld, OneHolder, AllClaimed

(* _in_flight is what is in somebody's hands: no book stays in it for good,  *)
(* and none that somebody has is missing.                                    *)
THEOREM ClaimsAreKept == Spec => []InFlightIsHeld
<1>1. Held => InFlightIsHeld
  BY DEF Held
<1>. QED BY <1>1, InitHeld, StepHeld, PTL DEF Spec

(* A book is in one pair of hands.                                           *)
THEOREM Exclusion == Spec => []OneHolder
<1>1. Held => OneHolder
  BY DEF Held
<1>. QED BY <1>1, InitHeld, StepHeld, PTL DEF Spec

-----------------------------------------------------------------------------
(* The promise.                                                            *)

Turn(b) == Cardinality({t \in Thread : Working(t) /\ thread[t].book = b})

(* A book has one turn if it is with a worker, and no more.                  *)
LEMMA OneTurn ==
  ASSUME Held, NEW b \in Book
  PROVE  Turn(b) = IF b \in Advancing THEN 1 ELSE 0
<1>. DEFINE H == {t \in Thread : Working(t) /\ thread[t].book = b}
<1>1. CASE b \in Advancing
  <2>1. PICK t \in Thread : Working(t) /\ thread[t].book = b
    BY <1>1 DEF Advancing
  <2>2. \A u \in H : u = t
    BY <2>1 DEF Held, OneHolder, Working
  <2>3. H = {t}
    BY <2>1, <2>2
  <2>. QED BY <1>1, <2>3, FS_Singleton DEF Turn
<1>2. CASE b \notin Advancing
  <2>1. H = {}
    BY <1>2 DEF Advancing
  <2>. QED BY <1>2, <2>1, FS_EmptySet DEF Turn
<1>. QED BY <1>1, <1>2

(* A step begins the turn of one book, ends that of one, or none.            *)
LEMMA TurnsMove ==
  ASSUME Held, Held', [Next]_vars
  PROVE  \/ Advancing' = Advancing /\ (stopped' = stopped \/ stopped' = TRUE)
         \/ /\ stopped' = stopped
            /\ \/ \E b \in Book \ Advancing : Advancing' = Advancing \cup {b}
               \/ \E b \in Book \cap Advancing : Advancing' = Advancing \ {b}
<1>. USE DEF pool, phases, ended
<1>1. ASSUME thread' = thread PROVE Advancing' = Advancing
  BY <1>1 DEF Advancing, Working
<1>t. thread \in [Thread -> {Idle} \cup Taken]
  BY DEF Held, TypeOK
<1>2. ASSUME NEW t \in Thread, Begin(t)
      PROVE /\ stopped' = stopped
            /\ \/ Advancing' = Advancing
               \/ \E b \in Book \ Advancing : Advancing' = Advancing \cup {b}
  <2>. DEFINE b == Head(queue).book
  <2>0. queue \in Seq(Items) /\ queue # <<>> /\ Waiting = Queued(queue)
    BY <1>2 DEF Begin, Held, TypeOK, Waiting, Queued
  <2>1. /\ Head(queue) \in Items /\ b \in Book
        /\ Head(queue).claimed => b \in Waiting
    BY <2>0, HeadTaken DEF Items
  <2>2. Head(queue).claimed => b \notin Advancing
    BY <2>1 DEF Held, OneHolder
  <2>3. /\ thread[t].pc = "idle"
        /\ thread'[t].pc = "begun" /\ thread'[t].book = b
        /\ thread'[t].claimed = Head(queue).claimed
        /\ \A u \in Thread \ {t} : thread'[u] = thread[u]
    BY <1>2, <1>t DEF Begin, Idle
  <2>. HIDE DEF b
  <2>4. CASE Head(queue).claimed
    <3>1. Advancing' = Advancing \cup {b}
      BY <2>3, <2>4 DEF Advancing, Working
    <3>. QED BY <1>2, <2>1, <2>2, <2>4, <3>1 DEF Begin, ended
  <2>5. CASE ~Head(queue).claimed
    <3>1. Advancing' = Advancing
      BY <2>3, <2>5 DEF Advancing, Working
    <3>. QED BY <1>2, <3>1 DEF Begin, ended
  <2>. QED BY <2>4, <2>5
<1>3. ASSUME NEW t \in Thread, Work(t) PROVE stopped' = stopped /\ Advancing' = Advancing
  <2>1. \A u \in Thread : Working(u)' = Working(u)
    BY <1>3, Onward DEF Working
  <2>2. \A u \in Thread : Working(u) => thread'[u].book = thread[u].book
    BY <1>3, Onward DEF Working
  <2>3. Advancing' = Advancing
    BY <2>1, <2>2 DEF Advancing
  <2>. QED BY <1>3, <2>3 DEF Work
<1>4. ASSUME NEW t \in Thread, NothingToRun(t) \/ Finish(t)
      PROVE /\ stopped' = stopped
            /\ \/ Advancing' = Advancing
               \/ \E b \in Book \cap Advancing : Advancing' = Advancing \ {b}
  <2>. DEFINE b == thread[t].book
  <2>0. ~Work(t)
    BY <1>4, <1>t DEF Work, NothingToRun, Finish, Ends, Idle, Taken
  <2>1. /\ thread[t] \in Taken /\ thread[t].pc \in {"begun", "busy"}
        /\ thread'[t].pc \in {"idle", "done"}
        /\ \A u \in Thread \ {t} : thread'[u] = thread[u]
    BY <1>4, <2>0, Onward
  <2>2. CASE thread[t].claimed
    <3>1. \A u \in Thread \ {t} : Working(u) => thread[u].book # b
      BY <2>2 DEF Held, OneHolder, Working
    <3>2. b \in Book /\ b \in Advancing
      BY <2>1, <2>2 DEF Advancing, Taken, Working
    <3>3. Advancing' = Advancing \ {b}
      BY <2>1, <3>1 DEF Advancing, Working
    <3>. QED BY <1>4, <3>2, <3>3 DEF NothingToRun, Finish, ended
  <2>3. CASE ~thread[t].claimed
    <3>1. Advancing' = Advancing
      BY <2>1, <2>3 DEF Advancing, Working
    <3>. QED BY <1>4, <3>1 DEF NothingToRun, Finish, ended
  <2>. QED BY <2>2, <2>3
<1>5. ASSUME NEW t \in Thread, Release(t) PROVE stopped' = stopped /\ Advancing' = Advancing
  <2>1. /\ thread[t].pc = "done" /\ thread'[t].pc = "idle"
        /\ \A u \in Thread \ {t} : thread'[u] = thread[u]
    BY <1>5, <1>t DEF Release, Idle
  <2>2. Advancing' = Advancing
    BY <2>1 DEF Advancing, Working
  <2>. QED BY <1>5, <2>2 DEF Release
<1>6. CASE Stop
  BY <1>1, <1>6 DEF Stop
<1>7. ASSUME SweepStep \/ BeginSweep(TRUE) \/ UNCHANGED vars
      PROVE  stopped' = stopped /\ Advancing' = Advancing
  <2>1. stopped' = stopped /\ thread' = thread
    BY <1>7 DEF SweepStep, BeginSweep, RunPhase, SkipPhase, List, Take, Submit, SubmitRefused,
                StartFails, End, Collect, Elapse, vars
  <2>. QED BY <2>1, <1>1
<1>. QED BY <1>2, <1>3, <1>4, <1>5, <1>6, <1>7 DEF Next, WorkerStep

Turned == [b \in Book |-> Turn(b)]

LEMMA TurnedNow == Held => Turned = [b \in Book |-> IF b \in Advancing THEN 1 ELSE 0]
BY OneTurn DEF Turned

LEMMA TurnedThen == (Held => Turned = [b \in Book |-> IF b \in Advancing THEN 1 ELSE 0])'
BY TurnedNow, PTL

(* No book is advanced by two workers: every step of the scheduler begins a  *)
(* turn, ends one, stops the scheduler, or is none of the books' business.   *)
THEOREM KeepsTurns == Spec => Turns!Safety
<1>0. Turned = [b \in Book |-> Cardinality({t \in Thread : Working(t) /\ thread[t].book = b})]
  BY DEF Turned, Turn
<1>1. Init => Turns!Init
  <2>. SUFFICES ASSUME Init PROVE Turns!Init
    OBVIOUS
  <2>1. Held /\ Advancing = {}
    BY InitHeld DEF Init, Advancing, Working, Idle
  <2>2. Turned = [b \in Book |-> 0]
    BY <2>1, TurnedNow
  <2>. QED BY <1>0, <2>2 DEF Turns!Init, Init
<1>2. Held /\ Held' /\ [Next]_vars => [Turns!Next]_(Turns!vars)
  <2>. SUFFICES ASSUME Held, Held', [Next]_vars PROVE [Turns!Next]_(Turns!vars)
    OBVIOUS
  <2>1. Turned = [b \in Book |-> IF b \in Advancing THEN 1 ELSE 0]
    BY TurnedNow
  <2>2. Turned' = [b \in Book |-> IF b \in Advancing' THEN 1 ELSE 0]
    BY TurnedThen
  <2>3. CASE Advancing' = Advancing /\ stopped' = stopped
    BY <2>1, <2>2, <2>3 DEF Turns!vars, Turned, Turn
  <2>4. CASE Advancing' = Advancing /\ stopped' = TRUE
    BY <2>1, <2>2, <2>4 DEF Turns!Next, Turns!Close, Turned, Turn
  <2>5. ASSUME NEW b \in Book \ Advancing, Advancing' = Advancing \cup {b}, stopped' = stopped
        PROVE  Turns!Begin(b)
    <3>1. Turned[b] = 0 /\ Turned' = [Turned EXCEPT ![b] = 1]
      BY <2>1, <2>2, <2>5
    <3>. QED BY <2>5, <3>1 DEF Turns!Begin, Turned, Turn
  <2>6. ASSUME NEW b \in Book \cap Advancing, Advancing' = Advancing \ {b}, stopped' = stopped
        PROVE  Turns!End(b)
    <3>1. Turned[b] = 1 /\ Turned' = [Turned EXCEPT ![b] = 0]
      BY <2>1, <2>2, <2>6
    <3>. QED BY <2>6, <3>1 DEF Turns!End, Turned, Turn
  <2>. QED BY <2>3, <2>4, <2>5, <2>6, TurnsMove DEF Turns!Next
<1>. QED BY <1>1, <1>2, InitHeld, StepHeld, PTL DEF Spec, Turns!Safety
=============================================================================
