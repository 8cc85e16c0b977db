---------------------------- MODULE AcquireProofs ----------------------------
(***************************************************************************)
(* Of any number of releases, and any bounds: the types; that the row lets *)
(* go of no download that runs; that no book is given up without cause; and*)
(* that no more downloads run than one, and one for each thing gone wrong. *)
(***************************************************************************)
EXTENDS Acquire, SequenceTheorems, FiniteSetTheorems, WellFoundedInduction, TLAPS

-----------------------------------------------------------------------------
(* Types.  A stage that runs was not parked, so each stop spends at most one *)
(* attempt beyond the limit, and a run ends with a result of its own.        *)

Rows ==
  [status : {"pending", "running", "ok", "failed", "blocked"},
   attempts : 0..MaxAttempts + MaxFaults, queued : BOOLEAN, old : BOOLEAN,
   tried : Seq(Release)]

Workers ==
  [pc : {"idle", "look", "drop", "search", "ask", "mark", "note", "done"},
   tried : Seq(Release), best : 0..Copies,
   res : {"none", "ok", "failed", "blocked", "exhausted", "lost", "dead"}]

Running ==
  /\ worker.pc = "idle" => worker = Idle
  /\ worker.pc # "idle" => row.status \in {"running", "pending"}
  /\ worker.pc = "done" => worker.res \in {"ok", "failed", "blocked", "exhausted"}
  /\ worker.pc = "drop" => worker.res \in {"lost", "dead"}

Spent ==
  /\ row.attempts <= MaxAttempts + faults
  /\ worker.pc = "idle" /\ row.status \in {"pending", "running", "blocked"}
       => row.attempts < MaxAttempts + faults

RowTyped == row \in Rows /\ Len(row.tried) <= MaxTried

WorkerTyped ==
  /\ worker \in Workers /\ Len(worker.tried) <= MaxTried
  /\ worker.pc \in {"ask", "mark", "note"} => worker.best \in Release

OutsideTyped ==
  /\ task \in [Release -> {"none", "active", "ok", "failed"}]
  /\ landed \in BOOLEAN /\ died \subseteq Release
  /\ faults \in 0..MaxFaults /\ resets \in 0..MaxResets

Typed == RowTyped /\ WorkerTyped /\ OutsideTyped /\ Running /\ Spent

LEMMA TypedIsTypeOK == Typed => TypeOK
  BY DEF Typed, RowTyped, WorkerTyped, OutsideTyped, Rows, Workers, TypeOK

(* What is remembered of the releases is never longer than the limit.        *)
LEMMA Remembered ==
  ASSUME NEW seq \in Seq(Release)
  PROVE  Latest(seq) \in Seq(Release) /\ Len(Latest(seq)) <= MaxTried
<1>1. Len(seq) \in Nat /\ MaxTried \in Nat /\ MaxTried >= 1
  BY AcquireAssumption, LenProperties
<1>2. CASE Len(seq) > MaxTried
  <2>1. Latest(seq) = SubSeq(seq, Len(seq) - MaxTried + 1, Len(seq))
    BY <1>2 DEF Latest
  <2>2. /\ SubSeq(seq, Len(seq) - MaxTried + 1, Len(seq)) \in Seq(Release)
        /\ Len(SubSeq(seq, Len(seq) - MaxTried + 1, Len(seq))) = MaxTried
    BY <1>1, <1>2, SubSeqProperties
  <2>. QED BY <1>1, <2>1, <2>2
<1>3. CASE ~(Len(seq) > MaxTried)
  <2>1. Latest(seq) = SubSeq(seq, 1, Len(seq))
    BY <1>3 DEF Latest
  <2>2. /\ SubSeq(seq, 1, Len(seq)) \in Seq(Release)
        /\ Len(SubSeq(seq, 1, Len(seq))) <= Len(seq)
    BY <1>1, SubSeqProperties
  <2>. QED BY <1>1, <1>3, <2>1, <2>2
<1>. QED BY <1>2, <1>3

LEMMA Blank ==
  /\ Pending \in Rows /\ Len(Pending.tried) <= MaxTried /\ Pending.status = "pending"
  /\ Pending.attempts = 0
  /\ Idle \in Workers /\ Len(Idle.tried) <= MaxTried /\ Idle.pc = "idle"
<1>1. <<>> \in Seq(Release) /\ Len(<<>>) = 0
  BY EmptySeq
<1>2. 0 \in 0..MaxAttempts + MaxFaults /\ 0 <= MaxTried /\ 0 \in 0..Copies
  BY AcquireAssumption
<1>. QED BY <1>1, <1>2 DEF Pending, Idle, Rows, Workers

LEMMA InitTyped == Init => Typed
<1>. SUFFICES ASSUME Init PROVE Typed
  OBVIOUS
<1>1. /\ row = Pending /\ worker = Idle /\ task = [r \in Release |-> "none"]
      /\ landed = FALSE /\ died = {} /\ faults = 0 /\ resets = 0
  BY DEF Init
<1>2. RowTyped /\ WorkerTyped
  BY <1>1, Blank DEF RowTyped, WorkerTyped
<1>3. OutsideTyped
  <2>1. task \in [Release -> {"none", "active", "ok", "failed"}]
    BY <1>1
  <2>2. faults \in 0..MaxFaults /\ resets \in 0..MaxResets
    BY <1>1, AcquireAssumption
  <2>3. landed \in BOOLEAN /\ died \subseteq Release
    BY <1>1
  <2>. QED BY <2>1, <2>2, <2>3 DEF OutsideTyped
<1>4. Running
  BY <1>1, Blank DEF Running
<1>5. Spent
  BY <1>1, Blank, AcquireAssumption DEF Spent
<1>. QED BY <1>2, <1>3, <1>4, <1>5 DEF Typed

LEMMA BeginTyped == Typed /\ Begin => Typed'
<1>. SUFFICES ASSUME Typed, Begin PROVE Typed'
  OBVIOUS
<1>0. row.attempts + 1 \in 0..MaxAttempts + MaxFaults
  <2>1. /\ row.attempts \in Nat /\ faults \in 0..MaxFaults /\ worker.pc = "idle"
        /\ row.status \in {"pending", "running", "ok", "failed", "blocked"}
    BY Blank DEF Typed, RowTyped, OutsideTyped, Rows, Begin
  <2>2. row.attempts < MaxAttempts + faults
    BY <2>1, AcquireAssumption DEF Typed, Spent, Begin, Parked
  <2>. QED BY <2>1, <2>2, AcquireAssumption
<1>1. RowTyped'
  <2>1. row' = [row EXCEPT !.status = "running", !.attempts = @ + 1] /\ row \in Rows
    BY DEF Typed, RowTyped, Begin
  <2>. QED BY <2>1, <1>0 DEF Typed, RowTyped, Rows
<1>2. WorkerTyped'
  BY AcquireAssumption, Blank DEF Typed, WorkerTyped, RowTyped, Rows, Workers, Begin, Parked, shelfmark, bounds
<1>3. OutsideTyped'
  BY AcquireAssumption, Blank DEF Typed, OutsideTyped, WorkerTyped, Begin, Parked, shelfmark, bounds
<1>4. Running'
  BY AcquireAssumption, Blank DEF Typed, Running, WorkerTyped, RowTyped, Workers, Rows, Begin, Parked, shelfmark, bounds
<1>5. Spent'
  <2>1. row.attempts < MaxAttempts + faults /\ row.attempts \in Nat /\ faults \in Nat
    BY Blank, AcquireAssumption DEF Typed, Spent, RowTyped, OutsideTyped, Rows, Begin, Parked
  <2>2. row'.attempts = row.attempts + 1 /\ faults' = faults /\ worker'.pc # "idle"
    BY DEF Typed, RowTyped, Rows, Begin, Idle, bounds
  <2>. QED BY <2>1, <2>2, AcquireAssumption DEF Spent
<1>. QED BY <1>1, <1>2, <1>3, <1>4, <1>5 DEF Typed

LEMMA WatchTyped == Typed /\ Watch => Typed'
<1>. SUFFICES ASSUME Typed, Watch PROVE Typed'
  OBVIOUS
<1>0. /\ row' = row /\ worker \in Workers /\ worker.pc = "look"
      /\ \/ \E res \in {"ok", "failed", "blocked"} : worker' = [worker EXCEPT !.pc = "done", !.res = res]
         \/ \E res \in {"lost", "dead"} : worker' = [worker EXCEPT !.pc = "drop", !.res = res]
  BY DEF Typed, WorkerTyped, Watch, Judge, Trouble, Ends
<1>1. RowTyped'
  BY AcquireAssumption DEF Typed, RowTyped, Rows, Running, Spent, Watch, Judge, Trouble, Fault, Ends, shelfmark
<1>2. WorkerTyped'
  BY <1>0 DEF Typed, WorkerTyped, Workers
<1>3. OutsideTyped'
  BY AcquireAssumption DEF Typed, OutsideTyped, WorkerTyped, Watch, Judge, Trouble, Fault, Ends, shelfmark
<1>4. Running'
  BY <1>0 DEF Typed, Running, Workers
<1>5. Spent'
  <2>1. /\ row' = row /\ faults \in Nat /\ row.attempts \in Nat
        /\ faults' = faults \/ faults' = faults + 1
    BY DEF Typed, RowTyped, Rows, OutsideTyped, Watch, Trouble, Fault
  <2>2. worker'.pc # "idle"
    BY DEF Typed, WorkerTyped, Workers, Watch, Judge, Trouble, Ends
  <2>. QED BY <2>1, <2>2, AcquireAssumption DEF Typed, Spent
<1>. QED BY <1>1, <1>2, <1>3, <1>4, <1>5 DEF Typed

LEMMA DropTyped == Typed /\ Drop => Typed'
<1>. SUFFICES ASSUME Typed, Drop PROVE Typed'
  OBVIOUS
<1>1. RowTyped'
  BY AcquireAssumption DEF Typed, RowTyped, Rows, Running, Spent, Drop, Ends, shelfmark, bounds
<1>2. WorkerTyped'
  BY AcquireAssumption DEF Typed, WorkerTyped, RowTyped, Rows, Workers, Drop, Ends, shelfmark, bounds
<1>3. OutsideTyped'
  BY AcquireAssumption DEF Typed, OutsideTyped, WorkerTyped, Drop, Ends, shelfmark, bounds
<1>4. Running'
  BY AcquireAssumption DEF Typed, Running, WorkerTyped, RowTyped, Workers, Rows, Drop, Ends, shelfmark, bounds
<1>5. Spent'
  BY AcquireAssumption DEF Typed, Running, Spent, RowTyped, WorkerTyped, OutsideTyped, Workers, Rows, Drop, Ends, shelfmark, bounds
<1>. QED BY <1>1, <1>2, <1>3, <1>4, <1>5 DEF Typed

(* There is a first among releases.                                          *)
LEMMA Smallest ==
  ASSUME NEW T \in SUBSET Nat, T # {}
  PROVE  \E x \in T : \A y \in T : x <= y
<1>. DEFINE Less == {ss \in Nat \X Nat : ss[1] < ss[2]}
<1>1. IsWellFoundedOn(Less, Nat)
  BY NatLessThanWellFounded DEF OpToRel
<1>2. PICK x \in T : \A y \in T : ~(<<y, x>> \in Less)
  BY <1>1, WFMin
<1>3. ASSUME NEW y \in T PROVE x <= y
  <2>1. x \in Nat /\ y \in Nat /\ <<y, x>> \notin Less
    BY <1>2
  <2>2. y < x => <<y, x>> \in Less
    BY <2>1
  <2>. QED BY <2>1, <2>2
<1>. QED BY <1>3

LEMMA SearchTyped == Typed /\ Search => Typed'
<1>. SUFFICES ASSUME Typed, Search PROVE Typed'
  OBVIOUS
<1>. DEFINE first(got) == CHOOSE r \in Remaining(got) : \A s \in Remaining(got) : r <= s
<1>0. ASSUME NEW got \in SUBSET Release, Remaining(got) # {}
      PROVE  first(got) \in Release
  <2>1. Remaining(got) \subseteq Release
    BY DEF Remaining
  <2>3. Release \subseteq Nat
    BY AcquireAssumption DEF Release
  <2>2. \E r \in Remaining(got) : \A s \in Remaining(got) : r <= s
    BY <1>0, <2>1, <2>3, Smallest
  <2>. QED BY <2>1, <2>2
<1>9. row' = row /\ task' = task /\ landed' = landed /\ died' = died /\ resets' = resets
  BY DEF Search, shelfmark
<1>10. faults' = faults \/ Fault
  BY DEF Search, Trouble
<1>6. /\ row' = row /\ task' = task /\ landed' = landed /\ died' = died /\ resets' = resets
      /\ faults' = faults \/ (faults < MaxFaults /\ faults' = faults + 1)
  BY <1>9, <1>10 DEF Fault
<1>7. \/ \E res \in {"failed", "exhausted", "blocked"} :
           worker' = [worker EXCEPT !.pc = "done", !.res = res]
      \/ \E got \in SUBSET Release : /\ Remaining(got) # {}
           /\ worker' = [worker EXCEPT !.pc = "ask", !.tried = row.tried, !.best = first(got)]
  BY DEF Search, Trouble, Ends
<1>. HIDE DEF first
<1>8. worker'.pc # "idle"
  BY <1>7 DEF Typed, WorkerTyped, Workers
<1>1. RowTyped'
  BY AcquireAssumption DEF Typed, RowTyped, Rows, Running, Spent, Search, Trouble, Fault, Ends, shelfmark
<1>2. WorkerTyped'
  <2>1. worker \in Workers /\ row.tried \in Seq(Release) /\ Len(row.tried) <= MaxTried
    BY DEF Typed, RowTyped, WorkerTyped, Rows
  <2>2. CASE \E res \in {"failed", "exhausted", "blocked"} :
           worker' = [worker EXCEPT !.pc = "done", !.res = res]
    BY <2>1, <2>2 DEF Typed, WorkerTyped, Workers
  <2>3. CASE \E best \in Release :
           worker' = [worker EXCEPT !.pc = "ask", !.tried = row.tried, !.best = best]
    <3>1. Release \subseteq 0..Copies
      BY AcquireAssumption DEF Release
    <3>. QED BY <2>1, <2>3, <3>1 DEF WorkerTyped, Workers
  <2>. QED BY <1>0, <1>7, <2>2, <2>3
<1>3. OutsideTyped'
  BY <1>6, AcquireAssumption DEF Typed, OutsideTyped
<1>4. Running'
  <2>1. worker.pc = "search" /\ worker \in Workers
    BY DEF Search, Typed, WorkerTyped
  <2>2. worker'.pc = "ask" \/ (worker'.pc = "done" /\ worker'.res \in {"failed", "exhausted", "blocked"})
    BY <1>7, <2>1 DEF Workers
  <2>. QED BY <1>6, <2>1, <2>2 DEF Typed, Running
<1>5. Spent'
  BY <1>6, <1>8, AcquireAssumption DEF Typed, Spent, RowTyped, Rows, OutsideTyped
<1>. QED BY <1>1, <1>2, <1>3, <1>4, <1>5 DEF Typed

LEMMA AskTyped == Typed /\ (Ask \/ MarkQueued) => Typed'
<1>. SUFFICES ASSUME Typed, (Ask \/ MarkQueued) PROVE Typed'
  OBVIOUS
<1>1. RowTyped'
  BY AcquireAssumption DEF Typed, RowTyped, Rows, Running, Spent, Ask, Queued, MarkQueued, Trouble, Fault, Ends, shelfmark, bounds
<1>2. WorkerTyped'
  BY AcquireAssumption DEF Typed, WorkerTyped, RowTyped, Rows, Workers, Ask, Queued, MarkQueued, Trouble, Fault, Ends, shelfmark, bounds
<1>3. OutsideTyped'
  BY AcquireAssumption DEF Typed, OutsideTyped, WorkerTyped, Ask, Queued, MarkQueued, Trouble, Fault, Ends, shelfmark, bounds
<1>4. Running'
  BY AcquireAssumption DEF Typed, Running, WorkerTyped, RowTyped, Workers, Rows, Ask, Queued, MarkQueued, Trouble, Fault, Ends, shelfmark, bounds
<1>5. Spent'
  <2>1. /\ faults \in Nat /\ row.attempts \in Nat
        /\ faults' = faults \/ faults' = faults + 1
    BY DEF Typed, RowTyped, Rows, OutsideTyped, Ask, MarkQueued, Trouble, Fault, bounds
  <2>3. row'.attempts = row.attempts
    BY DEF Typed, RowTyped, Rows, Ask, MarkQueued
  <2>2. worker'.pc # "idle"
    BY DEF Typed, WorkerTyped, Workers, Ask, Queued, MarkQueued, Trouble, Ends
  <2>. QED BY <2>1, <2>2, <2>3, AcquireAssumption DEF Typed, Spent
<1>. QED BY <1>1, <1>2, <1>3, <1>4, <1>5 DEF Typed

LEMMA RememberTyped == Typed /\ Remember => Typed'
<1>. SUFFICES ASSUME Typed, Remember PROVE Typed'
  OBVIOUS
<1>0. LET seq == Latest(Append(worker.tried, worker.best))
      IN  seq \in Seq(Release) /\ Len(seq) <= MaxTried
  <2>1. worker.tried \in Seq(Release) /\ worker.best \in Release
    BY DEF Typed, WorkerTyped, Workers, Remember
  <2>. QED BY <2>1, AppendProperties, Remembered
<1>1. RowTyped'
  BY <1>0 DEF Typed, RowTyped, Rows, Remember
<1>2. WorkerTyped'
  BY AcquireAssumption DEF Typed, WorkerTyped, RowTyped, Rows, Workers, Remember, Ends, shelfmark, bounds
<1>3. OutsideTyped'
  BY AcquireAssumption DEF Typed, OutsideTyped, WorkerTyped, Remember, Ends, shelfmark, bounds
<1>4. Running'
  BY AcquireAssumption DEF Typed, Running, WorkerTyped, RowTyped, Workers, Rows, Remember, Ends, shelfmark, bounds
<1>5. Spent'
  BY AcquireAssumption DEF Typed, Running, Spent, RowTyped, WorkerTyped, OutsideTyped, Workers, Rows, Remember, Ends, shelfmark, bounds
<1>. QED BY <1>1, <1>2, <1>3, <1>4, <1>5 DEF Typed

LEMMA MarkTyped == Typed /\ MarkDone => Typed'
<1>. SUFFICES ASSUME Typed, MarkDone PROVE Typed'
  OBVIOUS
<1>1. RowTyped'
  <2>1. row \in Rows /\ row.attempts \in 0..MaxAttempts + MaxFaults
    BY DEF Typed, RowTyped, Rows
  <2>2. (IF worker.res = "blocked" /\ row.attempts > 0 THEN row.attempts - 1 ELSE row.attempts)
          \in 0..MaxAttempts + MaxFaults
    BY <2>1, AcquireAssumption
  <2>3. (IF worker.res = "exhausted" THEN "failed" ELSE worker.res) \in {"ok", "failed", "blocked"}
    BY DEF Typed, Running, MarkDone
  <2>. QED BY <2>1, <2>2, <2>3 DEF Typed, RowTyped, Rows, MarkDone
<1>2. WorkerTyped'
  BY AcquireAssumption, Blank DEF Typed, WorkerTyped, RowTyped, Rows, Workers, MarkDone, shelfmark, bounds
<1>3. OutsideTyped'
  BY AcquireAssumption, Blank DEF Typed, OutsideTyped, WorkerTyped, MarkDone, shelfmark, bounds
<1>4. Running'
  BY AcquireAssumption, Blank DEF Typed, Running, WorkerTyped, RowTyped, Workers, Rows, MarkDone, shelfmark, bounds
<1>5. Spent'
  <2>1. /\ row.attempts \in Nat /\ faults \in Nat /\ faults' = faults /\ worker'.pc = "idle"
        /\ row.attempts <= MaxAttempts + faults
    BY Blank DEF Typed, Spent, RowTyped, OutsideTyped, Rows, MarkDone, bounds
  <2>2. CASE worker.res # "blocked"
    <3>1. row'.attempts = row.attempts /\ row'.status \in {"ok", "failed"}
      BY <2>2 DEF Typed, RowTyped, Rows, Running, MarkDone
    <3>. QED BY <2>1, <3>1 DEF Spent
  <2>3. CASE worker.res = "blocked"
    <3>1. row'.attempts = IF row.attempts > 0 THEN row.attempts - 1 ELSE row.attempts
      BY <2>3 DEF Typed, RowTyped, Rows, MarkDone
    <3>. QED BY <2>1, <3>1, AcquireAssumption DEF Spent
  <2>. QED BY <2>2, <2>3
<1>. QED BY <1>1, <1>2, <1>3, <1>4, <1>5 DEF Typed

LEMMA ShelfmarkTyped == Typed /\ (QueueLost \/ (\E r \in Release : TaskEnds(r) \/ Vanish(r))) => Typed'
<1>. SUFFICES ASSUME Typed, (QueueLost \/ (\E r \in Release : TaskEnds(r) \/ Vanish(r))) PROVE Typed'
  OBVIOUS
<1>1. RowTyped'
  BY AcquireAssumption DEF Typed, RowTyped, Rows, Running, Spent, QueueLost, TaskEnds, Vanish, Active, Fault, stage, bounds
<1>2. WorkerTyped'
  BY AcquireAssumption DEF Typed, WorkerTyped, RowTyped, Rows, Workers, QueueLost, TaskEnds, Vanish, Active, Fault, stage, bounds
<1>3. OutsideTyped'
  <2>1. task' \in [Release -> {"none", "active", "ok", "failed"}]
    BY DEF Typed, OutsideTyped, QueueLost, TaskEnds, Vanish
  <2>2. landed' \in BOOLEAN /\ died' \subseteq Release
    BY DEF Typed, OutsideTyped, QueueLost, TaskEnds, Vanish
  <2>3. faults' \in 0..MaxFaults /\ resets' \in 0..MaxResets
    BY AcquireAssumption DEF Typed, OutsideTyped, QueueLost, TaskEnds, Vanish, Fault, bounds
  <2>. QED BY <2>1, <2>2, <2>3 DEF OutsideTyped
<1>4. Running'
  BY AcquireAssumption DEF Typed, Running, WorkerTyped, RowTyped, Workers, Rows, QueueLost, TaskEnds, Vanish, Active, Fault, stage, bounds
<1>5. Spent'
  <2>1. row' = row /\ worker' = worker /\ (faults' = faults \/ faults' = faults + 1)
    BY DEF QueueLost, TaskEnds, Vanish, Fault, stage, bounds
  <2>2. row.attempts \in Nat /\ faults \in Nat
    BY DEF Typed, RowTyped, Rows, OutsideTyped
  <2>. QED BY <2>1, <2>2, AcquireAssumption DEF Typed, Spent
<1>. QED BY <1>1, <1>2, <1>3, <1>4, <1>5 DEF Typed

LEMMA AroundTyped == Typed /\ (TimePasses \/ Crash \/ Reset) => Typed'
<1>. SUFFICES ASSUME Typed, (TimePasses \/ Crash \/ Reset) PROVE Typed'
  OBVIOUS
<1>1. RowTyped'
  BY AcquireAssumption, Blank DEF Typed, RowTyped, Rows, Running, Spent, TimePasses, Crash, Reset, Fault, shelfmark, bounds
<1>2. WorkerTyped'
  BY AcquireAssumption, Blank DEF Typed, WorkerTyped, RowTyped, Rows, Workers, TimePasses, Crash, Reset, Fault, shelfmark, bounds
<1>3. OutsideTyped'
  BY AcquireAssumption, Blank DEF Typed, OutsideTyped, WorkerTyped, TimePasses, Crash, Reset, Fault, shelfmark, bounds
<1>4. Running'
  BY AcquireAssumption, Blank DEF Typed, Running, WorkerTyped, RowTyped, Workers, Rows, TimePasses, Crash, Reset, Fault, shelfmark, bounds
<1>5. Spent'
  <2>1. row.attempts \in Nat /\ faults \in Nat /\ MaxAttempts \in Nat \ {0}
    BY AcquireAssumption DEF Typed, RowTyped, Rows, OutsideTyped
  <2>2. CASE TimePasses
    BY <2>1, <2>2 DEF Typed, Spent, RowTyped, Rows, TimePasses, bounds
  <2>3. CASE Crash
    BY <2>1, <2>3 DEF Typed, Spent, Crash, Fault
  <2>4. CASE Reset
    BY <2>1, <2>4, Blank DEF Spent, Reset
  <2>. QED BY <2>2, <2>3, <2>4
<1>. QED BY <1>1, <1>2, <1>3, <1>4, <1>5 DEF Typed

LEMMA StepTyped == Typed /\ [Next]_vars => Typed'
<1>. SUFFICES ASSUME Typed, [Next]_vars PROVE Typed'
  OBVIOUS
<1>1. CASE Step
  BY <1>1, BeginTyped, WatchTyped, DropTyped, SearchTyped, AskTyped, RememberTyped, MarkTyped
  DEF Step
<1>2. CASE Environment
  BY <1>2, ShelfmarkTyped, AroundTyped DEF Environment
<1>3. CASE UNCHANGED vars
  BY <1>3 DEF Typed, RowTyped, WorkerTyped, OutsideTyped, Running, Spent,
     vars, stage, shelfmark, bounds
<1>. QED BY <1>1, <1>2, <1>3 DEF Next

(* The type invariant, for every number of releases, attempts and faults.    *)
THEOREM TypeCorrect == Spec => []TypeOK
<1>1. Spec => []Typed
  BY InitTyped, StepTyped, PTL DEF Spec
<1>. QED BY <1>1, TypedIsTypeOK, PTL

-----------------------------------------------------------------------------
(* What the row lets go of.  Once the state of a task has been judged to be  *)
(* failed or nowhere, nothing that the row knows of runs, and until the row  *)
(* is written nothing it knows of can begin to.                              *)

Gone == worker.pc = "drop" => ToSet(row.tried) \cap Active = {}

(* One that runs is seen before one that failed, and is found by its         *)
(* release before any is by its title.                                       *)
LEMMA RunningIsSeen ==
  ASSUME NEW r \in Release, r \in ToSet(row.tried), r \in Active
  PROVE  FirstState(Found(row.tried)) = "active"
<1>. DEFINE found == Found(row.tried)
            Fits(s) == /\ \E q \in found : task[q] = s
                       /\ \A q \in found : task[q] = "active" => s = "active"
                       /\ \A q \in found : task[q] = "ok" => s # "failed"
<1>1. task[r] = "active"
  BY DEF Active
<1>2. r \in found
  BY <1>1 DEF Found
<1>3. FirstState(found) = CHOOSE s \in {"active", "ok", "failed"} : Fits(s)
  BY <1>2 DEF FirstState
<1>. HIDE DEF found
<1>4. Fits("active")
  BY <1>1, <1>2
<1>5. \A s \in {"active", "ok", "failed"} : Fits(s) => s = "active"
  BY <1>1, <1>2
<1>. HIDE DEF Fits
<1>6. (CHOOSE s \in {"active", "ok", "failed"} : Fits(s)) = "active"
  BY <1>4, <1>5
<1>. QED BY <1>3, <1>6 DEF found

LEMMA StepGone == Typed /\ Gone /\ [Next]_vars => Gone'
<1>. SUFFICES ASSUME Typed, Gone, [Next]_vars, worker'.pc = "drop"
              PROVE  ToSet(row'.tried) \cap Active' = {}
  BY DEF Gone
<1>0. worker \in Workers
  BY DEF Typed, WorkerTyped
<1>1. CASE Watch
  <2>1. row' = row /\ task' = task
    BY <1>1 DEF Watch, shelfmark
  <2>2. Judge(FirstState(Found(row.tried)))
    BY <1>0, <1>1 DEF Watch, Trouble, Ends, Workers
  <2>3. FirstState(Found(row.tried)) # "active"
    BY <1>0, <2>2 DEF Judge, Ends, Workers
  <2>4. ToSet(row.tried) \cap Active = {}
    BY <2>3, RunningIsSeen DEF Active
  <2>. QED BY <2>1, <2>4 DEF Active
<1>2. ASSUME worker' = worker, row'.tried = row.tried, Active' \subseteq Active
      PROVE  ToSet(row'.tried) \cap Active' = {}
  BY <1>2 DEF Gone
<1>3. CASE Reset
  <2>1. row'.tried = <<>>
    BY <1>3 DEF Reset, Pending
  <2>. QED BY <2>1 DEF ToSet
<1>4. CASE TimePasses
  <2>1. row'.tried = row.tried
    BY <1>4 DEF TimePasses, Typed, RowTyped, Rows
  <2>. QED BY <1>2, <1>4, <2>1 DEF TimePasses, shelfmark, Active
<1>5. CASE QueueLost
  BY <1>2, <1>5 DEF QueueLost, Active, stage
<1>6. CASE \E r \in Release : TaskEnds(r) \/ Vanish(r)
  <2>1. worker' = worker /\ row' = row
    BY <1>6 DEF TaskEnds, Vanish, stage
  <2>2. Active' \subseteq Active
    BY <1>6 DEF TaskEnds, Vanish, Active, Typed, OutsideTyped
  <2>. QED BY <1>2, <2>1, <2>2
<1>7. CASE UNCHANGED vars
  BY <1>2, <1>7 DEF vars, stage, shelfmark, Active
<1>8. CASE Begin \/ Drop \/ Search \/ Ask \/ MarkQueued \/ Remember \/ MarkDone \/ Crash
  <2>1. worker'.pc # "drop"
    BY <1>0, <1>8, Blank
    DEF Begin, Drop, Search, Ask, Queued, Trouble, MarkQueued, Remember, MarkDone, Crash, Ends,
        Workers, Idle
  <2>. QED BY <2>1
<1>. QED
  BY <1>1, <1>3, <1>4, <1>5, <1>6, <1>7, <1>8 DEF Next, Step, Environment

LEMMA OnlyDropLetsGo ==
  Typed /\ Gone /\ [Next]_vars =>
    (row.queued /\ ~row'.queued /\ resets' = resets => ToSet(row.tried) \cap Active = {})
<1>. SUFFICES ASSUME Typed, Gone, [Next]_vars, row.queued, ~row'.queued, resets' = resets
              PROVE  worker.pc = "drop"
  BY DEF Gone
<1>0. row \in Rows /\ resets \in Nat
  BY AcquireAssumption DEF Typed, RowTyped, OutsideTyped
<1>1. CASE Drop
  BY <1>1 DEF Drop
<1>2. ~Reset
  BY <1>0 DEF Reset
<1>3. CASE UNCHANGED row
  BY <1>3
<1>4. CASE Begin \/ MarkQueued \/ Remember \/ MarkDone \/ TimePasses
  BY <1>0, <1>4 DEF Begin, MarkQueued, Remember, MarkDone, TimePasses, Rows
<1>5. CASE Watch \/ Search \/ Ask \/ QueueLost \/ Crash
  BY <1>3, <1>5 DEF Watch, Search, Ask, QueueLost, Crash, stage
<1>6. CASE \E r \in Release : TaskEnds(r) \/ Vanish(r)
  BY <1>3, <1>6 DEF TaskEnds, Vanish, stage
<1>7. CASE UNCHANGED vars
  BY <1>3, <1>7 DEF vars, stage
<1>. QED BY <1>1, <1>2, <1>4, <1>5, <1>6, <1>7 DEF Next, Step, Environment

(* The row lets go of a download only when none runs that it knows of.       *)
THEOREM KeepsDownloads == Spec => HoldsOn
<1>1. Init => Gone
  BY Blank DEF Init, Gone
<1>2. Spec => [](Typed /\ Gone)
  BY <1>1, InitTyped, StepTyped, StepGone, PTL DEF Spec
<1>. QED BY <1>2, OnlyDropLetsGo, PTL DEF Spec, HoldsOn

-----------------------------------------------------------------------------
(* Giving up.  Where nothing goes wrong and nobody intervenes, what runs or  *)
(* has come is the release that was asked for last: it is in the list of     *)
(* what was tried as soon as the row says that there is a download, and      *)
(* when the row says that there is none, there is none.                      *)

Live == {r \in Release : task[r] \in {"active", "ok"}}

Asking == worker.pc \in {"mark", "note"}

Undisturbed ==
  /\ \A r \in Release : task[r] = "failed" => r \in died
  /\ landed => \E r \in Release : task[r] = "ok"
  /\ \A r \in ToSet(row.tried) : task[r] # "none"
  /\ worker.pc \in {"ask", "mark", "note"} => worker.tried = row.tried
  /\ worker.pc \in {"search", "ask", "mark"} => ~row.queued
  /\ worker.pc \in {"look", "drop", "note"} => row.queued
  /\ Asking => Live \subseteq {worker.best} /\ task[worker.best] # "none"
  /\ ~Asking => Live \subseteq ToSet(row.tried) /\ (~row.queued => Live = {})
  /\ worker.pc = "drop" \/ row.status = "failed" => Live = {}
  /\ worker.pc = "done" /\ worker.res \in {"failed", "exhausted"} => Live = {}
  /\ worker.res = "exhausted" => worker.pc = "done" /\ ToSet(row.tried) \subseteq died

ForCause == faults = 0 /\ resets = 0 => Undisturbed

(* The list keeps the release that was asked for, and gains no other.        *)
LEMMA LatestKeepsLast ==
  ASSUME NEW s \in Seq(Release), NEW b \in Release
  PROVE  /\ b \in ToSet(Latest(Append(s, b)))
         /\ ToSet(Latest(Append(s, b))) \subseteq ToSet(s) \cup {b}
<1>. DEFINE a == Append(s, b)
            m == IF Len(a) > MaxTried THEN Len(a) - MaxTried + 1 ELSE 1
            n == Len(a)
            l == SubSeq(a, m, n)
<1>1. /\ a \in Seq(Release) /\ n = Len(s) + 1 /\ a[n] = b /\ Len(s) \in Nat
      /\ \A i \in 1..Len(s) : a[i] = s[i]
  BY AppendProperties, LenProperties
<1>2. m \in 1..n /\ n \in Nat /\ n >= 1
  BY <1>1, AcquireAssumption
<1>3. Latest(a) = l
  BY DEF Latest
<1>. HIDE DEF a, m, n
<1>4. /\ l \in Seq(Release) /\ Len(l) = n - m + 1
      /\ \A i \in 1 .. n - m + 1 : l[i] = a[m + i - 1]
  BY <1>1, <1>2, SubSeqProperties DEF n
<1>. HIDE DEF l
<1>5. DOMAIN l = 1 .. n - m + 1 /\ DOMAIN s = 1 .. Len(s)
  BY <1>1, <1>2, <1>4, LenProperties
<1>6. b \in ToSet(l)
  <2>1. n - m + 1 \in DOMAIN l /\ m + (n - m + 1) - 1 = n
    BY <1>2, <1>5
  <2>2. l[n - m + 1] = b
    BY <1>1, <1>4, <1>5, <2>1
  <2>. QED BY <2>1, <2>2 DEF ToSet
<1>7. ASSUME NEW i \in DOMAIN l PROVE l[i] \in ToSet(s) \cup {b}
  <2>1. l[i] = a[m + i - 1] /\ m + i - 1 \in 1..n
    BY <1>2, <1>4, <1>5
  <2>2. CASE m + i - 1 = n
    BY <1>1, <2>1, <2>2
  <2>3. CASE m + i - 1 # n
    <3>1. m + i - 1 \in DOMAIN s /\ m + i - 1 \in 1..Len(s)
      BY <1>1, <1>2, <1>5, <2>1, <2>3
    <3>. QED BY <1>1, <2>1, <3>1 DEF ToSet
  <2>. QED BY <2>2, <2>3
<1>. QED BY <1>3, <1>6, <1>7 DEF ToSet, a

LEMMA InitForCause == Init => ForCause
<1>. SUFFICES ASSUME Init PROVE Undisturbed
  BY DEF ForCause
<1>1. /\ row = Pending /\ worker = Idle /\ task = [r \in Release |-> "none"] /\ landed = FALSE
  BY DEF Init
<1>2. Live = {} /\ ToSet(row.tried) = {}
  BY <1>1 DEF Live, ToSet, Pending
<1>. QED BY <1>1, <1>2 DEF Undisturbed, Asking, Idle, Pending

(* The list and the tasks it names are left as they are by what only looks.  *)
LEMMA FoundNothing ==
  ASSUME Typed, Undisturbed, ~Asking, FirstState(Found(row.tried)) \in {"failed", "none"}
  PROVE  Live = {}
<1>. SUFFICES ASSUME NEW r \in Live PROVE FALSE
  OBVIOUS
<1>1. r \in ToSet(row.tried) /\ task[r] \in {"active", "ok"}
  BY DEF Undisturbed, Live
<1>. DEFINE found == Found(row.tried)
            Fits(s) == /\ \E q \in found : task[q] = s
                       /\ \A q \in found : task[q] = "active" => s = "active"
                       /\ \A q \in found : task[q] = "ok" => s # "failed"
<1>2. r \in found
  BY <1>1 DEF Found
<1>3. FirstState(found) = CHOOSE s \in {"active", "ok", "failed"} : Fits(s)
  BY <1>2 DEF FirstState
<1>. HIDE DEF found
<1>4. \E s \in {"active", "ok", "failed"} : Fits(s)
  <2>1. CASE \E q \in found : task[q] = "active"
    BY <2>1
  <2>2. CASE ~\E q \in found : task[q] = "active"
    BY <1>1, <1>2, <2>2
  <2>. QED BY <2>1, <2>2
<1>5. \A s \in {"active", "ok", "failed"} : Fits(s) => s \in {"active", "ok"}
  BY <1>1, <1>2
<1>. HIDE DEF Fits
<1>6. (CHOOSE s \in {"active", "ok", "failed"} : Fits(s)) \in {"active", "ok"}
  BY <1>4, <1>5
<1>. QED BY <1>3, <1>6 DEF found

(* Nothing has gone wrong after a step only if nothing had before it, and    *)
(* the step is no fault and no intervention.                                 *)
LEMMA NoFault ==
  ASSUME Typed, [Next]_vars, faults' = 0, resets' = 0
  PROVE  faults = 0 /\ resets = 0 /\ ~Fault /\ ~Reset
<1>0. faults \in Nat /\ resets \in Nat
  BY AcquireAssumption DEF Typed, OutsideTyped
<1>1. ~Fault /\ ~Reset
  BY <1>0 DEF Fault, Reset
<1>2. CASE Step
  BY <1>1, <1>2
  DEF Step, Begin, Watch, Drop, Search, Ask, MarkQueued, Remember, MarkDone, Trouble, bounds
<1>3. CASE Environment
  BY <1>1, <1>3 DEF Environment, TaskEnds, Vanish, QueueLost, TimePasses, Crash, bounds
<1>4. CASE UNCHANGED vars
  BY <1>1, <1>4 DEF vars, bounds
<1>5. Step \/ Environment \/ UNCHANGED vars
  BY DEF Next
<1>. QED BY <1>2, <1>3, <1>4, <1>5

LEMMA StepForCause == Typed /\ ForCause /\ [Next]_vars => ForCause'
<1>. SUFFICES ASSUME Typed, ForCause, [Next]_vars, faults' = 0, resets' = 0
              PROVE  Undisturbed'
  BY DEF ForCause
<1>0. Undisturbed /\ ~Fault /\ ~Reset
  BY NoFault DEF ForCause
<1>. USE DEF Undisturbed, Asking
<1>a. worker \in Workers /\ row \in Rows
  BY DEF Typed, WorkerTyped, RowTyped
<1>. DEFINE SameTasks == task' = task /\ landed' = landed /\ died' = died
<1>b. SameTasks => Live' = Live
  BY DEF Live
<1>1. CASE Begin
  <2>1. SameTasks /\ row'.tried = row.tried /\ row'.queued = row.queued /\ row'.status = "running"
    BY <1>1, <1>a DEF Begin, shelfmark, Rows
  <2>2. /\ worker = Idle /\ worker'.res = "none"
        /\ worker'.pc = IF row.queued THEN "look" ELSE "search"
    BY <1>1 DEF Begin, Idle
  <2>. QED BY <1>0, <1>b, <2>1, <2>2 DEF Idle
<1>2. CASE Watch
  <2>1. SameTasks /\ row' = row /\ worker.pc = "look"
    BY <1>2 DEF Watch, shelfmark
  <2>2. Judge(FirstState(Found(row.tried)))
    BY <1>0, <1>2 DEF Watch, Trouble
  <2>3. \/ worker' = [worker EXCEPT !.pc = "done", !.res = "ok"]
        \/ worker' = [worker EXCEPT !.pc = "done", !.res = "blocked"]
        \/ /\ FirstState(Found(row.tried)) \in {"failed", "none"}
           /\ \E res \in {"dead", "lost"} : worker' = [worker EXCEPT !.pc = "drop", !.res = res]
    BY <2>2 DEF Judge, Ends
  <2>4. FirstState(Found(row.tried)) \in {"failed", "none"} => Live = {}
    BY <1>0, <2>1, FoundNothing
  <2>. QED BY <1>0, <1>a, <1>b, <2>1, <2>3, <2>4 DEF Workers
<1>3. CASE Drop
  <2>1. SameTasks /\ row'.tried = row.tried /\ row'.queued = FALSE /\ row'.status = row.status
    BY <1>3, <1>a DEF Drop, shelfmark, Rows
  <2>2. worker.pc = "drop" /\ worker'.pc = "done" /\ worker'.res \in {"blocked", "failed"}
    BY <1>3, <1>a DEF Drop, Ends, Workers
  <2>. QED BY <1>0, <1>b, <2>1, <2>2
<1>4. CASE Search
  <2>1. SameTasks /\ row' = row /\ worker.pc = "search"
    BY <1>4 DEF Search, shelfmark
  <2>2. \/ worker' = [worker EXCEPT !.pc = "done", !.res = "failed"]
        \/ worker' = [worker EXCEPT !.pc = "done", !.res = "exhausted"]
        \/ \E best : worker' = [worker EXCEPT !.pc = "ask", !.tried = row.tried, !.best = best]
    BY <1>0, <1>4 DEF Search, Trouble, Ends
  <2>3. Live = {} /\ ToSet(row.tried) \subseteq died
    <3>1. Live = {}
      BY <1>0, <2>1
    <3>2. ToSet(row.tried) \subseteq Release
      BY <1>a DEF Rows, ToSet
    <3>. QED BY <1>0, <3>1, <3>2 DEF Live, Typed, OutsideTyped
  <2>4. worker'.pc \in {"done", "ask"} /\ (worker'.pc = "ask" => worker'.tried = row.tried)
    BY <1>a, <2>2 DEF Workers
  <2>5. worker'.res = "exhausted" => worker'.pc = "done"
    BY <1>0, <1>a, <2>1, <2>2 DEF Workers
  <2>. QED BY <1>0, <1>b, <2>1, <2>3, <2>4, <2>5
<1>5. CASE Ask
  <2>1. /\ row' = row /\ landed' = landed /\ died' = died /\ worker.pc = "ask"
        /\ task' = [task EXCEPT ![worker.best] = "active"]
        /\ worker' = [worker EXCEPT !.pc = "mark"]
    BY <1>0, <1>5 DEF Ask, Queued, Trouble
  <2>2. worker.best \in Release /\ Live = {}
    BY <1>0, <2>1 DEF Typed, WorkerTyped
  <2>3. Live' = {worker.best} /\ task'[worker.best] = "active"
    BY <2>1, <2>2 DEF Live, Typed, OutsideTyped
  <2>4. ~landed
    BY <1>0, <2>2 DEF Live
  <2>5. ToSet(row.tried) \subseteq Release
    BY <1>a DEF Rows, ToSet
  <2>6. /\ \A r \in Release : task'[r] = "failed" => r \in died'
        /\ \A r \in ToSet(row'.tried) : task'[r] # "none"
    BY <1>0, <2>1, <2>2, <2>5 DEF Typed, OutsideTyped
  <2>7. /\ worker'.pc = "mark" /\ worker'.tried = row.tried /\ worker'.best = worker.best
        /\ worker'.res # "exhausted"
    BY <1>0, <1>a, <2>1 DEF Workers
  <2>8. row.status # "failed"
    BY <2>1 DEF Typed, Running
  <2>. QED BY <1>0, <2>1, <2>3, <2>4, <2>6, <2>7, <2>8
<1>6. CASE MarkQueued
  <2>1. /\ SameTasks /\ row'.tried = row.tried /\ row'.queued = TRUE /\ row'.status = row.status
        /\ worker.pc = "mark"
    BY <1>6, <1>a DEF MarkQueued, shelfmark, Rows
  <2>2. /\ worker'.pc = "note" /\ worker'.best = worker.best /\ worker'.tried = worker.tried
        /\ worker'.res = worker.res
    BY <1>6, <1>a DEF MarkQueued, Workers
  <2>. QED BY <1>0, <1>b, <2>1, <2>2
<1>7. CASE Remember
  <2>1. /\ SameTasks /\ row'.queued = row.queued /\ row'.status = row.status /\ worker.pc = "note"
        /\ row'.tried = Latest(Append(worker.tried, worker.best))
    BY <1>7, <1>a DEF Remember, shelfmark, Rows
  <2>2. worker'.pc = "done" /\ worker'.res = "blocked"
    BY <1>7, <1>a DEF Remember, Ends, Workers
  <2>3. worker.best \in Release /\ worker.tried \in Seq(Release)
    BY <1>a, <2>1 DEF Typed, WorkerTyped, Workers
  <2>4. worker.best \in ToSet(row'.tried) /\ ToSet(row'.tried) \subseteq ToSet(row.tried) \cup {worker.best}
    BY <1>0, <2>1, <2>3, LatestKeepsLast
  <2>5. row.status # "failed"
    BY <2>1 DEF Typed, Running
  <2>. QED BY <1>0, <1>b, <2>1, <2>2, <2>4, <2>5
<1>8. CASE MarkDone
  <2>1. /\ SameTasks /\ row'.queued = row.queued /\ row'.tried = row.tried /\ worker.pc = "done"
        /\ row'.status = IF worker.res = "exhausted" THEN "failed" ELSE worker.res
    BY <1>8, <1>a DEF MarkDone, shelfmark, Rows
  <2>2. worker'.pc = "idle" /\ worker'.res = "none"
    BY <1>8 DEF MarkDone, Idle
  <2>. QED BY <1>0, <1>b, <2>1, <2>2
<1>9. CASE \E r \in Release : TaskEnds(r)
  <2>1. PICK r \in Release : TaskEnds(r)
    BY <1>9
  <2>2. worker' = worker /\ row' = row /\ task[r] = "active" /\ died \subseteq died'
    BY <2>1 DEF TaskEnds, stage, Active
  <2>3. /\ Live' \subseteq Live /\ \A q \in Release : task[q] # "none" => task'[q] # "none"
        /\ \A q \in Release : task'[q] = "failed" => q \in died'
        /\ landed' => \E q \in Release : task'[q] = "ok"
    <3>1. task \in [Release -> {"none", "active", "ok", "failed"}]
      BY DEF Typed, OutsideTyped
    <3>. QED BY <1>0, <2>1, <2>2, <3>1 DEF TaskEnds, Live
  <2>4. ToSet(row.tried) \subseteq Release /\ (Asking => worker.best \in Release)
    BY <1>a DEF Rows, ToSet, Typed, WorkerTyped
  <2>. QED BY <1>0, <2>2, <2>3, <2>4
<1>10. CASE TimePasses
  <2>1. /\ SameTasks /\ worker' = worker
        /\ row'.tried = row.tried /\ row'.queued = row.queued /\ row'.status = row.status
    BY <1>10, <1>a DEF TimePasses, shelfmark, Rows
  <2>. QED BY <1>0, <1>b, <2>1
<1>11. CASE UNCHANGED vars
  BY <1>0, <1>b, <1>11 DEF vars, stage, shelfmark
<1>12. ~QueueLost /\ ~Crash /\ ~\E r \in Release : Vanish(r)
  BY <1>0 DEF QueueLost, Crash, Vanish
<1>. QED
  BY <1>0, <1>1, <1>2, <1>3, <1>4, <1>5, <1>6, <1>7, <1>8, <1>9, <1>10, <1>11, <1>12
  DEF Next, Step, Environment

(* If nothing goes wrong and nobody intervenes, a book is given up only when *)
(* no download of it runs or has landed, and releases count as used up only  *)
(* if their downloads failed.                                                *)
THEOREM GivesUpRightly == Spec => []GivesUpForCause
<1>1. Spec => [](Typed /\ ForCause)
  BY InitTyped, StepTyped, InitForCause, StepForCause, PTL DEF Spec
<1>2. ForCause => GivesUpForCause
  <2>. SUFFICES ASSUME Undisturbed PROVE GivesUpForCause
    BY DEF ForCause, GivesUpForCause
  <2>. QED BY DEF Undisturbed, GivesUpForCause, Live, Active
<1>. QED BY <1>1, <1>2, PTL
-----------------------------------------------------------------------------
(* How many run.  Each fault and each reset lets go of one download at most, *)
(* so what the row does not hold on to is never more than those.  The run    *)
(* holds the release it has asked for until the row does: it is the one more.*)

Few(S) == Cardinality(S) <= faults + resets

AsksWhenFree == worker.pc \in {"search", "ask", "mark"} => ~row.queued

Unheld ==
  /\ worker.pc = "drop" \/ (~row.queued /\ worker.pc # "mark") => Few(Active)
  /\ worker.pc = "mark" \/ (row.queued /\ worker.pc = "note") => Few(Active \ {worker.best})
  /\ row.queued /\ worker.pc # "note" => Few(Active \ ToSet(row.tried))

Counted == AsksWhenFree /\ Unheld /\ OneDownload

LEMMA Count ==
  ASSUME NEW S \in SUBSET Release, NEW T \in SUBSET S
  PROVE  Cardinality(S) \in Nat /\ Cardinality(T) \in Nat /\ Cardinality(T) <= Cardinality(S)
<1>1. IsFiniteSet(Release)
  BY AcquireAssumption, FS_Interval DEF Release
<1>2. IsFiniteSet(S) /\ IsFiniteSet(T)
  BY <1>1, FS_Subset
<1>. QED BY <1>2, FS_Subset, FS_CardinalityType

LEMMA CountOneMore ==
  ASSUME NEW S \in SUBSET Release, NEW T \in SUBSET Release, NEW r \in Release,
         S \subseteq T \cup {r}
  PROVE  Cardinality(S) <= Cardinality(T) + 1
<1>1. IsFiniteSet(Release)
  BY AcquireAssumption, FS_Interval DEF Release
<1>2. IsFiniteSet(T) /\ IsFiniteSet(T \cup {r})
  BY <1>1, FS_Subset, FS_AddElement
<1>3. Cardinality(T \cup {r}) <= Cardinality(T) + 1
  BY <1>2, FS_AddElement, FS_CardinalityType
<1>4. Cardinality(S) <= Cardinality(T \cup {r})
  BY <1>2, FS_Subset
<1>5. Cardinality(T) \in Nat /\ Cardinality(S) \in Nat /\ Cardinality(T \cup {r}) \in Nat
  BY Count
<1>. QED BY <1>3, <1>4, <1>5

(* What went wrong is only ever added to, so what is few stays few.          *)
LEMMA CountsGrow ==
  ASSUME Typed, [Next]_vars
  PROVE  /\ faults \in Nat /\ resets \in Nat /\ faults' \in Nat /\ resets' \in Nat
         /\ faults' + resets' >= faults + resets
<1>1. faults \in Nat /\ resets \in Nat
  BY AcquireAssumption DEF Typed, OutsideTyped
<1>2. (faults' = faults \/ faults' = faults + 1) /\ (resets' = resets \/ resets' = resets + 1)
  BY DEF Next, Step, Environment, Begin, Watch, Drop, Search, Ask, MarkQueued, Remember, MarkDone,
     TaskEnds, Vanish, QueueLost, TimePasses, Crash, Reset, Trouble, Fault, bounds, vars
<1>. QED BY <1>1, <1>2

LEMMA StaysFew ==
  ASSUME Typed, [Next]_vars, NEW S \in SUBSET Release, NEW T \in SUBSET S, Few(S)
  PROVE  Cardinality(T) <= faults' + resets'
  BY CountsGrow, Count DEF Few

LEMMA InitCounted == Init => Counted
<1>. SUFFICES ASSUME Init PROVE Counted
  OBVIOUS
<1>1. /\ ~row.queued /\ worker.pc = "idle" /\ faults = 0 /\ resets = 0
      /\ task = [r \in Release |-> "none"]
  BY DEF Init, Pending, Idle
<1>2. Active = {}
  BY <1>1 DEF Active
<1>. QED BY <1>1, <1>2, FS_EmptySet DEF Counted, AsksWhenFree, Unheld, OneDownload, Few

(* The steps that leave the run and the row's hold as they are, and start    *)
(* nothing.                                                                  *)
LEMMA QuietCounted ==
  ASSUME Typed, Counted, [Next]_vars, worker' = worker, row'.queued = row.queued,
         row'.tried = row.tried, Active' \subseteq Active
  PROVE  Counted'
<1>0. Active \subseteq Release
  BY DEF Active
<1>1. AsksWhenFree'
  BY DEF Counted, AsksWhenFree
<1>2. Unheld'
  <2>1. Few(Active) => Few(Active)'
    BY <1>0, StaysFew DEF Few
  <2>2. Few(Active \ {worker.best}) => Few(Active \ {worker.best})'
    BY <1>0, StaysFew DEF Few
  <2>3. Few(Active \ ToSet(row.tried)) => Few(Active \ ToSet(row.tried))'
    BY <1>0, StaysFew DEF Few
  <2>. QED BY <2>1, <2>2, <2>3 DEF Counted, Unheld
<1>3. OneDownload'
  <2>1. Cardinality(Active) \in Nat /\ Cardinality(Active') \in Nat /\ Cardinality(Active') <= Cardinality(Active)
    BY <1>0, Count
  <2>2. Cardinality(Active) <= 1 + faults + resets
    BY DEF Counted, OneDownload
  <2>. QED BY <2>1, <2>2, CountsGrow DEF OneDownload
<1>. QED BY <1>1, <1>2, <1>3 DEF Counted
(* What a watch lets go of does not run: a download that the row knows of is *)
(* seen, and waited for.                                                     *)
LEMMA WatchCounted ==
  ASSUME Typed, Counted, Watch
  PROVE  Counted'
<1>0. [Next]_vars /\ Active \subseteq Release /\ worker \in Workers
  BY DEF Next, Step, Active, Typed, WorkerTyped
<1>1. row' = row /\ Active' = Active /\ worker.pc = "look"
  BY DEF Watch, shelfmark, Active
<1>2. worker'.pc \in {"drop", "done"}
  BY <1>0 DEF Watch, Judge, Trouble, Ends, Workers
<1>3. ASSUME worker'.pc = "drop" PROVE Few(Active)
  <2>1. CASE ~row.queued
    BY <1>1, <2>1 DEF Counted, Unheld
  <2>2. CASE row.queued
    <3>1. Judge(FirstState(Found(row.tried)))
      BY <1>0, <1>3 DEF Watch, Trouble, Ends, Workers
    <3>2. FirstState(Found(row.tried)) # "active"
      BY <1>0, <1>3, <3>1 DEF Judge, Ends, Workers
    <3>3. Active \ ToSet(row.tried) = Active
      BY <1>0, <3>2, RunningIsSeen
    <3>. QED BY <1>1, <2>2, <3>3 DEF Counted, Unheld
  <2>. QED BY <2>1, <2>2
<1>4. Unheld'
  <2>1. Few(Active) => Few(Active)'
    BY <1>0, <1>1, StaysFew DEF Few
  <2>2. Few(Active \ ToSet(row.tried)) => Few(Active \ ToSet(row.tried))'
    BY <1>0, <1>1, StaysFew DEF Few
  <2>. QED BY <1>1, <1>2, <1>3, <2>1, <2>2 DEF Counted, Unheld
<1>5. OneDownload'
  BY <1>0, <1>1, CountsGrow, Count DEF Counted, OneDownload
<1>. QED BY <1>1, <1>2, <1>4, <1>5 DEF Counted, AsksWhenFree

(* The request adds the release that was chosen, while the row holds none. A *)
(* request whose answer is lost is a fault.                                  *)
LEMMA AskCounted ==
  ASSUME Typed, Counted, Ask
  PROVE  Counted'
<1>0. [Next]_vars /\ worker \in Workers /\ worker.best \in Release /\ Active \subseteq Release
  BY DEF Next, Step, Ask, Typed, WorkerTyped, Active
<1>1. row' = row /\ ~row.queued /\ Few(Active)
  BY DEF Ask, Counted, AsksWhenFree, Unheld
<1>2. Active' \subseteq Active \cup {worker.best} /\ Active' \subseteq Release
  BY <1>0 DEF Ask, Queued, Active, Typed, OutsideTyped
<1>3. Cardinality(Active') <= Cardinality(Active) + 1
  BY <1>0, <1>2, CountOneMore
<1>4. Cardinality(Active) \in Nat /\ Cardinality(Active') \in Nat
  BY <1>0, <1>2, Count
<1>5. CASE worker' = [worker EXCEPT !.pc = "mark"]
  <2>1. worker'.pc = "mark" /\ worker'.best = worker.best
    BY <1>0, <1>5 DEF Workers
  <2>2. Active' \ {worker.best} \subseteq Active
    BY <1>2
  <2>3. Cardinality(Active' \ {worker.best}) <= faults' + resets'
    BY <1>0, <1>1, <2>2, StaysFew
  <2>4. OneDownload'
    BY <1>1, <1>3, <1>4, CountsGrow, <1>0 DEF OneDownload, Few
  <2>. QED BY <1>1, <2>1, <2>3, <2>4 DEF Counted, AsksWhenFree, Unheld, Few
<1>6. CASE Trouble
  <2>1. worker'.pc = "done" /\ faults' = faults + 1 /\ resets' = resets
    BY <1>0, <1>6 DEF Trouble, Fault, Ends, Workers, Ask
  <2>2. Few(Active)'
    BY <1>0, <1>1, <1>3, <1>4, <2>1, CountsGrow DEF Few
  <2>3. OneDownload'
    BY <1>0, <1>4, <2>2, CountsGrow DEF OneDownload, Few
  <2>. QED BY <1>1, <2>1, <2>2, <2>3 DEF Counted, AsksWhenFree, Unheld, Few
<1>. QED BY <1>5, <1>6 DEF Ask, Queued
(* The row takes over what the run holds: as it is marked, and as the release*)
(* that was asked for is noted.                                              *)
LEMMA NoteCounted ==
  ASSUME Typed, Counted, MarkQueued \/ Remember
  PROVE  Counted'
<1>0. [Next]_vars /\ Active \subseteq Release /\ worker \in Workers /\ row \in Rows
  BY DEF Next, Step, Active, Typed, WorkerTyped, RowTyped
<1>1. Active' = Active /\ faults' = faults /\ resets' = resets /\ OneDownload'
  BY DEF MarkQueued, Remember, shelfmark, bounds, Active, Counted, OneDownload
<1>2. CASE MarkQueued
  <2>1. /\ worker.pc = "mark" /\ worker'.pc = "note" /\ worker'.best = worker.best
        /\ row'.queued = TRUE
    BY <1>0, <1>2 DEF MarkQueued, Workers, Rows
  <2>. QED BY <1>1, <2>1 DEF Counted, AsksWhenFree, Unheld, Few
<1>3. CASE Remember
  <2>1. /\ worker.pc = "note" /\ worker'.pc = "done" /\ row'.queued = row.queued
        /\ row'.tried = Latest(Append(worker.tried, worker.best))
    BY <1>0, <1>3 DEF Remember, Ends, Workers, Rows
  <2>2. worker.best \in ToSet(row'.tried)
    BY <1>0, <2>1, LatestKeepsLast DEF Workers, Typed, WorkerTyped
  <2>3. CASE row.queued
    <3>1. Few(Active \ {worker.best}) /\ Active \ ToSet(row'.tried) \subseteq Active \ {worker.best}
      BY <2>1, <2>2, <2>3 DEF Counted, Unheld
    <3>2. Cardinality(Active \ ToSet(row'.tried)) <= faults' + resets'
      BY <1>0, <3>1, StaysFew
    <3>. QED BY <1>1, <2>1, <2>3, <3>2 DEF Counted, AsksWhenFree, Unheld, Few
  <2>4. CASE ~row.queued
    BY <1>1, <2>1, <2>4 DEF Counted, AsksWhenFree, Unheld, Few
  <2>. QED BY <2>3, <2>4
<1>. QED BY <1>2, <1>3

(* A stop, or a reset, lets go of whatever ran.                              *)
LEMMA LetGoCounted ==
  ASSUME Typed, Counted, Crash \/ Reset
  PROVE  Counted'
<1>0. /\ Active \subseteq Release /\ Active' = Active
      /\ faults \in Nat /\ resets \in Nat /\ faults' + resets' = faults + resets + 1
  BY AcquireAssumption DEF Active, Crash, Reset, Fault, shelfmark, Typed, OutsideTyped
<1>1. ASSUME NEW S \in SUBSET Active PROVE Cardinality(S) <= faults' + resets'
  BY <1>0, Count DEF Counted, OneDownload
<1>2. worker'.pc = "mark" => worker.pc = "mark" /\ ~row'.queued /\ worker' = worker
  BY DEF Crash, Reset, Idle, Pending
<1>3. AsksWhenFree'
  BY DEF Counted, AsksWhenFree, Crash, Reset, Idle, Pending
<1>4. Few(Active)' /\ Few(Active \ {worker.best})' /\ Few(Active \ ToSet(row.tried))'
  BY <1>0, <1>1 DEF Few
<1>5. OneDownload'
  <2>1. [Next]_vars /\ Cardinality(Active) \in Nat
    BY <1>0, Count DEF Next, Environment
  <2>. QED BY <1>0, <1>4, <2>1, CountsGrow DEF OneDownload, Few
<1>. QED BY <1>3, <1>4, <1>5 DEF Counted, Unheld

LEMMA StepCounted == Typed /\ Counted /\ [Next]_vars => Counted'
<1>. SUFFICES ASSUME Typed, Counted, [Next]_vars PROVE Counted'
  OBVIOUS
<1>0. worker \in Workers /\ row \in Rows /\ Active \subseteq Release
  BY DEF Typed, WorkerTyped, RowTyped, Active
<1>1. CASE Begin \/ MarkDone
  <2>1. Active' = Active /\ faults' = faults /\ resets' = resets
    BY <1>1 DEF Begin, MarkDone, shelfmark, bounds, Active
  <2>2. row'.queued = row.queued /\ row'.tried = row.tried
    BY <1>0, <1>1 DEF Begin, MarkDone, Rows
  <2>3. /\ worker.pc \in {"idle", "done"} /\ worker'.pc \in {"idle", "look", "search"}
        /\ worker'.pc = "search" => ~row.queued
    BY <1>1 DEF Begin, MarkDone, Idle
  <2>. QED BY <2>1, <2>2, <2>3 DEF Counted, AsksWhenFree, Unheld, OneDownload, Few
<1>6. CASE Search
  <2>1. /\ row' = row /\ Active' = Active /\ worker.pc = "search" /\ worker'.pc \in {"ask", "done"}
    BY <1>0, <1>6 DEF Search, Trouble, Ends, shelfmark, Active, Workers
  <2>2. ~row.queued /\ Few(Active)
    BY <2>1 DEF Counted, AsksWhenFree, Unheld
  <2>3. Few(Active)'
    BY <1>0, <2>1, <2>2, StaysFew DEF Few
  <2>4. OneDownload'
    BY <1>0, <2>1, <2>3, CountsGrow, Count DEF OneDownload, Few
  <2>. QED BY <2>1, <2>2, <2>3, <2>4 DEF Counted, AsksWhenFree, Unheld
<1>7. CASE Drop
  <2>1. Active' = Active /\ faults' = faults /\ resets' = resets
    BY <1>7 DEF Drop, shelfmark, bounds, Active
  <2>2. worker.pc = "drop" /\ worker'.pc = "done" /\ ~row'.queued
    BY <1>0, <1>7 DEF Drop, Ends, Workers, Rows
  <2>. QED BY <2>1, <2>2 DEF Counted, AsksWhenFree, Unheld, OneDownload, Few
<1>2. CASE Watch \/ Ask \/ MarkQueued \/ Remember \/ Crash \/ Reset
  BY <1>2, WatchCounted, AskCounted, NoteCounted, LetGoCounted
<1>3. CASE QueueLost \/ \E r \in Release : TaskEnds(r) \/ Vanish(r)
  <2>1. worker' = worker /\ row' = row
    BY <1>3 DEF QueueLost, TaskEnds, Vanish, stage
  <2>2. Active' \subseteq Active
    BY <1>3 DEF QueueLost, TaskEnds, Vanish, Active, Typed, OutsideTyped
  <2>. QED BY <2>1, <2>2, QuietCounted
<1>4. CASE TimePasses
  <2>1. worker' = worker /\ row'.queued = row.queued /\ row'.tried = row.tried /\ Active' = Active
    BY <1>0, <1>4 DEF TimePasses, shelfmark, Active, Rows
  <2>. QED BY <2>1, QuietCounted
<1>5. CASE UNCHANGED vars
  BY <1>5, QuietCounted DEF vars, stage, shelfmark, Active
<1>. QED BY <1>1, <1>2, <1>3, <1>4, <1>5, <1>6, <1>7 DEF Next, Step, Environment

(* One download of the book runs at a time, but for one more each time that  *)
(* the process stops between its request and its row, that an answer is      *)
(* lost, or that the operator resets the row of a running download.          *)
THEOREM DownloadsOnce == Spec => []OneDownload
<1>1. Spec => [](Typed /\ Counted)
  BY InitTyped, StepTyped, InitCounted, StepCounted, PTL DEF Spec
<1>. QED BY <1>1, PTL DEF Counted

-----------------------------------------------------------------------------
(* What the stage is to the others.  Whatever Shelfmark does, a row changes  *)
(* its status with the start, the end and the reset of the stage alone.      *)

LEMMA InitContract == Init => Contract!Init
<1>. SUFFICES ASSUME Init PROVE Contract!Init
  OBVIOUS
<1>1. Fate = "open" /\ worker.pc = "idle"
  BY DEF Init, Fate, Parked, Idle, Pending
<1>. QED BY <1>1 DEF Contract!Init

(* A step of a run, or of others, that leaves the status of the row.          *)
LEMMA SameToOthers ==
  ASSUME row'.status = row.status, row'.attempts = row.attempts,
         worker'.pc = "idle" <=> worker.pc = "idle"
  PROVE  UNCHANGED Contract!vars
<1>1. Fate' = Fate
  BY DEF Fate, Parked
<1>. QED BY <1>1 DEF Contract!vars

LEMMA EndToOthers ==
  ASSUME worker.pc # "idle", worker'.pc = "idle"
  PROVE  Contract!Next
<1>1. Fate' \in {"open", "finished", "parked"}
  BY DEF Fate
<1>2. Contract!End("acquire")
  BY <1>1 DEF Contract!End
<1>. QED BY <1>2 DEF Contract!Next

LEMMA ResetToOthers ==
  ASSUME Fate' = "open", worker'.pc = "idle" <=> worker.pc = "idle"
  PROVE  Contract!Next
<1>1. Contract!Reset({"acquire"})
  BY DEF Contract!Reset
<1>. QED BY <1>1 DEF Contract!Next

LEMMA StepContract == Typed /\ [Next]_vars => [Contract!Next]_(Contract!vars)
<1>. SUFFICES ASSUME Typed, [Next]_vars PROVE [Contract!Next]_(Contract!vars)
  OBVIOUS
<1>1. row \in Rows /\ worker \in Workers /\ (worker.pc = "idle" => worker = Idle)
  BY DEF Typed, RowTyped, WorkerTyped, Running
<1>2. Idle.pc = "idle"
  BY DEF Idle
<1>3. CASE Begin
  <2>1. /\ worker.pc = "idle" /\ Fate = "open"
        /\ row'.status = "running" /\ worker'.pc # "idle"
    BY <1>1, <1>2, <1>3 DEF Begin, Fate, Rows, Idle
  <2>2. Fate' = "open"
    BY <2>1 DEF Fate, Parked
  <2>3. Contract!Begin("acquire")
    BY <2>1, <2>2 DEF Contract!Begin
  <2>. QED BY <2>3 DEF Contract!Next
<1>4. CASE Watch \/ Search
  <2>1. worker.pc # "idle" /\ worker'.pc # "idle"
    BY <1>1, <1>4 DEF Watch, Judge, Trouble, Ends, Search, Workers
  <2>. QED BY <1>4, <2>1, SameToOthers DEF Watch, Search
<1>5. CASE Drop \/ MarkQueued \/ Remember
  <2>1. worker.pc # "idle" /\ worker'.pc # "idle"
    BY <1>1, <1>5 DEF Drop, Ends, MarkQueued, Remember, Workers
  <2>2. row'.status = row.status /\ row'.attempts = row.attempts
    BY <1>1, <1>5 DEF Drop, MarkQueued, Remember, Rows
  <2>. QED BY <2>1, <2>2, SameToOthers
<1>6. CASE Ask
  <2>1. worker.pc # "idle" /\ worker'.pc # "idle"
    BY <1>1, <1>6 DEF Ask, Queued, Trouble, Ends, Workers
  <2>. QED BY <1>6, <2>1, SameToOthers DEF Ask
<1>7. CASE MarkDone
  BY <1>2, <1>7, EndToOthers DEF MarkDone
<1>8. CASE Crash
  <2>1. worker.pc # "idle" /\ worker'.pc = "idle" /\ row' = row
    BY <1>1, <1>2, <1>8 DEF Crash
  <2>. QED BY <2>1, EndToOthers
<1>9. CASE Reset
  <2>1. worker' = worker /\ Fate' = "open"
    BY <1>9 DEF Reset, Fate, Parked, Pending
  <2>. QED BY <2>1, ResetToOthers
<1>10. CASE TimePasses
  <2>1. worker' = worker /\ row'.status = row.status /\ row'.attempts = row.attempts
    BY <1>1, <1>10 DEF TimePasses, Rows
  <2>. QED BY <2>1, SameToOthers
<1>11. CASE QueueLost \/ (\E r \in Release : TaskEnds(r) \/ Vanish(r)) \/ UNCHANGED vars
  BY <1>11, SameToOthers DEF QueueLost, TaskEnds, Vanish, vars, stage
<1>. QED BY <1>3, <1>4, <1>5, <1>6, <1>7, <1>8, <1>9, <1>10, <1>11 DEF Next, Step, Environment

(* To the other stages this one is what StageRows says, for any releases,     *)
(* faults and resets: whatever Shelfmark does, its row is finished or parked *)
(* by the end of its own run only.                                           *)
THEOREM ContractKept == Spec => KeepsContract
  BY InitTyped, StepTyped, InitContract, StepContract, PTL
  DEF Spec, KeepsContract, Contract!Spec

=============================================================================
