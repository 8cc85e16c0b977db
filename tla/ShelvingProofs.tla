---------------------------- MODULE ShelvingProofs ----------------------------
(***************************************************************************)
(* Of any bounds: the types, that a book recorded as shelved is on that    *)
(* shelf, and that a run in which nothing failed leaves it on some shelf.  *)
(***************************************************************************)
EXTENDS Shelving, TLAPS

-----------------------------------------------------------------------------
(* The shelves.                                                            *)

LEMMA Shelves ==
  /\ Collected = {"collected-pdf", "collected-audiobook", "collected-pdf-audiobook"}
  /\ Range(Order) = Collected \cup {"to-read"} /\ Len(Order) = 4
  /\ \A i \in 1..4 : Order[i] \in Range(Order)
<1>1. DOMAIN Order = 1..4 /\ Len(Order) = 4
  BY DEF Order
<1>2. /\ Order[1] = "to-read" /\ Order[2] = "collected-pdf"
      /\ Order[3] = "collected-audiobook" /\ Order[4] = "collected-pdf-audiobook"
  BY DEF Order
<1>3. Range(Order) = {Order[1], Order[2], Order[3], Order[4]}
  BY <1>1 DEF Range
<1>4. Range(Order) = {"to-read", "collected-pdf", "collected-audiobook", "collected-pdf-audiobook"}
  BY <1>2, <1>3
<1>5. \A i \in 1..4 : Order[i] \in Range(Order)
  BY <1>1 DEF Range
<1>. QED BY <1>1, <1>4, <1>5 DEF Collected

LEMMA ShelfIsCollected ==
  ASSUME NEW has \in SUBSET Format, has # {} PROVE ShelfOf(has) \in Collected
<1>1. has = Format \/ has = {"ebook"} \/ has = {"audiobook"}
  BY DEF Format
<1>2. CASE has = Format
  BY <1>2, Shelves DEF ShelfOf
<1>3. CASE has = {"ebook"}
  BY <1>3, Shelves DEF ShelfOf, Format
<1>4. CASE has = {"audiobook"}
  BY <1>4, Shelves DEF ShelfOf, Format
<1>. QED BY <1>1, <1>2, <1>3, <1>4

-----------------------------------------------------------------------------
(* Types.  A stage that runs was not parked, so each stop spends at most one *)
(* attempt beyond the limit; a run ends with a result; and from the choice   *)
(* of a shelf on it is one of those that books are collected on.             *)

Moving == {"make", "add", "confirm", "destroy", "again", "reconfirm"}

Running ==
  /\ worker.pc = "idle" => worker = Idle
  /\ worker.pc # "idle" => row.status \in {"running", "pending"}
  /\ worker.pc = "done" => worker.res # "none"
  /\ worker.pc \in Moving \/ (worker.pc = "done" /\ worker.res = "ok")
       => worker.shelf \in Collected

Spent ==
  /\ row.attempts <= MaxAttempts + crashes
  /\ worker.pc = "idle" /\ row.status \in {"pending", "running", "blocked"}
       => row.attempts < MaxAttempts + crashes

Typed == TypeOK /\ Running /\ Spent

LEMMA InitTyped == Init => Typed
<1>. SUFFICES ASSUME Init PROVE Typed
  OBVIOUS
<1>1. /\ shelves \subseteq Collected \cup Exclusive /\ made \subseteq Collected
      /\ deep \subseteq Range(Order) /\ formats \subseteq Format
  BY Shelves DEF Init, Exclusive
<1>0. /\ row = NoRow /\ worker = Idle /\ recon = Resting
      /\ faults = 0 /\ crashes = 0 /\ hands = 0 /\ toggles = 0
  BY DEF Init
<1>2. row \in Rows /\ row.status = "pending"
  BY <1>0, ShelvingAssumption DEF Rows, NoRow
<1>3. worker \in Workers
  BY <1>0 DEF Workers, Idle
<1>4. recon \in Recons
  BY <1>0, Shelves DEF Recons, Resting
<1>5. switch \in [book : BOOLEAN, all : BOOLEAN]
  BY DEF Init
<1>6. /\ faults \in 0..MaxFaults /\ crashes \in 0..MaxCrash
      /\ hands \in 0..MaxHands /\ toggles \in 0..MaxToggles
  BY <1>0, ShelvingAssumption
<1>7. Running
  BY <1>0 DEF Running, Idle, Moving
<1>8. Spent
  BY <1>0, ShelvingAssumption DEF Spent, NoRow
<1>. QED BY <1>1, <1>2, <1>3, <1>4, <1>5, <1>6, <1>7, <1>8 DEF Typed, TypeOK

LEMMA StartTyped == Typed /\ Start => Typed'
<1>. SUFFICES ASSUME Typed, Start PROVE Typed'
  OBVIOUS
<1>0. row.attempts + 1 \in 0..MaxAttempts + MaxCrash
  <2>1. row.attempts \in Nat /\ crashes \in 0..MaxCrash /\ worker.pc = "idle"
    BY DEF Typed, TypeOK, Rows, Start, Idle
  <2>2. row.status \in {"pending", "running", "ok", "failed", "skipped", "blocked"}
    BY DEF Typed, TypeOK, Rows
  <2>3. row.attempts < MaxAttempts + crashes
    BY <2>1, <2>2, ShelvingAssumption DEF Typed, Spent, Start, Parked
  <2>. QED BY <2>1, <2>3, ShelvingAssumption
<1>1. row' \in Rows /\ (row'.status = "ok" => row'.artifact \in Collected)
  <2>1. row' = [row EXCEPT !.status = "running", !.attempts = @ + 1] /\ row \in Rows
    BY DEF Typed, TypeOK, Start
  <2>. QED BY <2>1, <1>0 DEF Rows
<1>2. worker' \in Workers
  BY ShelvingAssumption DEF Typed, TypeOK, Running, Workers, Start, Idle, Parked, goodreads, bounds
<1>3. Running'
  BY ShelvingAssumption DEF Typed, TypeOK, Running, Workers, Rows, Moving, Start, Idle, Parked, goodreads, bounds
<1>4. Spent'
  BY ShelvingAssumption DEF Typed, TypeOK, Running, Spent, Workers, Rows, Start, Idle, Parked, goodreads, bounds
<1>5. recon' \in Recons
  BY ShelvingAssumption DEF Typed, TypeOK, Recons, Start, Idle, Parked, goodreads, bounds
<1>6. TypeOK'
  BY <1>1, <1>2, <1>5, ShelvingAssumption DEF Typed, TypeOK, Start, Idle, Parked, goodreads, bounds
<1>. QED BY <1>3, <1>4, <1>6 DEF Typed

LEMMA ChooseTyped == Typed /\ Choose => Typed'
<1>. SUFFICES ASSUME Typed, Choose PROVE Typed'
  OBVIOUS
<1>0. formats # {} => ShelfOf(formats) \in Collected
  BY ShelfIsCollected DEF Typed, TypeOK
<1>1. row' \in Rows /\ (row'.status = "ok" => row'.artifact \in Collected)
  BY ShelvingAssumption, ShelfIsCollected DEF Typed, TypeOK, Running, Spent, Rows, Workers, Choose, At, Ends, goodreads, bounds
<1>2. worker' \in Workers
  <2>1. worker \in Workers
    BY DEF Typed, TypeOK
  <2>. QED BY <1>0, <2>1 DEF Workers, Choose, Ends
<1>3. Running'
  <2>1. worker \in Workers /\ worker.pc = "run" /\ row.status \in {"running", "pending"}
    BY DEF Typed, TypeOK, Running, Choose, At
  <2>. QED BY <1>0, <2>1 DEF Running, Workers, Moving, Choose, Ends
<1>4. Spent'
  BY ShelvingAssumption, ShelfIsCollected DEF Typed, TypeOK, Running, Spent, Workers, Rows, Choose, At, Ends, goodreads, bounds
<1>5. recon' \in Recons
  BY ShelvingAssumption, ShelfIsCollected DEF Typed, TypeOK, Recons, Choose, At, Ends, goodreads, bounds
<1>6. TypeOK'
  BY <1>1, <1>2, <1>5, ShelvingAssumption, ShelfIsCollected DEF Typed, TypeOK, Choose, At, Ends, goodreads, bounds
<1>. QED BY <1>3, <1>4, <1>6 DEF Typed

(* A run that was to be put on a shelf goes on with its requests, or ends.    *)
LEMMA MovesTyped ==
  ASSUME Typed, worker.pc \in Moving, row' = row,
         \/ \E pc \in Moving : worker' = [worker EXCEPT !.pc = pc]
         \/ \E pc \in Moving, on \in SUBSET (Collected \cup Exclusive) :
              worker' = [worker EXCEPT !.pc = pc, !.seen = on]
         \/ \E res \in {"ok", "failed", "blocked"} :
              worker' = [worker EXCEPT !.pc = "done", !.res = res]
  PROVE  worker' \in Workers /\ Running'
<1>1. /\ worker \in Workers /\ worker.shelf \in Collected
      /\ row.status \in {"running", "pending"}
  BY DEF Typed, TypeOK, Running, Moving
<1>2. ASSUME NEW pc \in Moving, worker' = [worker EXCEPT !.pc = pc]
      PROVE  worker' \in Workers /\ Running'
  BY <1>1, <1>2 DEF Workers, Running, Moving
<1>3. ASSUME NEW pc \in Moving, NEW on \in SUBSET (Collected \cup Exclusive),
             worker' = [worker EXCEPT !.pc = pc, !.seen = on]
      PROVE  worker' \in Workers /\ Running'
  BY <1>1, <1>3 DEF Workers, Running, Moving
<1>4. ASSUME NEW res \in {"ok", "failed", "blocked"},
             worker' = [worker EXCEPT !.pc = "done", !.res = res]
      PROVE  worker' \in Workers /\ Running'
  BY <1>1, <1>4 DEF Workers, Running, Moving
<1>. QED BY <1>2, <1>3, <1>4

LEMMA EnsureTyped == Typed /\ EnsureShelf => Typed'
<1>. SUFFICES ASSUME Typed, EnsureShelf PROVE Typed'
  OBVIOUS
<1>1. row' \in Rows /\ (row'.status = "ok" => row'.artifact \in Collected)
  BY ShelvingAssumption DEF Typed, TypeOK, Running, Spent, Rows, Workers, EnsureShelf, At, GoTo, Ends, Fault
<1>2. worker' \in Workers /\ Running'
  <2>1. worker.pc \in Moving /\ row' = row
    BY DEF EnsureShelf, At, Moving
  <2>2. worker' = [worker EXCEPT !.pc = "add"] \/ worker' = [worker EXCEPT !.pc = "done", !.res = "blocked"]
    BY DEF EnsureShelf, GoTo, Ends
  <2>. QED BY <2>1, <2>2, MovesTyped DEF Moving
<1>4. Spent'
  BY ShelvingAssumption DEF Typed, TypeOK, Running, Spent, Workers, Rows, EnsureShelf, At, GoTo, Ends, Fault
<1>5. recon' \in Recons
  BY ShelvingAssumption DEF Typed, TypeOK, Recons, EnsureShelf, At, GoTo, Ends, Fault
<1>6. TypeOK'
  <2>1. worker.shelf \in Collected
    BY DEF Typed, Running, Moving, EnsureShelf, At
  <2>2. made' \subseteq Collected
    BY <2>1 DEF Typed, TypeOK, EnsureShelf
  <2>3. faults' \in 0..MaxFaults
    BY ShelvingAssumption DEF Typed, TypeOK, EnsureShelf, Fault
  <2>4. UNCHANGED <<shelves, deep, formats, switch, crashes, hands, toggles>>
    BY DEF EnsureShelf
  <2>. QED BY <1>1, <1>2, <1>5, <2>2, <2>3, <2>4 DEF Typed, TypeOK
<1>. QED BY <1>2, <1>4, <1>6 DEF Typed

LEMMA AddTyped == Typed /\ (AddFirst \/ AddBack) => Typed'
<1>. SUFFICES ASSUME Typed, (AddFirst \/ AddBack) PROVE Typed'
  OBVIOUS
<1>. DEFINE after == IF worker.shelf \in made THEN shelves \cup {worker.shelf} ELSE shelves
<1>0. after \in SUBSET (Collected \cup Exclusive)
  BY DEF Typed, TypeOK, Running, Moving, AddFirst, AddBack, At
<1>1. row' \in Rows /\ (row'.status = "ok" => row'.artifact \in Collected)
  BY ShelvingAssumption DEF Typed, TypeOK, Running, Spent, Rows, Workers, AddFirst, AddBack, Add, At, Raises, Ends, Fault
<1>2. worker' \in Workers /\ Running'
  <2>1. worker.pc \in Moving /\ row' = row
    BY DEF AddFirst, AddBack, At, Moving
  <2>2. \/ \E next \in {"confirm", "reconfirm"} :
             worker' = [worker EXCEPT !.pc = next, !.seen = after]
        \/ \E next \in {"confirm", "reconfirm"} :
             worker' = [worker EXCEPT !.pc = next, !.seen = {}]
        \/ \E res \in {"failed", "blocked"} : worker' = [worker EXCEPT !.pc = "done", !.res = res]
    BY DEF AddFirst, AddBack, Add, Raises, Ends
  <2>. HIDE DEF after
  <2>3. {"confirm", "reconfirm"} \subseteq Moving /\ {} \in SUBSET (Collected \cup Exclusive)
    BY DEF Moving
  <2>. QED BY <1>0, <2>1, <2>2, <2>3, MovesTyped
<1>4. Spent'
  BY ShelvingAssumption DEF Typed, TypeOK, Running, Spent, Workers, Rows, AddFirst, AddBack, Add, At, Raises, Ends, Fault
<1>5. recon' \in Recons
  BY ShelvingAssumption DEF Typed, TypeOK, Recons, AddFirst, AddBack, Add, At, Raises, Ends, Fault
<1>6. TypeOK'
  BY <1>1, <1>2, <1>5, ShelvingAssumption DEF Typed, TypeOK, AddFirst, AddBack, Add, At, Raises, Ends, Fault
<1>. QED BY <1>2, <1>4, <1>6 DEF Typed

LEMMA ConfirmTyped == Typed /\ (Confirm \/ ConfirmBack) => Typed'
<1>. SUFFICES ASSUME Typed, (Confirm \/ ConfirmBack) PROVE Typed'
  OBVIOUS
<1>1. row' \in Rows /\ (row'.status = "ok" => row'.artifact \in Collected)
  BY ShelvingAssumption DEF Typed, TypeOK, Running, Spent, Rows, Workers, Confirm, ConfirmBack, Decide, At, GoTo, Raises, Ends, Fault, goodreads
<1>2. worker' \in Workers /\ Running'
  <2>1. worker.pc \in Moving /\ row' = row
    BY DEF Confirm, ConfirmBack, At, Moving
  <2>2. \/ worker' = [worker EXCEPT !.pc = "destroy"]
        \/ \E res \in {"ok", "failed", "blocked"} :
             worker' = [worker EXCEPT !.pc = "done", !.res = res]
    BY DEF Confirm, ConfirmBack, Decide, GoTo, Raises, Ends
  <2>. QED BY <2>1, <2>2, MovesTyped DEF Moving
<1>4. Spent'
  BY ShelvingAssumption DEF Typed, TypeOK, Running, Spent, Workers, Rows, Confirm, ConfirmBack, Decide, At, GoTo, Raises, Ends, Fault, goodreads
<1>5. recon' \in Recons
  BY ShelvingAssumption DEF Typed, TypeOK, Recons, Confirm, ConfirmBack, Decide, At, GoTo, Raises, Ends, Fault, goodreads
<1>6. TypeOK'
  BY <1>1, <1>2, <1>5, ShelvingAssumption DEF Typed, TypeOK, Confirm, ConfirmBack, Decide, At, GoTo, Raises, Ends, Fault, goodreads
<1>. QED BY <1>2, <1>4, <1>6 DEF Typed

LEMMA DestroyTyped == Typed /\ Destroy => Typed'
<1>. SUFFICES ASSUME Typed, Destroy PROVE Typed'
  OBVIOUS
<1>1. row' \in Rows /\ (row'.status = "ok" => row'.artifact \in Collected)
  BY ShelvingAssumption DEF Typed, TypeOK, Running, Spent, Rows, Workers, Destroy, At, GoTo, Raises, Ends, Fault
<1>2. worker' \in Workers /\ Running'
  <2>1. worker.pc \in Moving /\ row' = row
    BY DEF Destroy, At, Moving
  <2>2. \/ worker' = [worker EXCEPT !.pc = "again"]
        \/ \E res \in {"failed", "blocked"} :
             worker' = [worker EXCEPT !.pc = "done", !.res = res]
    BY DEF Destroy, GoTo, Raises, Ends
  <2>. QED BY <2>1, <2>2, MovesTyped DEF Moving
<1>4. Spent'
  BY ShelvingAssumption DEF Typed, TypeOK, Running, Spent, Workers, Rows, Destroy, At, GoTo, Raises, Ends, Fault
<1>5. recon' \in Recons
  BY ShelvingAssumption DEF Typed, TypeOK, Recons, Destroy, At, GoTo, Raises, Ends, Fault
<1>6. TypeOK'
  BY <1>1, <1>2, <1>5, ShelvingAssumption DEF Typed, TypeOK, Destroy, At, GoTo, Raises, Ends, Fault
<1>. QED BY <1>2, <1>4, <1>6 DEF Typed

LEMMA MarkTyped == Typed /\ MarkDone => Typed'
<1>. SUFFICES ASSUME Typed, MarkDone PROVE Typed'
  OBVIOUS
<1>1. row' \in Rows /\ (row'.status = "ok" => row'.artifact \in Collected)
  BY ShelvingAssumption DEF Typed, TypeOK, Running, Spent, Rows, Workers, MarkDone, At, Idle, goodreads, bounds
<1>2. worker' \in Workers
  BY ShelvingAssumption DEF Typed, TypeOK, Running, Workers, MarkDone, At, Idle, goodreads, bounds
<1>3. Running'
  BY ShelvingAssumption DEF Typed, TypeOK, Running, Workers, Rows, Moving, MarkDone, At, Idle, goodreads, bounds
<1>4. Spent'
  BY ShelvingAssumption DEF Typed, TypeOK, Running, Spent, Workers, Rows, MarkDone, At, Idle, goodreads, bounds
<1>5. recon' \in Recons
  BY ShelvingAssumption DEF Typed, TypeOK, Recons, MarkDone, At, Idle, goodreads, bounds
<1>6. TypeOK'
  BY <1>1, <1>2, <1>5, ShelvingAssumption DEF Typed, TypeOK, MarkDone, At, Idle, goodreads, bounds
<1>. QED BY <1>3, <1>4, <1>6 DEF Typed

LEMMA RestingTyped == Resting \in Recons
  BY Shelves DEF Resting, Recons

LEMMA ReconTyped == Typed /\ Reconcile => Typed'
<1>. SUFFICES ASSUME Typed, Reconcile PROVE Typed'
  OBVIOUS
<1>1. row' \in Rows /\ (row'.status = "ok" => row'.artifact \in Collected)
  BY ShelvingAssumption, Shelves DEF Typed, TypeOK, Running, Spent, Rows, Workers, Reconcile, ReadRow, ReadShelf, Judge, Resting, NoRow, Fault, goodreads, bounds
<1>2. worker' \in Workers
  BY ShelvingAssumption, Shelves DEF Typed, TypeOK, Running, Workers, Reconcile, ReadRow, ReadShelf, Judge, Resting, NoRow, Fault, goodreads, bounds
<1>3. Running'
  BY ShelvingAssumption, Shelves DEF Typed, TypeOK, Running, Workers, Rows, Moving, Reconcile, ReadRow, ReadShelf, Judge, Resting, NoRow, Fault, goodreads, bounds
<1>4. Spent'
  BY ShelvingAssumption, Shelves DEF Typed, TypeOK, Running, Spent, Workers, Rows, Reconcile, ReadRow, ReadShelf, Judge, Resting, NoRow, Fault, goodreads, bounds
<1>5. recon' \in Recons
  <2>1. recon \in Recons /\ Len(Order) = 4
    BY Shelves DEF Typed, TypeOK
  <2>2. CASE ReadRow
    BY <2>1, <2>2, Shelves DEF Typed, TypeOK, Recons, ReadRow, Resting
  <2>3. CASE ReadShelf
    <3>1. Order[recon.at] \in Range(Order)
      BY <2>1, <2>3, Shelves DEF Recons, ReadShelf
    <3>2. recon.at \in Nat /\ recon.at <= 4
      BY <2>1, <2>3 DEF Recons, ReadShelf
    <3>3. \/ recon' = Resting
          \/ \E on \in {recon.on, recon.on \cup {Order[recon.at]}} :
               recon' = [recon EXCEPT !.at = @ + 1, !.on = on]
      BY <2>3 DEF ReadShelf
    <3>4. Resting \in Recons
      BY RestingTyped
    <3>5. recon.at + 1 \in 1..Len(Order) + 1
      BY <2>1, <3>2
    <3>6. {recon.on, recon.on \cup {Order[recon.at]}} \subseteq SUBSET Range(Order)
      BY <2>1, <3>1 DEF Recons
    <3>7. ASSUME NEW on \in SUBSET Range(Order)
          PROVE  [recon EXCEPT !.at = @ + 1, !.on = on] \in Recons
      BY <2>1, <3>5 DEF Recons
    <3>. QED BY <3>3, <3>4, <3>6, <3>7
  <2>4. CASE Judge
    BY <2>1, <2>4 DEF Judge, Recons, Resting
  <2>. QED BY <2>2, <2>3, <2>4 DEF Reconcile
<1>6. TypeOK'
  BY <1>1, <1>2, <1>5, ShelvingAssumption, Shelves DEF Typed, TypeOK, Reconcile, ReadRow, ReadShelf, Judge, Resting, NoRow, Fault, goodreads, bounds
<1>. QED BY <1>3, <1>4, <1>6 DEF Typed

LEMMA CollectTyped == Typed /\ (\E f \in Format : Collect(f)) => Typed'
<1>. SUFFICES ASSUME Typed, (\E f \in Format : Collect(f)) PROVE Typed'
  OBVIOUS
<1>1. row' \in Rows /\ (row'.status = "ok" => row'.artifact \in Collected)
  BY ShelvingAssumption DEF Typed, TypeOK, Running, Spent, Rows, Workers, Collect, NoRow, goodreads, bounds
<1>2. worker' \in Workers
  BY ShelvingAssumption DEF Typed, TypeOK, Running, Workers, Collect, NoRow, goodreads, bounds
<1>3. Running'
  BY ShelvingAssumption DEF Typed, TypeOK, Running, Workers, Rows, Moving, Collect, NoRow, goodreads, bounds
<1>4. Spent'
  BY ShelvingAssumption DEF Typed, TypeOK, Running, Spent, Workers, Rows, Collect, NoRow, goodreads, bounds
<1>5. recon' \in Recons
  BY ShelvingAssumption DEF Typed, TypeOK, Recons, Collect, NoRow, goodreads, bounds
<1>6. TypeOK'
  BY <1>1, <1>2, <1>5, ShelvingAssumption DEF Typed, TypeOK, Collect, NoRow, goodreads, bounds
<1>. QED BY <1>3, <1>4, <1>6 DEF Typed

LEMMA AroundTyped == Typed /\ (Toggle \/ MoveByHand \/ Crash) => Typed'
<1>. SUFFICES ASSUME Typed, (Toggle \/ MoveByHand \/ Crash) PROVE Typed'
  OBVIOUS
<1>1. row' \in Rows /\ (row'.status = "ok" => row'.artifact \in Collected)
  BY ShelvingAssumption, Shelves DEF Typed, TypeOK, Running, Spent, Rows, Workers, Toggle, MoveByHand, Crash, Idle, Resting, Exclusive, goodreads, bounds
<1>2. worker' \in Workers
  <2>1. worker' = worker \/ worker' = Idle
    BY DEF Toggle, MoveByHand, Crash
  <2>2. Idle \in Workers
    BY DEF Idle, Workers
  <2>. QED BY <2>1, <2>2 DEF Typed, TypeOK
<1>3. Running'
  BY ShelvingAssumption, Shelves DEF Typed, TypeOK, Running, Workers, Rows, Moving, Toggle, MoveByHand, Crash, Idle, Resting, Exclusive, goodreads, bounds
<1>4. Spent'
  BY ShelvingAssumption, Shelves DEF Typed, TypeOK, Running, Spent, Workers, Rows, Toggle, MoveByHand, Crash, Idle, Resting, Exclusive, goodreads, bounds
<1>5. recon' \in Recons
  BY ShelvingAssumption, Shelves DEF Typed, TypeOK, Recons, Toggle, MoveByHand, Crash, Idle, Resting, Exclusive, goodreads, bounds
<1>6. TypeOK'
  <2>1. shelves' \subseteq Collected \cup Exclusive
    BY DEF Typed, TypeOK, Toggle, MoveByHand, Crash, Exclusive, goodreads
  <2>2. /\ made' \subseteq Collected /\ deep' \subseteq Range(Order)
        /\ formats' \subseteq Format
    BY DEF Typed, TypeOK, Toggle, MoveByHand, Crash, goodreads
  <2>3. switch' \in [book : BOOLEAN, all : BOOLEAN]
    <3>1. \/ switch' = switch
          \/ switch' = [switch EXCEPT !.book = ~@] \/ switch' = [switch EXCEPT !.all = ~@]
      BY DEF Toggle, MoveByHand, Crash
    <3>. QED BY <3>1 DEF Typed, TypeOK
  <2>4. /\ faults' \in 0..MaxFaults /\ crashes' \in 0..MaxCrash
        /\ hands' \in 0..MaxHands /\ toggles' \in 0..MaxToggles
    BY ShelvingAssumption DEF Typed, TypeOK, Toggle, MoveByHand, Crash
  <2>. QED BY <1>1, <1>2, <1>5, <2>1, <2>2, <2>3, <2>4 DEF TypeOK
<1>. QED BY <1>3, <1>4, <1>6 DEF Typed

LEMMA StepTyped == Typed /\ [Next]_vars => Typed'
<1>. SUFFICES ASSUME Typed, [Next]_vars PROVE Typed'
  OBVIOUS
<1>1. CASE Run
  BY <1>1, StartTyped, ChooseTyped, EnsureTyped, AddTyped, ConfirmTyped, DestroyTyped, MarkTyped
  DEF Run
<1>2. CASE Reconcile
  BY <1>2, ReconTyped
<1>3. CASE \E f \in Format : Collect(f)
  BY <1>3, CollectTyped
<1>4. CASE Toggle \/ MoveByHand \/ Crash
  BY <1>4, AroundTyped
<1>5. CASE UNCHANGED vars
  BY <1>5 DEF Typed, TypeOK, Running, Spent, vars, goodreads, bounds
<1>. QED BY <1>1, <1>2, <1>3, <1>4, <1>5 DEF Next

(* The type invariant, for every number of attempts, faults and restarts.    *)
THEOREM TypeCorrect == Spec => []TypeOK
<1>1. Spec => []Typed
  BY InitTyped, StepTyped, PTL DEF Spec
<1>2. Typed => TypeOK
  BY DEF Typed
<1>. QED BY <1>1, <1>2, PTL

-----------------------------------------------------------------------------
(* The record.  What Goodreads answered is true until it is used, since only *)
(* the run itself and the reader change the shelves; a run ends well on a    *)
(* shelf it has seen the book on; and no run is at a book that is shelved.   *)

Seen ==
  /\ row.status = "ok" => worker.pc = "idle"
  /\ hands = 0 =>
       /\ worker.pc \in {"confirm", "reconfirm"} => worker.seen \subseteq shelves
       /\ worker.pc = "done" /\ worker.res = "ok" => worker.shelf \in shelves
       /\ row.status = "ok" => row.artifact \in shelves

LEMMA InitSeen == Init => Seen
  BY DEF Init, Seen, NoRow, Idle

LEMMA StepSeen == Typed /\ Seen /\ [Next]_vars => Seen'
<1>. SUFFICES ASSUME Typed, Seen, [Next]_vars PROVE Seen'
  OBVIOUS
<1>. USE DEF Seen, goodreads, bounds, At, GoTo, Ends, Raises, Fault
<1>0. worker \in Workers /\ row \in Rows /\ hands \in Nat
  BY ShelvingAssumption DEF Typed, TypeOK
<1>1. CASE Start
  BY <1>0, <1>1 DEF Start, Idle, Workers, Rows
<1>2. CASE Choose
  BY <1>0, <1>2 DEF Choose, Workers
<1>3. CASE EnsureShelf
  BY <1>0, <1>3 DEF EnsureShelf, Workers
<1>4. CASE AddFirst
  BY <1>0, <1>4 DEF AddFirst, Add, Workers
<1>5. CASE Confirm
  BY <1>0, <1>5 DEF Confirm, Decide, Confirmed, OnNewestPage, Workers
<1>6. CASE Destroy
  BY <1>0, <1>6 DEF Destroy, Workers
<1>7. CASE AddBack
  BY <1>0, <1>7 DEF AddBack, Add, Workers
<1>8. CASE ConfirmBack
  BY <1>0, <1>8 DEF ConfirmBack, Confirmed, OnNewestPage, Workers
<1>9. CASE MarkDone
  BY <1>0, <1>9 DEF MarkDone, Idle, Workers, Rows
<1>10. CASE Reconcile
  BY <1>0, <1>10 DEF Reconcile, ReadRow, ReadShelf, Judge, NoRow
<1>11. CASE \E f \in Format : Collect(f)
  BY <1>0, <1>11 DEF Collect, NoRow, Idle
<1>12. CASE Toggle
  BY <1>0, <1>12 DEF Toggle
<1>13. CASE MoveByHand
  BY <1>0, <1>13 DEF MoveByHand
<1>14. CASE Crash
  BY <1>0, <1>14 DEF Crash, Idle
<1>15. CASE UNCHANGED vars
  BY <1>15 DEF vars
<1>. QED
  BY <1>1, <1>2, <1>3, <1>4, <1>5, <1>6, <1>7, <1>8, <1>9, <1>10, <1>11, <1>12, <1>13, <1>14,
     <1>15 DEF Next, Run

(* A book that is recorded as shelved is on that shelf, whatever requests    *)
(* failed and wherever the process stopped, unless the reader moved it.      *)
THEOREM RecordHolds == Spec => []RecordIsTrue
<1>1. Spec => [](Typed /\ Seen)
  BY InitTyped, StepTyped, InitSeen, StepSeen, PTL DEF Spec
<1>2. Seen => RecordIsTrue
  BY DEF Seen, RecordIsTrue
<1>. QED BY <1>1, <1>2, PTL

-----------------------------------------------------------------------------
(* Where the book is.  Only between destroying the review and adding it      *)
(* again is it on no shelf, and the shelf it is added to exists.             *)

Somewhere ==
  faults = 0 /\ crashes = 0 /\ hands = 0 =>
    /\ worker.pc # "again" => shelves # {}
    /\ worker.pc \in {"add", "confirm", "destroy", "again"} => worker.shelf \in made

LEMMA InitSomewhere == Init => Somewhere
  BY DEF Init, Somewhere, Idle

LEMMA StepSomewhere == Typed /\ Somewhere /\ [Next]_vars => Somewhere'
<1>. SUFFICES ASSUME Typed, Somewhere, [Next]_vars PROVE Somewhere'
  OBVIOUS
<1>. USE DEF Somewhere, goodreads, bounds, At, GoTo, Ends, Raises, Fault
<1>0. worker \in Workers /\ hands \in Nat /\ faults \in Nat /\ crashes \in Nat
  BY ShelvingAssumption DEF Typed, TypeOK
<1>1. CASE Start
  BY <1>0, <1>1 DEF Start, Idle, Workers
<1>2. CASE Choose
  BY <1>0, <1>2 DEF Choose, Workers
<1>3. CASE EnsureShelf
  BY <1>0, <1>3 DEF EnsureShelf, Workers
<1>4. CASE AddFirst
  <2>1. CASE faults' = faults /\ worker' = [worker EXCEPT !.pc = "confirm", !.seen = shelves']
    <3>1. shelves' = IF worker.shelf \in made THEN shelves \cup {worker.shelf} ELSE shelves
      BY <1>0, <1>4, <2>1 DEF AddFirst, Add
    <3>2. crashes' = crashes /\ hands' = hands /\ made' = made /\ worker.pc # "idle"
      BY <1>4 DEF AddFirst
    <3>3. worker'.pc = "confirm" /\ worker'.shelf = worker.shelf
      BY <1>0, <2>1 DEF Workers
    <3>. QED BY <1>4, <2>1, <3>1, <3>2, <3>3 DEF AddFirst
  <2>2. CASE faults' = faults + 1
    BY <1>0, <2>2
  <2>. QED BY <1>0, <1>4, <2>1, <2>2 DEF AddFirst, Add
<1>5. CASE Confirm
  <2>1. /\ shelves' = shelves /\ made' = made /\ crashes' = crashes /\ hands' = hands
        /\ faults' = faults \/ faults' = faults + 1
    BY <1>5 DEF Confirm, Decide
  <2>2. worker.pc # "again" /\ worker'.pc \in {"destroy", "done"} /\ worker'.shelf = worker.shelf
    BY <1>0, <1>5 DEF Confirm, Decide, Workers
  <2>3. worker'.pc = "destroy" => worker.pc = "confirm"
    BY <1>0, <1>5 DEF Confirm, Decide, Workers
  <2>. QED BY <1>0, <2>1, <2>2, <2>3
<1>6. CASE Destroy
  BY <1>0, <1>6 DEF Destroy, Workers
<1>7. CASE AddBack
  <2>1. CASE faults' = faults /\ worker' = [worker EXCEPT !.pc = "reconfirm", !.seen = shelves']
    <3>1. shelves' = IF worker.shelf \in made THEN shelves \cup {worker.shelf} ELSE shelves
      BY <1>0, <1>7, <2>1 DEF AddBack, Add
    <3>2. crashes' = crashes /\ hands' = hands /\ made' = made /\ worker.pc # "idle"
      BY <1>7 DEF AddBack
    <3>3. worker'.pc = "reconfirm" /\ worker'.shelf = worker.shelf
      BY <1>0, <2>1 DEF Workers
    <3>. QED BY <1>7, <2>1, <3>1, <3>2, <3>3 DEF AddBack
  <2>2. CASE faults' = faults + 1
    BY <1>0, <2>2
  <2>. QED BY <1>0, <1>7, <2>1, <2>2 DEF AddBack, Add
<1>8. CASE ConfirmBack
  <2>1. /\ shelves' = shelves /\ made' = made /\ crashes' = crashes /\ hands' = hands
        /\ faults' = faults \/ faults' = faults + 1
    BY <1>8 DEF ConfirmBack
  <2>2. worker.pc # "again" /\ worker'.pc \in {"destroy", "done"} /\ worker'.shelf = worker.shelf
    BY <1>0, <1>8 DEF ConfirmBack, Workers
  <2>3. worker'.pc = "destroy" => worker.pc = "confirm"
    BY <1>0, <1>8 DEF ConfirmBack, Workers
  <2>. QED BY <1>0, <2>1, <2>2, <2>3
<1>9. CASE MarkDone
  BY <1>0, <1>9 DEF MarkDone, Idle, Workers
<1>10. CASE Reconcile
  BY <1>0, <1>10 DEF Reconcile, ReadRow, ReadShelf, Judge
<1>11. CASE \E f \in Format : Collect(f)
  BY <1>0, <1>11 DEF Collect
<1>12. CASE Toggle \/ MoveByHand \/ Crash
  BY <1>0, <1>12 DEF Toggle, MoveByHand, Crash
<1>13. CASE UNCHANGED vars
  BY <1>13 DEF vars
<1>. QED
  BY <1>1, <1>2, <1>3, <1>4, <1>5, <1>6, <1>7, <1>8, <1>9, <1>10, <1>11, <1>12, <1>13
  DEF Next, Run

(* A run in which nothing fails leaves the book on some shelf: it does not   *)
(* drop out of the account.                                                  *)
THEOREM StaysOnAShelf == Spec => []NeverDropped
<1>1. Spec => [](Typed /\ Somewhere)
  BY InitTyped, StepTyped, InitSomewhere, StepSomewhere, PTL DEF Spec
<1>2. Somewhere => NeverDropped
  BY DEF Somewhere, NeverDropped, Idle
<1>. QED BY <1>1, <1>2, PTL

-----------------------------------------------------------------------------
(* What the stage is to the others.  Whatever becomes of its requests, a row  *)
(* changes its status with the start, the end and the reset of the stage.    *)

LEMMA InitContract == Init => Contract!Init
<1>. SUFFICES ASSUME Init PROVE Contract!Init
  OBVIOUS
<1>1. Fate = "open" /\ worker.pc = "idle"
  BY DEF Init, Fate, Parked, Idle, NoRow
<1>. QED BY <1>1 DEF Contract!Init

(* A step of a run, or of others, that leaves the status of the row.          *)
LEMMA SameToOthers ==
  ASSUME row'.status = row.status, row'.attempts = row.attempts,
         worker'.pc = "idle" <=> worker.pc = "idle"
  PROVE  UNCHANGED Contract!vars
<1>1. Fate' = Fate
  BY DEF Fate, Parked
<1>. QED BY <1>1 DEF Contract!vars

LEMMA EndToOthers ==
  ASSUME worker.pc # "idle", worker'.pc = "idle"
  PROVE  Contract!Next
<1>1. Fate' \in {"open", "finished", "parked"}
  BY DEF Fate
<1>2. Contract!End("shelve")
  BY <1>1 DEF Contract!End
<1>. QED BY <1>2 DEF Contract!Next

LEMMA ResetToOthers ==
  ASSUME Fate' = "open", worker'.pc = "idle" <=> worker.pc = "idle"
  PROVE  Contract!Next
<1>1. Contract!Reset({"shelve"})
  BY DEF Contract!Reset
<1>. QED BY <1>1 DEF Contract!Next

LEMMA StepContract == Typed /\ [Next]_vars => [Contract!Next]_(Contract!vars)
<1>. SUFFICES ASSUME Typed, [Next]_vars PROVE [Contract!Next]_(Contract!vars)
  OBVIOUS
<1>1. row \in Rows /\ worker \in Workers /\ (worker.pc = "idle" => worker = Idle)
  BY DEF Typed, TypeOK, Running
<1>2. Idle.pc = "idle"
  BY DEF Idle
<1>3. CASE Start
  <2>1. /\ worker.pc = "idle" /\ Fate = "open"
        /\ row'.status = "running" /\ worker'.pc # "idle"
    BY <1>1, <1>2, <1>3 DEF Start, Fate, Rows, Idle
  <2>2. Fate' = "open"
    BY <2>1 DEF Fate, Parked
  <2>3. Contract!Begin("shelve")
    BY <2>1, <2>2 DEF Contract!Begin
  <2>. QED BY <2>3 DEF Contract!Next
<1>4. CASE Choose \/ EnsureShelf \/ Confirm \/ Destroy \/ ConfirmBack
  <2>1. worker.pc # "idle" /\ row' = row
    BY <1>4 DEF Choose, EnsureShelf, Confirm, Destroy, ConfirmBack, At
  <2>2. worker'.pc # "idle"
    BY <1>1, <1>4
    DEF Choose, EnsureShelf, Confirm, Decide, Destroy, ConfirmBack, Ends, GoTo, Raises, Workers
  <2>. QED BY <2>1, <2>2, SameToOthers
<1>5. CASE AddFirst \/ AddBack
  <2>1. worker.pc # "idle" /\ row' = row
    BY <1>5 DEF AddFirst, AddBack, At
  <2>2. worker'.pc # "idle"
    BY <1>1, <1>5 DEF AddFirst, AddBack, Add, Raises, Ends, Workers
  <2>. QED BY <2>1, <2>2, SameToOthers
<1>6. CASE MarkDone
  BY <1>2, <1>6, EndToOthers DEF MarkDone, At
<1>7. CASE ReadRow \/ ReadShelf \/ Toggle \/ MoveByHand \/ UNCHANGED vars
  BY <1>7, SameToOthers DEF ReadRow, ReadShelf, Toggle, MoveByHand, vars
<1>8. ASSUME row' = NoRow, worker' = worker PROVE Contract!Next
  <2>1. Fate' = "open"
    BY <1>8 DEF Fate, Parked, NoRow
  <2>. QED BY <1>8, <2>1, ResetToOthers
<1>9. CASE Judge
  <2>1. worker' = worker /\ (row' = NoRow \/ row' = row)
    BY <1>9 DEF Judge
  <2>. QED BY <1>8, <2>1, SameToOthers
<1>10. CASE \E f \in Format : Collect(f)
  BY <1>8, <1>10 DEF Collect
<1>11. CASE Crash
  <2>1. worker'.pc = "idle" /\ row' = row
    BY <1>2, <1>11 DEF Crash
  <2>. QED BY <2>1, EndToOthers, SameToOthers
<1>. QED BY <1>3, <1>4, <1>5, <1>6, <1>7, <1>9, <1>10, <1>11 DEF Next, Run, Reconcile

(* To the other stages this one is what StageRows says, whatever requests     *)
(* fail and whatever the reconciliation resets: its row is finished or parked *)
(* by the end of its own run only.                                           *)
THEOREM ContractKept == Spec => KeepsContract
  BY InitTyped, StepTyped, InitContract, StepContract, PTL
  DEF Spec, KeepsContract, Contract!Spec

=============================================================================
