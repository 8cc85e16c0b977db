----------------------------- MODULE PipelineProofs -----------------------------
(***************************************************************************)
(* Proofs about Pipeline, for any set of categories and any budget of      *)
(* attempts, rescans, restarts and interventions: type correctness, and,   *)
(* for sweeps that leave no worker behind, that what verify and shelve     *)
(* concluded stands only while it is true.                                 *)
(***************************************************************************)
EXTENDS Pipeline, TLAPS

(* A book that has a category keeps one, and nobody has seen one that the     *)
(* book has not had.                                                         *)
SeenCategories ==
  category = Unclassified =>
    worker.cat = Unclassified /\ \A l \in listing : l.cat = Unclassified

TypeInv == TypeOK /\ SeenCategories

RowsTyped ==
  /\ row \in Rows /\ placed \in SUBSET Format /\ rescans \in 0 .. MaxRescans
  /\ fresh \in BOOLEAN

-----------------------------------------------------------------------------
(* Stages and rows.                                                        *)

LEMMA Ranks ==
  /\ Stage = {"classify", "acquire_ebook", "acquire_audiobook", "place", "index",
              "notebook", "verify", "shelve"}
  /\ \A s \in Stage : Rank[s] \in 1 .. 8
  /\ \A f \in Format : AcquireStage[f] \in Stage
  BY DEF Stage, Rank, Format, AcquireStage

(* Of some of the ranks there is a least, or the end if there is none.        *)
LEMMA LeastRank ==
  ASSUME NEW ahead \in SUBSET (1 .. 8)
  PROVE  \E i \in ahead \cup {End} : \A j \in ahead : i <= j
<1>1. CASE 1 \in ahead
  BY <1>1
<1>2. CASE 1 \notin ahead /\ 2 \in ahead
  BY <1>2
<1>3. CASE 1 \notin ahead /\ 2 \notin ahead /\ 3 \in ahead
  BY <1>3
<1>4. CASE 1 \notin ahead /\ 2 \notin ahead /\ 3 \notin ahead /\ 4 \in ahead
  BY <1>4
<1>5. CASE ahead \subseteq 5 .. 8 /\ 5 \in ahead
  BY <1>5
<1>6. CASE ahead \subseteq 6 .. 8 /\ 6 \in ahead
  BY <1>6
<1>7. CASE ahead \subseteq 7 .. 8 /\ 7 \in ahead
  BY <1>7
<1>8. CASE ahead \subseteq {8}
  BY <1>8 DEF End
<1> QED
  BY <1>1, <1>2, <1>3, <1>4, <1>5, <1>6, <1>7, <1>8

(* The next stop is the first of the stages ahead, or the end.               *)
LEMMA NextStopType == ASSUME NEW view, NEW from PROVE NextStop(view, from) \in 1 .. End
<1> DEFINE ahead == {Rank[s] : s \in {t \in Stage : Rank[t] >= from /\ Stops(view, t)}}
<1>1. ahead \subseteq 1 .. 8
  BY Ranks
<1>2. NextStop(view, from) = CHOOSE i \in ahead \cup {End} : \A j \in ahead : i <= j
  BY DEF NextStop
<1> HIDE DEF ahead
<1>3. \E i \in ahead \cup {End} : \A j \in ahead : i <= j
  BY <1>1, LeastRank
<1>4. NextStop(view, from) \in ahead \cup {End}
  BY <1>2, <1>3
<1>5. 1 .. 8 \subseteq 1 .. End /\ End \in 1 .. End
  BY DEF End
<1> QED
  BY <1>1, <1>4, <1>5

LEMMA FreshTyped ==
  /\ Fresh \in [status : Statuses, attempts : Nat] /\ Fresh.attempts = 0
  /\ [s \in Stage |-> Fresh] \in Rows
<1>1. Fresh \in [status : Statuses, attempts : Nat] /\ Fresh.attempts = 0
  BY DEF Fresh, Statuses
<1>2. \A s \in Stage : Fresh.attempts \in 0 .. MaxAttempts[s] + 1
  BY <1>1, BudgetAssumption
<1> QED
  BY <1>1, <1>2 DEF Rows

(* One row of a book changes.                                                *)
LEMMA RowWritten ==
  ASSUME NEW rows \in Rows, NEW s \in Stage, NEW status \in Statuses,
         NEW n \in 0 .. MaxAttempts[s] + 1
  PROVE  [rows EXCEPT ![s] = [status |-> status, attempts |-> n]] \in Rows
<1>1. [status |-> status, attempts |-> n] \in [status : Statuses, attempts : Nat]
  BY BudgetAssumption
<1> QED
  BY <1>1 DEF Rows

LEMMA ResetTyped ==
  ASSUME NEW rows \in Rows, NEW s \in Stage, RowsTyped, ResetStage(rows, s)
  PROVE  RowsTyped'
<1>1. row' \in Rows
  <2>1. \A t \in Stage : row'[t] = Fresh \/ row'[t] = rows[t]
    BY DEF ResetStage
  <2> QED
    BY <2>1, FreshTyped, BudgetAssumption DEF ResetStage, Rows
<1> QED
  BY <1>1, BudgetAssumption DEF ResetStage, RowsTyped

-----------------------------------------------------------------------------
(* The worker's own writes.                                                *)

(* The worker with another place in the loop and another view.               *)
LEMMA WorkerMoves ==
  ASSUME worker \in Workers
  PROVE  /\ \A res \in Results : Ends(res) => worker' \in Workers /\ worker'.cat = worker.cat
         /\ \A view \in Rows, s \in Stage :
              GoOn(view, s) => worker' \in Workers /\ worker'.cat = worker.cat
         /\ \A p \in Phases : LET w == [worker EXCEPT !.pc = p] IN
              w \in Workers /\ w.cat = worker.cat
         /\ \A view \in Rows, i \in 1 .. End :
              LET w == [worker EXCEPT !.view = view, !.at = i] IN
              w \in Workers /\ w.cat = worker.cat
<1>1. ASSUME NEW res \in Results, Ends(res)
      PROVE  worker' \in Workers /\ worker'.cat = worker.cat
  BY <1>1 DEF Ends, Workers, Phases
<1>2. ASSUME NEW view \in Rows, NEW s \in Stage, GoOn(view, s)
      PROVE  worker' \in Workers /\ worker'.cat = worker.cat
  <2>1. NextStop(view, Rank[s] + 1) \in 1 .. End
    BY NextStopType
  <2> QED
    BY <1>2, <2>1 DEF GoOn, Workers, Phases, Results
<1>3. ASSUME NEW p \in Phases
      PROVE  LET w == [worker EXCEPT !.pc = p] IN w \in Workers /\ w.cat = worker.cat
  BY DEF Workers
<1>4. ASSUME NEW view \in Rows, NEW i \in 1 .. End
      PROVE  LET w == [worker EXCEPT !.view = view, !.at = i] IN
             w \in Workers /\ w.cat = worker.cat
  BY DEF Workers
<1> QED
  BY <1>1, <1>2, <1>3, <1>4

LEMMA IdleTyped == Idle \in Workers /\ Idle.cat = Unclassified
  BY FreshTyped DEF Idle, Workers, Phases, Categories, End, Results

(* What the loop does between runs and what it writes of them.               *)
LEMMA LoopTypes ==
  ASSUME TypeInv,
         \/ Leave \/ PlaceAgain
         \/ \E s \in Stage : Refuse(s) \/ MarkRunning(s) \/ MarkDone(s)
         \/ \E f \in Format : Wake(f)
  PROVE  RowsTyped' /\ worker' \in Workers /\ worker'.cat \in {worker.cat, Unclassified}
<1>1. /\ RowsTyped /\ row \in Rows /\ worker \in Workers /\ worker.view \in Rows
      /\ worker.res \in Results
  BY DEF TypeInv, TypeOK, RowsTyped, Workers
<1>2. CASE Leave
  BY <1>1, <1>2, IdleTyped DEF Leave, RowsTyped, stages
<1>3. ASSUME NEW s \in Stage, row' \in Rows PROVE Refreshed(s) \in Rows
  BY <1>1, <1>3 DEF Refreshed, Rows
<1>4. CASE PlaceAgain
  <2>0. "place" \in Stage
    BY Ranks
  <2>1. CASE FormatWaiting
    <3>1. RowsTyped'
      BY <1>1, <1>4, <2>0, <2>1, ResetTyped DEF PlaceAgain
    <3>2. Refreshed("place") \in Rows
      BY <1>3, <2>0, <3>1 DEF RowsTyped
    <3>3. NextStop(Refreshed("place"), Rank.place) \in 1 .. End
      BY NextStopType
    <3> QED
      BY <1>1, <1>4, <2>1, <3>1, <3>2, <3>3, WorkerMoves DEF PlaceAgain
  <2>2. CASE ~FormatWaiting
    BY <1>1, <1>4, <2>0, <2>2, WorkerMoves DEF PlaceAgain, RowsTyped, stages
  <2> QED
    BY <2>1, <2>2
<1>5. ASSUME NEW s \in Stage, Refuse(s)
      PROVE  RowsTyped' /\ worker' \in Workers /\ worker'.cat = worker.cat
  <2>0. "blocked" \in Statuses /\ 0 \in 0 .. MaxAttempts[s] + 1
    BY BudgetAssumption DEF Statuses
  <2>1. row' \in Rows
    BY <1>1, <1>5, <2>0, RowWritten DEF Refuse
  <2> QED
    BY <1>1, <1>3, <1>5, <2>1, WorkerMoves DEF Refuse, RowsTyped
<1>6. ASSUME NEW s \in Stage, MarkRunning(s)
      PROVE  RowsTyped' /\ worker' \in Workers /\ worker'.cat = worker.cat
  <2>1. (IF row[s].attempts > MaxAttempts[s] THEN row[s].attempts ELSE row[s].attempts + 1)
          \in 0 .. MaxAttempts[s] + 1
    BY <1>1, BudgetAssumption DEF Rows
  <2>2. row' \in Rows
    BY <1>1, <1>6, <2>1, RowWritten DEF MarkRunning, Statuses
  <2> QED
    BY <1>1, <1>6, <2>2, WorkerMoves DEF MarkRunning, RowsTyped, Phases
<1>7. ASSUME NEW s \in Stage, MarkDone(s)
      PROVE  RowsTyped' /\ worker' \in Workers /\ worker'.cat = worker.cat
  <2>1. (IF worker.res = "blocked" /\ row[s].attempts > 0 THEN row[s].attempts - 1
         ELSE IF row[s].attempts > MaxAttempts[s] THEN MaxAttempts[s]
         ELSE row[s].attempts) \in 0 .. MaxAttempts[s] + 1
    BY <1>1, BudgetAssumption DEF Rows
  <2>2. (IF worker.res = "forgiven" THEN "blocked" ELSE worker.res) \in Statuses
    BY <1>1 DEF Results, Statuses
  <2>3. row' \in Rows
    BY <1>1, <1>7, <2>1, <2>2, RowWritten DEF MarkDone
  <2> QED
    BY <1>1, <1>3, <1>7, <2>3, WorkerMoves DEF MarkDone, RowsTyped, Phases
<1>8. ASSUME NEW f \in Format, Wake(f)
      PROVE  RowsTyped' /\ worker' \in Workers /\ worker'.cat = worker.cat
  <2> DEFINE s == AcquireStage[f]
             stale == IF f \in placed THEN {}
                      ELSE IF Satisfied(row.place) THEN {"place"}
                      ELSE IF f = "audiobook" /\ Satisfied(row.shelve) THEN {"shelve"} ELSE {}
             view == [t \in Stage |-> IF t \in stale \cup {s} THEN row'[t] ELSE worker.view[t]]
  <2>1. s \in Stage /\ stale \subseteq Stage
    BY Ranks
  <2>2. RowsTyped'
    <3>1. CASE UNCHANGED stages
      BY <1>1, <3>1 DEF RowsTyped, stages
    <3>2. ASSUME NEW t \in stale, ResetStage(row, t) PROVE RowsTyped'
      BY <1>1, <2>1, <3>2, ResetTyped
    <3> QED
      BY <1>8, <3>1, <3>2 DEF Wake
  <2>3. view \in Rows
    BY <1>1, <2>2 DEF Rows, RowsTyped
  <2>4. GoOn(view, s)
    BY <1>8 DEF Wake
  <2> HIDE DEF s, view, stale
  <2> QED
    BY <1>1, <2>1, <2>2, <2>3, <2>4, WorkerMoves
<1> QED
  BY <1>2, <1>4, <1>5, <1>6, <1>7, <1>8

-----------------------------------------------------------------------------
(* What the runners write, beside the rows, to the book and the world.       *)

(* A worker that is only told its result, and a book that has its category.  *)
LEMMA RunnerTypes ==
  ASSUME TypeInv, Runner
  PROVE  /\ RowsTyped' /\ worker' \in Workers /\ worker'.cat = worker.cat
         /\ shelf' \in SUBSET Format /\ proof' \in SUBSET Format
         /\ category' \in Categories /\ review' \in BOOLEAN
         /\ category' = Unclassified => category = Unclassified
         /\ file' \in [Format -> SUBSET Places]
<1> DEFINE Told == worker' \in Workers /\ worker'.cat = worker.cat
<1>1. /\ RowsTyped /\ worker \in Workers /\ category \in Categories /\ review \in BOOLEAN
      /\ file \in [Format -> SUBSET Places]
      /\ shelf \in SUBSET Format /\ proof \in SUBSET Format
      /\ worker.cat \in Categories
      /\ category = Unclassified => worker.cat = Unclassified
  BY DEF TypeInv, TypeOK, SeenCategories, RowsTyped, Workers
<1>2. ASSUME NEW res \in Results, Ends(res) PROVE Told
  BY <1>1, <1>2, WorkerMoves
<1>3. Category \subseteq Categories /\ Unclassified \notin Category
  BY CategoryAssumption DEF Categories
<1>4. CASE Classify
  <2>1. Told
    BY <1>2, <1>4 DEF Classify, Fails, Results
  <2>2. category' \in Categories /\ review' \in BOOLEAN
        /\ (category' = Unclassified => category = Unclassified)
    BY <1>1, <1>3, <1>4 DEF Classify, book
  <2> QED
    BY <1>1, <1>4, <2>1, <2>2 DEF Classify, RowsTyped, stages, world
<1>5. ASSUME NEW f \in Format, Acquire(f)
      PROVE  RowsTyped' /\ Told /\ file' \in [Format -> SUBSET Places]
             /\ UNCHANGED <<book, shelf, proof>>
  <2>1. Told
    BY <1>2, <1>5 DEF Acquire, Fails, Results
  <2>2. file' \in [Format -> SUBSET Places]
    BY <1>1, <1>5 DEF Acquire, Places
  <2> QED
    BY <1>1, <1>5, <2>1, <2>2 DEF Acquire, RowsTyped, stages
<1>6. CASE Place
  <2>1. CASE FileAway
    <3>1. /\ worker.cat \in Category /\ category \in Category
          /\ \A f \in Format : Home(f) \in Places
      BY <1>1, <2>1 DEF FileAway, Home, Places, Categories
    <3>2. PICK found \in SUBSET Fileable :
            /\ IF "ebook" \in found THEN Reclassify ELSE UNCHANGED book
            /\ \/ /\ MoveIn(found, TRUE)
                  /\ placed' = IF found = {} THEN placed ELSE found
                  /\ Ends(IF found = {} THEN "blocked" ELSE "ok")
               \/ MoveIn(found, FALSE) /\ Fails /\ UNCHANGED placed
      BY <2>1 DEF FileAway
    <3>3. category' \in Category /\ review' \in BOOLEAN
      BY <1>1, <3>1, <3>2 DEF Reclassify, book
    <3>4. file' \in [Format -> SUBSET Places]
      <4>1. category' \in Places
        BY <3>3 DEF Places
      <4>2. ASSUME NEW settled \in BOOLEAN, MoveIn(found, settled)
            PROVE  file' \in [Format -> SUBSET Places]
        BY <1>1, <3>1, <4>1, <4>2 DEF MoveIn
      <4> QED
        BY <3>2, <4>2
    <3>5. placed' \in SUBSET Format
      BY <1>1, <3>2 DEF Fileable, Filed, RowsTyped
    <3>6. Told
      BY <1>2, <3>2 DEF Fails, Results
    <3> QED
      BY <1>1, <1>3, <1>6, <3>3, <3>4, <3>5, <3>6 DEF Place, RowsTyped
  <2>2. CASE UNCHANGED <<placed, file, book>> /\ \E res \in Results : Ends(res)
    BY <1>1, <1>2, <1>6, <2>2 DEF Place, RowsTyped, book
  <2> QED
    BY <1>6, <2>1, <2>2 DEF Place, Results
<1>7. CASE Index \/ Notebook
  <2>1. Told
    BY <1>2, <1>7 DEF Index, Notebook, Outcome, Results
  <2> QED
    BY <1>1, <1>7, <2>1 DEF Index, Notebook, RowsTyped, stages, book, world
<1>8. CASE Verify
  <2>1. Told
    BY <1>2, <1>8 DEF Verify, Missing, ForceRescan, Results
  <2>2. row' \in Rows /\ rescans' \in 0 .. MaxRescans
    <3>1. [row EXCEPT !.index = Fresh] \in Rows
      BY <1>1, FreshTyped, BudgetAssumption DEF RowsTyped, Rows
    <3>2. rescans < MaxRescans => rescans + 1 \in 0 .. MaxRescans
      BY <1>1, BudgetAssumption DEF RowsTyped
    <3> QED
      BY <1>1, <1>8, <3>1, <3>2 DEF Verify, Missing, ForceRescan, RowsTyped
  <2> QED
    BY <1>1, <1>8, <2>1, <2>2 DEF Verify, RowsTyped, book
<1>9. CASE Shelve
  <2>1. Told
    BY <1>2, <1>9 DEF Shelve, Fails, Results
  <2>2. shelf' \in SUBSET Format
    BY <1>1, <1>9 DEF Shelve, RowsTyped
  <2> QED
    BY <1>1, <1>9, <2>1, <2>2 DEF Shelve, RowsTyped, stages, book
<1> QED
  BY <1>1, <1>4, <1>5, <1>6, <1>7, <1>8, <1>9 DEF Runner, book

-----------------------------------------------------------------------------
(* All steps.                                                              *)

LEMMA TypeStep == TypeInv /\ [Next]_vars => TypeInv'
<1> SUFFICES ASSUME TypeInv, [Next]_vars PROVE TypeInv'
  OBVIOUS
<1>1. /\ RowsTyped /\ worker \in Workers /\ category \in Categories /\ review \in BOOLEAN
      /\ \A l \in listing : l \in [rows : Rows, cat : Categories]
      /\ TypeOK /\ SeenCategories
  BY DEF TypeInv, TypeOK, RowsTyped
<1> USE DEF TypeOK, SeenCategories, RowsTyped
<1>2. CASE UNCHANGED vars
  BY <1>1, <1>2 DEF vars, stages, book, world, around, TypeInv
<1>3. CASE List
  <2>1. [rows |-> row, cat |-> category] \in [rows : Rows, cat : Categories]
    BY <1>1
  <2> QED
    BY <1>1, <1>3, <2>1 DEF List, stages, book, world, around, TypeInv
<1>4. CASE Start
  <2>1. PICK l \in listing :
          worker' = IF worker = Idle
                    THEN [pc |-> "scan", view |-> l.rows, cat |-> l.cat,
                          at |-> NextStop(l.rows, 1), res |-> "ok"]
                    ELSE worker
    BY <1>4 DEF Start
  <2>2. worker' \in Workers /\ worker'.cat \in {worker.cat, l.cat}
    BY <1>1, <2>1, NextStopType DEF Workers, Phases, Results
  <2> QED
    BY <1>1, <1>4, <2>2 DEF Start, stages, book, world, around, TypeInv
<1>5. CASE Advance
  <2>1. CASE Runner
    <3>1. UNCHANGED <<listing, around>>
      BY <2>1 DEF Runner, Classify, Acquire, Place, Index, Notebook, Verify, Shelve
    <3> QED
      BY <1>1, <2>1, <3>1, RunnerTypes DEF around, TypeInv
  <2>2. CASE \/ Leave \/ PlaceAgain
             \/ \E s \in Stage : Refuse(s) \/ MarkRunning(s) \/ MarkDone(s)
             \/ \E f \in Format : Wake(f)
    <3>1. UNCHANGED <<book, world, listing, around>>
      BY <2>2 DEF Leave, PlaceAgain, Refuse, MarkRunning, MarkDone, Wake
    <3> QED
      BY <1>1, <2>2, <3>1, LoopTypes DEF book, world, around, TypeInv
  <2> QED
    BY <1>5, <2>1, <2>2 DEF Advance
<1>6. ASSUME NEW s \in Stage, Retry(s) PROVE TypeInv'
  <2>1. RowsTyped' /\ retries' \in 0 .. MaxRetries
    BY <1>1, <1>6, ResetTyped, BudgetAssumption DEF Retry
  <2> QED
    BY <1>1, <1>6, <2>1 DEF Retry, book, world, TypeInv
<1>7. ASSUME NEW c \in Category, SetCategory(c) PROVE TypeInv'
  <2>1. RowsTyped' /\ moves' \in 0 .. MaxMoves
    BY <1>1, <1>7, Ranks, ResetTyped, BudgetAssumption DEF SetCategory
  <2>2. category' \in Categories /\ category' # Unclassified /\ review' \in BOOLEAN
    BY <1>7, CategoryAssumption DEF SetCategory, Categories
  <2> QED
    BY <1>1, <1>7, <2>1, <2>2 DEF SetCategory, world, TypeInv
<1>8. CASE GraceEnds
  BY <1>1, <1>8 DEF GraceEnds, book, world, around, TypeInv
<1>9. CASE Crash
  BY <1>1, <1>9, IdleTyped, BudgetAssumption DEF Crash, stages, book, world, TypeInv
<1>10. CASE Change
  BY <1>1, <1>10, WeatherAssumption DEF Change, stages, book, world, TypeInv
<1> QED
  BY <1>2, <1>3, <1>4, <1>5, <1>6, <1>7, <1>8, <1>9, <1>10 DEF Next

LEMMA TypeInit == Init => TypeInv
<1> SUFFICES ASSUME Init PROVE TypeInv
  OBVIOUS
<1>1. category \in Categories /\ file \in [Format -> SUBSET Places]
  BY DEF Init, Categories
<1>2. rescans \in 0 .. MaxRescans /\ crashes \in 0 .. MaxCrash
      /\ retries \in 0 .. MaxRetries /\ moves \in 0 .. MaxMoves
  BY BudgetAssumption DEF Init
<1> QED
  BY <1>1, <1>2, FreshTyped, IdleTyped, WeatherAssumption
     DEF Init, TypeInv, TypeOK, SeenCategories

(* Every variable of the pipeline keeps its type: attempts and rescans stay   *)
(* within their budgets, whatever fails, is retried or is set by hand.       *)
THEOREM TypeCorrect == Spec => []TypeOK
<1>1. TypeInv => TypeOK
  BY DEF TypeInv
<1> QED
  BY <1>1, TypeInit, TypeStep, PTL DEF Spec

-----------------------------------------------------------------------------
(* What stands, stands rightly.  The invariant is about a book that nobody   *)
(* but the pipeline touches, in sweeps that leave no worker behind.          *)

Landed == {f \in Format : Acquired(f)}

Busy(s) == worker.pc \in {"run", "done", "wake"} /\ worker.at = Rank[s]

(* The stages whose rows the worker always knows.                            *)
Exact == {"acquire_ebook", "acquire_audiobook", "place"}

(* A sweep lists what the rows still say when it comes to the book.          *)
ListsTheRows == \A l \in listing : worker = Idle /\ l.rows = row

(* The worker's view is the rows, but for what a reset undid behind it.      *)
SeesTheRows ==
  worker.pc # "idle" => \A s \in Stage :
    Busy(s) \/ worker.view[s] = row[s] \/ (s \notin Exact /\ row[s] = Fresh)

(* The loop is at a stage where it may be.                                   *)
StopsThere == worker.pc = "scan" => \A s \in Stage : worker.at = Rank[s] => Stops(worker.view, s)

RowsSayRunning ==
  /\ \A s \in Stage : In("run", s) \/ In("done", s) => row[s].status = "running"
  /\ \A f \in Format : In("wake", AcquireStage[f]) => Acquired(f)

(* Each result rests on the one before it, in the rows ...                   *)
Standing ==
  /\ placed \subseteq Landed
  /\ Satisfied(row.verify) => Satisfied(row.place) /\ proof = placed
  /\ Satisfied(row.shelve) => Satisfied(row.place)
  /\ row.shelve.status = "ok" => shelf = Landed \/ FormatWaiting

(* ... and in the making.                                                    *)
InTheMaking ==
  /\ \A s \in {"verify", "shelve"} : In("run", s) \/ In("done", s) => Satisfied(row.place)
  /\ In("done", "verify") /\ worker.res \in {"ok", "skipped"} => proof = placed
  /\ In("done", "shelve") /\ worker.res = "ok" => shelf = Landed

Walking ==
  /\ ListsTheRows /\ SeesTheRows /\ StopsThere /\ RowsSayRunning
  /\ Standing /\ InTheMaking

Walk == Unaided => Walking

(* FinishedStaysFinished without its box.                                    *)
Undone ==
  \A s \in Stage : row[s].status = "ok" /\ row'[s].status # "ok" =>
    \/ Rank[s] >= Rank.place /\ \E f \in Format : Acquired(f) /\ f \notin placed
    \/ s = "index" /\ row.verify.status = "running"

(* What the rows and the worker are made of.                                 *)
Made ==
  /\ row \in [Stage -> [status : Statuses, attempts : Nat]]
  /\ worker \in [pc : Phases, view : [Stage -> [status : Statuses, attempts : Nat]],
                 cat : Categories, at : 1 .. End, res : Results]

LEMMA TypedIsMade == TypeInv => Made
  BY DEF TypeInv, TypeOK, Made, Rows, Workers

LEMMA Order ==
  /\ Rank.classify = 1 /\ Rank.acquire_ebook = 2 /\ Rank.acquire_audiobook = 3
  /\ Rank.place = 4 /\ Rank.index = 5 /\ Rank.notebook = 6 /\ Rank.verify = 7
  /\ Rank.shelve = 8
  /\ \A s, t \in Stage : Rank[s] = Rank[t] => s = t
  /\ \A f \in Format : AcquireStage[f] \in {"acquire_ebook", "acquire_audiobook"}
  /\ \A f, g \in Format : AcquireStage[f] = AcquireStage[g] => f = g
BY DEF Stage, Rank, Format, AcquireStage

(* The loop stops where it may.                                              *)
LEMMA NextStopStops ==
  ASSUME NEW view, NEW from, NEW s \in Stage, NextStop(view, from) = Rank[s]
  PROVE  Stops(view, s)
<1> DEFINE ahead == {Rank[t] : t \in {u \in Stage : Rank[u] >= from /\ Stops(view, u)}}
<1>1. ahead \subseteq 1 .. 8
  BY Ranks
<1>2. NextStop(view, from) = CHOOSE i \in ahead \cup {End} : \A j \in ahead : i <= j
  BY DEF NextStop
<1> HIDE DEF ahead
<1>3. \E i \in ahead \cup {End} : \A j \in ahead : i <= j
  BY <1>1, LeastRank
<1>4. NextStop(view, from) \in ahead \cup {End}
  BY <1>2, <1>3
<1>5. Rank[s] \in ahead
  BY <1>4, Ranks DEF End
<1> QED
  BY <1>5, Order DEF ahead

(* A worker at the book, and no sweep that has listed it.                    *)
LEMMA NothingListed ==
  ASSUME Walking, worker.pc # "idle", listing' = listing
  PROVE  listing = {} /\ ListsTheRows'
  BY DEF Walking, ListsTheRows, Idle

LEMMA NothingUndone == ASSUME row' = row PROVE Undone
  BY DEF Undone

(* Reading the list, the clock, the process.                                 *)
LEMMA OutsideWalks ==
  ASSUME Made, Walking, LeavesWorkers = FALSE,
         List \/ Start \/ GraceEnds \/ Crash \/ Change \/ UNCHANGED vars
  PROVE  Walking' /\ Undone
<1>1. /\ row' = row /\ placed' = placed /\ shelf' = shelf /\ proof' = proof
      /\ Undone
  BY NothingUndone
     DEF List, Start, GraceEnds, Crash, Change, vars, stages, world
<1>2. Standing'
  BY <1>1 DEF Walking, Standing, Landed, Acquired, FormatWaiting
<1>3. Idle.pc = "idle"
  BY DEF Idle
<1>4. CASE worker' = worker
  <2>1. ListsTheRows'
    BY <1>1, <1>4 DEF List, Start, GraceEnds, Crash, Change, vars, Walking, ListsTheRows
  <2> QED
    BY <1>1, <1>2, <1>4, <2>1
       DEF Walking, SeesTheRows, Busy, StopsThere, RowsSayRunning, In, InTheMaking, Acquired,
           Landed
<1>5. CASE worker' = Idle /\ listing' = {}
  BY <1>1, <1>2, <1>3, <1>5
     DEF Walking, ListsTheRows, SeesTheRows, StopsThere, RowsSayRunning, In, InTheMaking
<1>6. CASE Start /\ worker = Idle
  <2>1. PICK l \in listing :
          /\ listing' = {}
          /\ worker' = [pc |-> "scan", view |-> l.rows, cat |-> l.cat,
                        at |-> NextStop(l.rows, 1), res |-> "ok"]
    BY <1>6 DEF Start
  <2>2. /\ worker'.pc = "scan" /\ worker'.view = row /\ l.rows = row
        /\ worker'.at = NextStop(row, 1)
    BY <2>1 DEF Walking, ListsTheRows
  <2>3. StopsThere'
    BY <2>2, NextStopStops DEF StopsThere
  <2> QED
    BY <1>1, <1>2, <2>1, <2>2, <2>3
       DEF Walking, ListsTheRows, SeesTheRows, RowsSayRunning, In, InTheMaking
<1> QED
  BY <1>1, <1>4, <1>5, <1>6 DEF List, Start, GraceEnds, Crash, Change, vars

-----------------------------------------------------------------------------
(* The runners: the row of the stage says that it runs, so what rests on it  *)
(* does not stand.                                                           *)

(* A run that ends leaves the rows, but verify may undo index.               *)
LEMMA RunsSee ==
  ASSUME Made, Walking, NEW s \in Stage, In("run", s), NEW res, Ends(res),
         listing' = listing,
         row' = row \/ (s = "verify" /\ row' = [row EXCEPT !.index = Fresh])
  PROVE  /\ ListsTheRows' /\ SeesTheRows' /\ StopsThere' /\ RowsSayRunning' /\ Undone
         /\ worker'.pc = "done" /\ worker'.at = Rank[s] /\ worker'.res = res
         /\ \A t \in Stage : In("run", t)' \/ In("done", t)' => t = s
         /\ \A t \in Stage \ {"index"} : row'[t] = row[t]
<1>1. worker'.pc = "done" /\ worker'.at = Rank[s] /\ worker'.res = res
      /\ worker'.view = worker.view /\ worker.at = Rank[s] /\ worker.pc = "run"
  BY DEF Ends, Made, In
<1>2. \A t \in Stage : row'[t] = row[t] \/ (t = "index" /\ s = "verify" /\ row'[t] = Fresh)
  BY Ranks DEF Made
<1>3. \A t \in Stage : In("run", t)' \/ In("done", t)' => t = s
  BY <1>1, Order DEF In
<1>4. ListsTheRows'
  BY <1>1, NothingListed
<1>5. SeesTheRows'
  BY <1>1, <1>2 DEF Walking, SeesTheRows, Busy, Exact
<1>6. StopsThere'
  BY <1>1 DEF StopsThere
<1>7. RowsSayRunning'
  <2>1. row[s].status = "running"
    BY DEF Walking, RowsSayRunning
  <2>2. row'[s] = row[s]
    BY <1>2
  <2> QED
    BY <1>1, <1>3, <2>1, <2>2 DEF RowsSayRunning, In
<1>8. Undone
  <2>1. s = "verify" => row.verify.status = "running"
    BY DEF Walking, RowsSayRunning
  <2> QED
    BY <1>2, <2>1 DEF Undone
<1> QED
  BY <1>1, <1>2, <1>3, <1>4, <1>5, <1>6, <1>7, <1>8

LEMMA RunnersWalk ==
  ASSUME Made, Walking, Runner
  PROVE  Walking' /\ Undone
<1> DEFINE Seen == ListsTheRows' /\ SeesTheRows' /\ StopsThere' /\ RowsSayRunning' /\ Undone
<1>1. listing' = listing
  BY DEF Runner, Classify, Acquire, Place, Index, Notebook, Verify, Shelve
<1>2. \A t \in {"place", "verify", "shelve"} :
        In("run", t) => row[t].status = "running" /\ ~Satisfied(row[t])
  BY Ranks DEF Walking, RowsSayRunning, Satisfied
<1>3. /\ {"classify", "place", "index", "notebook", "verify", "shelve"} \subseteq Stage
      /\ \A f \in Format : AcquireStage[f] \in Stage
  BY Ranks
<1>4. ASSUME row' = row, placed' = placed, proof' = proof, shelf' = shelf,
             NEW s \in Stage \ {"verify", "shelve"}, In("run", s), NEW res, Ends(res)
      PROVE  Walking' /\ Undone
  <2>1. Seen /\ ~In("done", "verify")' /\ ~In("done", "shelve")'
        /\ ~In("run", "verify")' /\ ~In("run", "shelve")'
    BY <1>1, <1>3, <1>4, RunsSee
  <2>2. Standing'
    BY <1>4 DEF Walking, Standing, Landed, Acquired, FormatWaiting
  <2> QED
    BY <2>1, <2>2 DEF Walking, InTheMaking
<1>5. CASE Classify
  <2>1. \E res : Ends(res)
    BY <1>5 DEF Classify, Fails
  <2> QED
    BY <1>3, <1>4, <1>5, <2>1 DEF Classify, stages, world
<1>6. ASSUME NEW f \in Format, Acquire(f) PROVE Walking' /\ Undone
  <2>1. \E res : Ends(res)
    BY <1>6 DEF Acquire, Fails
  <2>2. AcquireStage[f] \in Stage \ {"verify", "shelve"}
    BY Ranks, Order
  <2> QED
    BY <1>4, <1>6, <2>1, <2>2 DEF Acquire, stages
<1>7. CASE Index \/ Notebook
  <2>1. \E res : Ends(res)
    BY <1>7 DEF Index, Notebook, Outcome
  <2> QED
    BY <1>3, <1>4, <1>7, <2>1 DEF Index, Notebook, stages, world
<1>8. CASE Place
  <2>1. \E res : Ends(res)
    BY <1>8 DEF Place, FileAway, Fails
  <2>2. In("run", "place") /\ row' = row /\ proof' = proof /\ shelf' = shelf
    BY <1>8 DEF Place
  <2>3. Seen /\ ~In("done", "verify")' /\ ~In("done", "shelve")'
        /\ ~In("run", "verify")' /\ ~In("run", "shelve")'
    BY <1>1, <1>3, <2>1, <2>2, RunsSee
  <2>4. placed' \subseteq Landed
    <3>1. Fileable \subseteq Landed /\ placed \subseteq Landed
      BY DEF Fileable, Filed, Landed, Walking, Standing
    <3> QED
      BY <1>8, <3>1 DEF Place, FileAway
  <2>5. ~Satisfied(row.place)
    BY <1>2, <2>2
  <2>6. ~Satisfied(row.verify) /\ ~Satisfied(row.shelve) /\ row.shelve.status # "ok"
    BY <2>5 DEF Walking, Standing, Satisfied
  <2>7. Landed' = Landed
    BY <2>2 DEF Landed, Acquired
  <2>8. Standing'
    BY <2>2, <2>4, <2>6, <2>7 DEF Standing
  <2> QED
    BY <2>3, <2>8 DEF Walking, InTheMaking
<1>9. CASE Verify
  <2>1. PICK res : Ends(res) /\ (res \in {"ok", "skipped"} => proof' = placed)
    BY <1>9 DEF Verify, Missing, ForceRescan
  <2>2. /\ In("run", "verify") /\ placed' = placed /\ shelf' = shelf
        /\ row' = row \/ row' = [row EXCEPT !.index = Fresh]
        /\ proof' \in {proof, placed}
    BY <1>9 DEF Verify, Missing, ForceRescan
  <2>3. /\ Seen /\ worker'.res = res
        /\ ~In("done", "shelve")' /\ ~In("run", "shelve")' /\ ~In("run", "verify")'
        /\ \A t \in Stage \ {"index"} : row'[t] = row[t]
    BY <1>1, <1>3, <2>1, <2>2, RunsSee DEF In
  <2>4. /\ row'.place = row.place /\ row'.verify = row.verify /\ row'.shelve = row.shelve
        /\ row'.acquire_ebook = row.acquire_ebook
        /\ row'.acquire_audiobook = row.acquire_audiobook
    BY <2>3, Ranks
  <2>5. Landed' = Landed /\ (FormatWaiting' <=> FormatWaiting)
    BY <2>2, <2>4, Order DEF Landed, Acquired, FormatWaiting
  <2>6. Standing'
    BY <2>2, <2>4, <2>5 DEF Walking, Standing
  <2>7. InTheMaking'
    <3>1. Satisfied(row.place)
      BY <2>2 DEF Walking, InTheMaking
    <3> QED
      BY <2>1, <2>2, <2>3, <2>4, <3>1 DEF InTheMaking
  <2> QED
    BY <2>3, <2>6, <2>7 DEF Walking
<1>10. CASE Shelve
  <2>1. PICK res : Ends(res) /\ (res = "ok" => shelf' = Landed \cup placed)
    BY <1>10 DEF Shelve, Fails, Landed
  <2>2. /\ In("run", "shelve") /\ row' = row /\ placed' = placed /\ proof' = proof
        /\ shelf' = shelf \/ shelf' = Landed \cup placed
    BY <1>10 DEF Shelve, stages, Fails, Landed
  <2>3. /\ Seen /\ worker'.res = res
        /\ ~In("done", "verify")' /\ ~In("run", "verify")'
    BY <1>1, <1>3, <2>1, <2>2, RunsSee
  <2>4. Landed' = Landed /\ (FormatWaiting' <=> FormatWaiting) /\ Landed \cup placed = Landed
    BY <2>2 DEF Landed, Acquired, FormatWaiting, Walking, Standing
  <2>5. Standing'
    BY <2>2, <2>4 DEF Walking, Standing
  <2>6. Satisfied(row.place)
    BY <2>2 DEF Walking, InTheMaking
  <2> QED
    BY <2>1, <2>2, <2>3, <2>4, <2>5, <2>6 DEF Walking, InTheMaking
<1> QED
  BY <1>5, <1>6, <1>7, <1>8, <1>9, <1>10 DEF Runner

-----------------------------------------------------------------------------
(* The loop: what it writes is the row of a stage that is not satisfied, or  *)
(* a reset from place on for a download that is not filed.                   *)

LEMMA GoesOn ==
  ASSUME Made, NEW view, NEW s \in Stage, GoOn(view, s)
  PROVE  worker'.pc = "scan" /\ worker'.view = view /\ StopsThere' /\ RowsSayRunning' /\ InTheMaking'
<1>1. /\ worker'.pc = "scan" /\ worker'.view = view
      /\ worker'.at = NextStop(view, Rank[s] + 1)
  BY DEF GoOn, Made
<1>2. StopsThere'
  BY <1>1, NextStopStops DEF StopsThere
<1> QED
  BY <1>1, <1>2 DEF RowsSayRunning, InTheMaking, In

(* A stage that is about to run is not satisfied in the rows either.         *)
LEMMA ToRun ==
  ASSUME Made, Walking, NEW s \in Stage, CanRun(s)
  PROVE  /\ ~Satisfied(row[s]) /\ worker.pc = "scan" /\ worker.at = Rank[s]
         /\ s \in {"verify", "shelve"} => Satisfied(row.place)
<1>1. worker.pc = "scan" /\ worker.at = Rank[s] /\ ~Satisfied(worker.view[s])
      /\ ~Parked(worker.view, s)
  BY DEF CanRun, Reached
<1>2. ~Satisfied(row[s])
  BY <1>1 DEF Walking, SeesTheRows, Busy, Satisfied, Fresh
<1>3. ASSUME s \in {"verify", "shelve"} PROVE Satisfied(row.place)
  <2>1. PrereqsMet(worker.view, s)
    BY <1>1 DEF Walking, StopsThere, Stops
  <2>2. Satisfied(worker.view.place)
    BY <1>3, <2>1 DEF PrereqsMet, Prerequisites
  <2>3. worker.view.place = row.place
    BY <1>1, Ranks DEF Walking, SeesTheRows, Busy, Exact
  <2> QED
    BY <2>2, <2>3
<1> QED
  BY <1>1, <1>2, <1>3

(* One row is written that was not satisfied and is not now.                 *)
LEMMA StillUnsatisfied ==
  ASSUME Made, Walking, NEW s \in Stage, NEW r, row' = [row EXCEPT ![s] = r],
         ~Satisfied(row[s]), ~Satisfied(r), UNCHANGED <<placed, proof, shelf>>
  PROVE  Standing' /\ Undone /\ Landed' = Landed
<1>1. row'[s] = r /\ \A t \in Stage : t # s => row'[t] = row[t]
  BY DEF Made
<1>2. row[s].status # "ok" /\ r.status # "ok"
  BY DEF Satisfied
<1>3. \A f \in Format : Acquired(f)' <=> Acquired(f)
  BY <1>1, <1>2, Ranks DEF Acquired
<1>4. Landed' = Landed /\ (FormatWaiting' <=> FormatWaiting)
  BY <1>3 DEF Landed, FormatWaiting
<1>5. {"place", "verify", "shelve"} \subseteq Stage
  BY Ranks
<1>6. Standing'
  BY <1>1, <1>2, <1>4, <1>5 DEF Walking, Standing
<1> QED
  BY <1>1, <1>2, <1>4, <1>6 DEF Undone

(* What stands survives a reset.                                             *)
LEMMA ResetWalks ==
  ASSUME Made, Walking, NEW s \in {"place", "shelve"}, ResetStage(row, s),
         UNCHANGED <<proof, shelf>>, \E f \in Format : Acquired(f) /\ f \notin placed
  PROVE  /\ Standing' /\ Undone
         /\ \A t \in Stage : row'[t] = row[t] \/ row'[t] = Fresh
         /\ \A t \in Exact \ {"place"} : row'[t] = row[t]
         /\ s = "shelve" => row'.place = row.place
<1>1. /\ \A t \in Stage : row'[t] = IF Rank[t] >= Rank[s] THEN Fresh ELSE row[t]
      /\ placed' = IF s = "place" THEN {} ELSE placed
  BY Order DEF ResetStage
<1>2. ~Satisfied(Fresh) /\ Fresh.status # "ok"
  BY DEF Fresh, Satisfied
<1>3. \A f \in Format : Acquired(f)' <=> Acquired(f)
  BY <1>1, Order, Ranks DEF Acquired
<1>4. Landed' = Landed
  BY <1>3 DEF Landed
<1>5. /\ row'.shelve = Fresh /\ row'.place = (IF s = "place" THEN Fresh ELSE row.place)
      /\ row'.verify = (IF s = "place" THEN Fresh ELSE row.verify)
  BY <1>1, Order, Ranks
<1>6. Standing'
  BY <1>1, <1>2, <1>4, <1>5 DEF Walking, Standing
<1>7. Undone
  BY <1>1, <1>2, Order, Ranks DEF Undone
<1> QED
  BY <1>1, <1>5, <1>6, <1>7, Order, Ranks DEF Exact

LEMMA LeaveWalks ==
  ASSUME Made, Walking, Leave
  PROVE  Walking' /\ Undone
<1>1. /\ row' = row /\ placed' = placed /\ shelf' = shelf /\ proof' = proof
      /\ worker' = Idle /\ listing' = listing /\ worker.pc = "scan"
  BY DEF Leave, stages, world
<1>2. Standing' /\ Undone
  BY <1>1, NothingUndone DEF Walking, Standing, Landed, Acquired, FormatWaiting
<1>3. ListsTheRows'
  BY <1>1, NothingListed
<1> QED
  BY <1>1, <1>2, <1>3
     DEF Walking, Idle, SeesTheRows, StopsThere, RowsSayRunning, In, InTheMaking

LEMMA PlaceAgainWalks ==
  ASSUME Made, Walking, PlaceAgain
  PROVE  Walking' /\ Undone
<1>1. /\ worker.pc = "scan" /\ listing' = listing /\ UNCHANGED <<proof, shelf>>
      /\ "place" \in Stage
  BY Ranks DEF PlaceAgain, Reached, world
<1>2. ListsTheRows'
  BY <1>1, NothingListed
<1>3. CASE FormatWaiting
  <2> DEFINE view == Refreshed("place")
  <2>1. /\ ResetStage(row, "place")
        /\ worker' = [worker EXCEPT !.view = view, !.at = NextStop(view, Rank.place)]
    BY <1>3 DEF PlaceAgain
  <2>2. /\ worker'.pc = "scan" /\ worker'.view = view
        /\ worker'.at = NextStop(view, Rank.place)
    BY <1>1, <2>1 DEF Made
  <2>3. /\ Standing' /\ Undone
        /\ \A t \in Stage : row'[t] = row[t] \/ row'[t] = Fresh
        /\ \A t \in Exact \ {"place"} : row'[t] = row[t]
    BY <1>1, <1>3, <2>1, ResetWalks DEF FormatWaiting
  <2>4. \A t \in Stage : view[t] = IF t = "place" THEN row'[t] ELSE worker.view[t]
    BY DEF Refreshed, Made
  <2>5. SeesTheRows'
    <3>1. \A t \in Stage : worker.view[t] = row[t] \/ (t \notin Exact /\ row[t] = Fresh)
      BY <1>1 DEF Walking, SeesTheRows, Busy
    <3>2. "place" \in Exact
      BY DEF Exact
    <3> QED
      BY <2>2, <2>3, <2>4, <3>1, <3>2 DEF SeesTheRows
  <2>6. StopsThere'
    BY <2>2, NextStopStops DEF StopsThere
  <2> QED
    BY <1>2, <2>2, <2>3, <2>5, <2>6 DEF Walking, RowsSayRunning, In, InTheMaking
<1>4. CASE ~FormatWaiting
  <2>1. GoOn(worker.view, "place") /\ row' = row /\ placed' = placed
    BY <1>4 DEF PlaceAgain, stages
  <2>2. Standing' /\ Undone
    BY <1>1, <2>1, NothingUndone DEF Walking, Standing, Landed, Acquired, FormatWaiting
  <2>3. SeesTheRows'
    BY <1>1, <2>1, GoesOn DEF Walking, SeesTheRows, Busy
  <2> QED
    BY <1>1, <1>2, <2>1, <2>2, <2>3, GoesOn DEF Walking
<1> QED
  BY <1>3, <1>4

(* After a write of one row the view is brought up to date in that row.      *)
LEMMA RowIsSeen ==
  ASSUME Made, Walking, NEW s \in Stage, NEW r, row' = [row EXCEPT ![s] = r],
         GoOn(Refreshed(s), s), worker.pc = "scan" \/ Busy(s), worker.pc # "idle"
  PROVE  SeesTheRows'
<1>1. row'[s] = r /\ \A t \in Stage : t # s => row'[t] = row[t]
  BY DEF Made
<1>2. \A t \in Stage : Refreshed(s)[t] = IF t = s THEN row'[t] ELSE worker.view[t]
  BY DEF Refreshed, Made
<1>3. \A t \in Stage : t # s => worker.view[t] = row[t] \/ (t \notin Exact /\ row[t] = Fresh)
  BY Order DEF Walking, SeesTheRows, Busy
<1> QED
  BY <1>1, <1>2, <1>3, GoesOn DEF SeesTheRows

LEMMA RefuseWalks ==
  ASSUME Made, Walking, NEW s \in Stage, Refuse(s)
  PROVE  Walking' /\ Undone
<1> DEFINE r == [status |-> "blocked", attempts |-> 0]
<1>1. /\ CanRun(s) /\ row' = [row EXCEPT ![s] = r] /\ GoOn(Refreshed(s), s)
      /\ UNCHANGED <<placed, proof, shelf>> /\ listing' = listing /\ ~Satisfied(r)
  BY DEF Refuse, world, Satisfied
<1> HIDE DEF r
<1>2. ~Satisfied(row[s]) /\ worker.pc = "scan"
  BY <1>1, ToRun
<1>3. Standing' /\ Undone
  BY <1>1, <1>2, StillUnsatisfied
<1>4. ListsTheRows' /\ SeesTheRows'
  BY <1>1, <1>2, NothingListed, RowIsSeen
<1> QED
  BY <1>1, <1>3, <1>4, GoesOn DEF Walking

LEMMA MarkRunningWalks ==
  ASSUME Made, Walking, NEW s \in Stage, MarkRunning(s)
  PROVE  Walking' /\ Undone
<1>1. /\ CanRun(s) /\ worker' = [worker EXCEPT !.pc = "run"]
      /\ UNCHANGED <<placed, proof, shelf>> /\ listing' = listing
  BY DEF MarkRunning, world
<1>2. PICK r : row' = [row EXCEPT ![s] = r] /\ r.status = "running"
  <2> DEFINE r == [status |-> "running",
                   attempts |-> IF row[s].attempts > MaxAttempts[s] THEN row[s].attempts
                                ELSE row[s].attempts + 1]
  <2>1. row' = [row EXCEPT ![s] = r] /\ r.status = "running"
    BY DEF MarkRunning
  <2> HIDE DEF r
  <2> QED
    BY <2>1
<1>3. /\ ~Satisfied(row[s]) /\ worker.pc = "scan" /\ worker.at = Rank[s]
      /\ s \in {"verify", "shelve"} => Satisfied(row.place)
  BY <1>1, ToRun
<1>4. ~Satisfied(r)
  BY <1>2 DEF Satisfied
<1>5. Standing' /\ Undone
  BY <1>1, <1>2, <1>3, <1>4, StillUnsatisfied
<1>6. ListsTheRows'
  BY <1>1, <1>3, NothingListed
<1>7. /\ worker'.pc = "run" /\ worker'.at = Rank[s] /\ worker'.view = worker.view
  BY <1>1, <1>3 DEF Made
<1>8. row'[s] = r /\ \A t \in Stage : t # s => row'[t] = row[t]
  BY <1>2 DEF Made
<1>9. SeesTheRows' /\ StopsThere'
  BY <1>3, <1>7, <1>8 DEF Walking, SeesTheRows, Busy, StopsThere
<1>10. RowsSayRunning'
  BY <1>2, <1>7, <1>8, Order DEF RowsSayRunning, In
<1>11. InTheMaking'
  <2>0. {"verify", "shelve"} \subseteq Stage
    BY Ranks
  <2>1. ASSUME NEW t \in {"verify", "shelve"}, worker'.at = Rank[t] PROVE t = s
    <3>1. t \in Stage /\ Rank[t] = Rank[s]
      BY <1>7, <2>0, <2>1
    <3> QED
      BY <3>1, Order
  <2>2. s \in {"verify", "shelve"} => row'.place = row.place
    BY <1>8, Ranks
  <2> QED
    BY <1>3, <1>7, <2>1, <2>2 DEF InTheMaking, In
<1> QED
  BY <1>5, <1>6, <1>9, <1>10, <1>11 DEF Walking

(* A result becomes the row of its stage.                                    *)
LEMMA MarkDoneWalks ==
  ASSUME Made, Walking, NEW s \in Stage, MarkDone(s)
  PROVE  Walking' /\ Undone
<1>1. /\ worker.pc = "done" /\ worker.at = Rank[s] /\ In("done", s)
      /\ UNCHANGED <<placed, proof, shelf>> /\ listing' = listing
      /\ row[s].status = "running"
  BY DEF MarkDone, In, world, Walking, RowsSayRunning
<1>2. PICK r : /\ row' = [row EXCEPT ![s] = r]
               /\ r.status = IF worker.res = "forgiven" THEN "blocked" ELSE worker.res
  <2> DEFINE r == [status |-> IF worker.res = "forgiven" THEN "blocked" ELSE worker.res,
                   attempts |-> IF worker.res = "blocked" /\ row[s].attempts > 0
                                THEN row[s].attempts - 1
                                ELSE IF row[s].attempts > MaxAttempts[s] THEN MaxAttempts[s]
                                ELSE row[s].attempts]
  <2>1. /\ row' = [row EXCEPT ![s] = r]
        /\ r.status = IF worker.res = "forgiven" THEN "blocked" ELSE worker.res
    BY DEF MarkDone
  <2> HIDE DEF r
  <2> QED
    BY <2>1
<1>3. row'[s] = r /\ \A t \in Stage : t # s => row'[t] = row[t]
  BY <1>2 DEF Made
<1>4. ~Satisfied(row[s]) /\ row[s].status # "ok"
  BY <1>1 DEF Satisfied
<1>5. {"place", "verify", "shelve"} \subseteq Stage
  BY Ranks
<1>6. Undone
  BY <1>3, <1>4 DEF Undone
<1>7. Standing'
  <2>1. CASE ~Satisfied(r)
    BY <1>1, <1>2, <1>4, <2>1, StillUnsatisfied
  <2>2. ASSUME NEW f \in Format, s = AcquireStage[f], r.status = "ok" PROVE Standing'
    <3>1. \A g \in Format : Acquired(g)' <=> g = f \/ Acquired(g)
      BY <1>3, <2>2, Order, Ranks DEF Acquired
    <3>2. Acquired(f)' /\ ~Acquired(f)
      BY <1>4, <2>2, <3>1 DEF Acquired
    <3>3. f \notin placed
      BY <3>2 DEF Walking, Standing, Landed
    <3>4. FormatWaiting'
      BY <1>1, <3>2, <3>3 DEF FormatWaiting
    <3>5. Landed \subseteq Landed'
      BY <3>1 DEF Landed
    <3>6. row'.place = row.place /\ row'.verify = row.verify /\ row'.shelve = row.shelve
      BY <1>3, <1>5, <2>2, Order
    <3> QED
      BY <1>1, <3>4, <3>5, <3>6 DEF Walking, Standing
  <2>3. ASSUME NEW f \in Format, s = AcquireStage[f], r.status # "ok" PROVE Standing'
    <3>1. \A g \in Format : Acquired(g)' <=> Acquired(g)
      BY <1>3, <1>4, <2>3, Order, Ranks DEF Acquired
    <3>2. Landed' = Landed /\ (FormatWaiting' <=> FormatWaiting)
      BY <1>1, <3>1 DEF Landed, FormatWaiting
    <3>3. row'.place = row.place /\ row'.verify = row.verify /\ row'.shelve = row.shelve
      BY <1>3, <1>5, <2>3, Order
    <3> QED
      BY <1>1, <3>2, <3>3 DEF Walking, Standing
  <2>4. ASSUME s \notin {"acquire_ebook", "acquire_audiobook"} PROVE Standing'
    <3>1. \A g \in Format : Acquired(g)' <=> Acquired(g)
      BY <1>3, <2>4, Order, Ranks DEF Acquired
    <3>2. Landed' = Landed /\ (FormatWaiting' <=> FormatWaiting)
      BY <1>1, <3>1 DEF Landed, FormatWaiting
    <3>3. CASE s = "place"
      <4>1. ~Satisfied(row.verify) /\ ~Satisfied(row.shelve) /\ row.shelve.status # "ok"
        BY <1>4, <3>3 DEF Walking, Standing, Satisfied
      <4>2. row'.verify = row.verify /\ row'.shelve = row.shelve
        BY <1>3, <1>5, <3>3
      <4> QED
        BY <1>1, <3>2, <4>1, <4>2 DEF Walking, Standing
    <3>4. CASE s = "verify"
      <4>1. Satisfied(row.place) /\ (Satisfied(r) => proof = placed)
        BY <1>1, <1>2, <3>4 DEF Walking, InTheMaking, Satisfied
      <4>2. row'.place = row.place /\ row'.shelve = row.shelve /\ row'.verify = r
        BY <1>3, <1>5, <3>4
      <4> QED
        BY <1>1, <3>2, <4>1, <4>2 DEF Walking, Standing
    <3>5. CASE s = "shelve"
      <4>1. Satisfied(row.place) /\ (r.status = "ok" => shelf = Landed)
        BY <1>1, <1>2, <3>5 DEF Walking, InTheMaking
      <4>2. row'.place = row.place /\ row'.verify = row.verify /\ row'.shelve = r
        BY <1>3, <1>5, <3>5
      <4> QED
        BY <1>1, <3>2, <4>1, <4>2 DEF Walking, Standing
    <3>6. CASE s \notin {"place", "verify", "shelve"}
      <4>1. row'.place = row.place /\ row'.verify = row.verify /\ row'.shelve = row.shelve
        BY <1>3, <1>5, <3>6
      <4> QED
        BY <1>1, <3>2, <4>1 DEF Walking, Standing
    <3> QED
      BY <3>3, <3>4, <3>5, <3>6
  <2>5. s \in {"acquire_ebook", "acquire_audiobook"} => \E f \in Format : s = AcquireStage[f]
    BY DEF Format, AcquireStage
  <2> QED
    BY <2>2, <2>3, <2>4, <2>5
<1>8. ListsTheRows'
  BY <1>1, NothingListed
<1>9. CASE GoOn(Refreshed(s), s)
  <2>1. SeesTheRows'
    BY <1>1, <1>2, <1>9, RowIsSeen DEF Busy
  <2> QED
    BY <1>6, <1>7, <1>8, <1>9, <2>1, GoesOn DEF Walking
<1>10. CASE /\ s \in {"acquire_ebook", "acquire_audiobook"} /\ worker.res = "ok"
            /\ worker' = [worker EXCEPT !.pc = "wake"]
  <2>1. worker'.pc = "wake" /\ worker'.at = worker.at /\ worker'.view = worker.view
    BY <1>10 DEF Made
  <2>2. SeesTheRows'
    BY <1>1, <1>3, <2>1 DEF Walking, SeesTheRows, Busy
  <2>3. RowsSayRunning'
    <3>1. ASSUME NEW f \in Format, worker'.at = Rank[AcquireStage[f]]
          PROVE  AcquireStage[f] = s
      <4>1. AcquireStage[f] \in Stage /\ Rank[AcquireStage[f]] = Rank[s]
        BY <1>1, <2>1, <3>1, Ranks
      <4> QED
        BY <4>1, Order
    <3> QED
      BY <1>2, <1>3, <1>10, <2>1, <3>1 DEF RowsSayRunning, In, Acquired
  <2>4. StopsThere' /\ InTheMaking'
    BY <2>1 DEF StopsThere, InTheMaking, In
  <2> QED
    BY <1>6, <1>7, <1>8, <2>2, <2>3, <2>4 DEF Walking
<1> QED
  BY <1>9, <1>10 DEF MarkDone

(* A download wakes what waited for it.                                      *)
LEMMA WakeWalks ==
  ASSUME Made, Walking, NEW f \in Format, Wake(f)
  PROVE  Walking' /\ Undone
<1> DEFINE s == AcquireStage[f]
           stale == IF f \in placed THEN {}
                    ELSE IF Satisfied(row.place) THEN {"place"}
                    ELSE IF f = "audiobook" /\ Satisfied(row.shelve) THEN {"shelve"} ELSE {}
           view == [t \in Stage |-> IF t \in stale \cup {s} THEN row'[t] ELSE worker.view[t]]
<1>1. /\ worker.pc = "wake" /\ worker.at = Rank[s] /\ Acquired(f) /\ s \in Stage
      /\ GoOn(view, s) /\ listing' = listing /\ UNCHANGED <<proof, shelf>>
      /\ s \in Exact \ {"place"}
  BY Ranks, Order DEF Wake, In, world, Walking, RowsSayRunning, Exact
<1>2. /\ Standing' /\ Undone
      /\ \A t \in Stage : row'[t] = row[t] \/ row'[t] = Fresh
      /\ \A t \in Exact \ {"place"} : row'[t] = row[t]
      /\ row'.place = row.place \/ "place" \in stale
  <2>1. CASE UNCHANGED stages
    BY <1>1, <2>1, NothingUndone, Ranks
       DEF stages, Walking, Standing, Landed, Acquired, FormatWaiting, Exact
  <2>2. ASSUME NEW t \in stale, ResetStage(row, t)
        PROVE  /\ Standing' /\ Undone
               /\ \A u \in Stage : row'[u] = row[u] \/ row'[u] = Fresh
               /\ \A u \in Exact \ {"place"} : row'[u] = row[u]
               /\ row'.place = row.place \/ "place" \in stale
    <3>1. t \in {"place", "shelve"} /\ f \notin placed
      BY <2>2
    <3> QED
      BY <1>1, <2>2, <3>1, ResetWalks
  <2> QED
    BY <2>1, <2>2 DEF Wake
<1>3. \A t \in Stage : view[t] = IF t \in stale \cup {s} THEN row'[t] ELSE worker.view[t]
  OBVIOUS
<1> HIDE DEF view, stale
<1>4. \A t \in Stage : t # s => worker.view[t] = row[t] \/ (t \notin Exact /\ row[t] = Fresh)
  BY <1>1, Order DEF Walking, SeesTheRows, Busy
<1> HIDE DEF s
<1>5. SeesTheRows'
  <2>1. worker'.pc = "scan" /\ worker'.view = view
    BY <1>1, GoesOn
  <2>2. ASSUME NEW t \in Stage
        PROVE  view[t] = row'[t] \/ (t \notin Exact /\ row'[t] = Fresh)
    <3>1. CASE t \in stale \cup {s}
      BY <1>3, <3>1
    <3>2. CASE t \notin stale \cup {s} /\ t \in Exact
      BY <1>2, <1>3, <1>4, <3>2
    <3>3. CASE t \notin stale \cup {s} /\ t \notin Exact
      BY <1>2, <1>3, <1>4, <3>3
    <3> QED
      BY <3>1, <3>2, <3>3
  <2> QED
    BY <2>1, <2>2 DEF SeesTheRows
<1>6. ListsTheRows'
  BY <1>1, NothingListed
<1> QED
  BY <1>1, <1>2, <1>5, <1>6, GoesOn DEF Walking

-----------------------------------------------------------------------------
(* All steps of a book that is left to the pipeline.                         *)

LEMMA WalkStep ==
  ASSUME LeavesWorkers = FALSE, TypeInv, Walk, [Next]_vars, Unaided'
  PROVE  Walking' /\ Undone
<1>1. retries \in Nat /\ moves \in Nat
  BY BudgetAssumption DEF TypeInv, TypeOK
<1>2. ASSUME NEW s \in Stage, Retry(s) PROVE FALSE
  BY <1>1, <1>2 DEF Retry, Unaided
<1>3. ASSUME NEW c \in Category, SetCategory(c) PROVE FALSE
  BY <1>1, <1>3 DEF SetCategory, Unaided
<1>4. CASE List \/ Start \/ GraceEnds \/ Crash \/ Change \/ UNCHANGED vars
  <2>1. Unaided
    BY <1>4 DEF List, Start, GraceEnds, Crash, Change, vars, around, Unaided
  <2> QED
    BY <1>4, <2>1, TypedIsMade, OutsideWalks DEF Walk
<1>5. CASE Advance
  <2>1. around' = around
    BY <1>5 DEF Advance, Leave, PlaceAgain, Runner, Classify, Acquire, Place, Index, Notebook,
       Verify, Shelve, Refuse, MarkRunning, MarkDone, Wake
  <2>2. Made /\ Walking
    BY <2>1, TypedIsMade DEF around, Unaided, Walk
  <2> QED
    BY <1>5, <2>2, LeaveWalks, PlaceAgainWalks, RunnersWalk, RefuseWalks, MarkRunningWalks,
       MarkDoneWalks, WakeWalks DEF Advance
<1> QED
  BY <1>2, <1>3, <1>4, <1>5 DEF Next

LEMMA WalkInit == Init => Walk
  BY Ranks DEF Init, Walk, Walking, ListsTheRows, SeesTheRows, StopsThere, RowsSayRunning, In,
     Standing, InTheMaking, Landed, Acquired, Idle, Fresh, Satisfied

(* If sweeps leave no worker behind, a check of verify that stands was made  *)
(* of what is filed, also after restarts.                                    *)
THEOREM ProofStands ==
  ASSUME LeavesWorkers = FALSE
  PROVE  Spec => []ProofIsCurrent
<1>1. TypeInv /\ Walk /\ [Next]_vars => Walk'
  BY WalkStep DEF Walk
<1>2. Walk => ProofIsCurrent
  BY DEF Walk, Walking, Standing, ProofIsCurrent, Unaided
<1> QED
  BY <1>1, <1>2, TypeInit, TypeStep, WalkInit, PTL DEF Spec

(* And a shelving that stands says what the book has, or place will see that *)
(* it does not.                                                              *)
THEOREM ShelfStands ==
  ASSUME LeavesWorkers = FALSE
  PROVE  Spec => []ShelfIsCurrent
<1>1. TypeInv /\ Walk /\ [Next]_vars => Walk'
  BY WalkStep DEF Walk
<1>2. Walk => ShelfIsCurrent
  BY DEF Walk, Walking, Standing, Landed, ShelfIsCurrent, Unaided
<1> QED
  BY <1>1, <1>2, TypeInit, TypeStep, WalkInit, PTL DEF Spec

(* And what is finished is undone only for a download that is not filed, or  *)
(* by verify.                                                                *)
THEOREM FinishedStays ==
  ASSUME LeavesWorkers = FALSE
  PROVE  Spec => FinishedStaysFinished
<1>1. TypeInv /\ Walk /\ [Next]_vars => Walk'
  BY WalkStep DEF Walk
<1>2. TypeInv /\ Walk /\ [Next]_vars => (Unaided' => Undone)
  BY WalkStep
<1> QED
  BY <1>1, <1>2, TypeInit, TypeStep, WalkInit, PTL DEF Spec, FinishedStaysFinished, Undone

-----------------------------------------------------------------------------
(* Pipeline implements StageRows, whatever the operator does: the list that   *)
(* the worker walks may show as finished what is not, and never as open what *)
(* is not open.                                                              *)

(* Of a row.                                                                 *)
Open(rows, s) == Fate(rows, s) = "open"

Cautious(view) == \A s \in Stage : Open(view, s) => Open(row, s)

(* A download that has ended is in the row before it is in the list.          *)
Ending(s) == worker.pc = "wake" /\ worker.at = Rank[s]

InHand ==
  /\ \A l \in listing : worker = Idle /\ Cautious(l.rows)
  /\ worker.pc # "idle" =>
       \A s \in Stage : Open(worker.view, s) /\ ~Ending(s) => Open(row, s)
  /\ Running => \E s \in Stage : worker.at = Rank[s] /\ Open(row, s)

(* The stage that runs, for StageRows.                                       *)
Run == IF Running THEN CHOOSE s \in Stage : worker.at = Rank[s] ELSE "none"

Fates == [s \in Stage |-> Fate(row, s)]

LEMMA RunIs ==
  ASSUME NEW s \in Stage, worker.at = Rank[s]
  PROVE  (CHOOSE t \in Stage : worker.at = Rank[t]) = s
  BY Order

LEMMA NobodyRuns == "none" \notin Stage
  BY DEF Stage, Rank

LEMMA FreshIsOpen ==
  ASSUME NEW rows, NEW s \in Stage, rows[s] = Fresh
  PROVE  Open(rows, s)
  BY DEF Fresh, Open, Fate, Satisfied, Parked

(* A row alone says what it is.                                              *)
LEMMA FateOfRow ==
  ASSUME NEW rows, NEW others, NEW s \in Stage, rows[s] = others[s]
  PROVE  Fate(rows, s) = Fate(others, s) /\ (Open(rows, s) <=> Open(others, s))
  BY DEF Open, Fate, Satisfied, Parked

(* Rows that are reset, by whomever.                                         *)
LEMMA Undoing ==
  ASSUME \A s \in Stage : row'[s] = row[s] \/ row'[s] = Fresh
  PROVE  /\ \E S \in SUBSET Stage :
              Fates' = [s \in Stage |-> IF s \in S THEN "open" ELSE Fates[s]]
         /\ \A s \in Stage : Open(row, s) => Open(row', s)
<1> DEFINE S == {s \in Stage : row'[s] = Fresh}
<1>1. ASSUME NEW s \in Stage
      PROVE  /\ Fate(row', s) = IF s \in S THEN "open" ELSE Fate(row, s)
             /\ Open(row, s) => Open(row', s)
  <2>1. CASE row'[s] = Fresh
    BY <2>1, FreshIsOpen DEF Open
  <2>2. CASE row'[s] # Fresh
    BY <2>2, FateOfRow
  <2> QED
    BY <2>1, <2>2
<1>2. Fates' = [s \in Stage |-> IF s \in S THEN "open" ELSE Fates[s]]
  BY <1>1 DEF Fates
<1> QED
  BY <1>1, <1>2

LEMMA ResetUndoes ==
  ASSUME Made, NEW s \in Stage, ResetStage(row, s)
  PROVE  \A t \in Stage : row'[t] = row[t] \/ row'[t] = Fresh
  BY DEF ResetStage

(* A step that leaves the run alone, and resets rows if any.                 *)
LEMMA ContractReset ==
  ASSUME \A s \in Stage : row'[s] = row[s] \/ row'[s] = Fresh, Run' = Run
  PROVE  Contract!Next
<1>1. PICK S \in SUBSET Stage :
        Fates' = [s \in Stage |-> IF s \in S THEN "open" ELSE Fates[s]]
  BY Undoing
<1>2. Contract!Reset(S)
  BY <1>1 DEF Contract!Reset, Fates, Run
<1> QED
  BY <1>2 DEF Contract!Next

(* Nobody lists a book while a worker has it.                                *)
LEMMA NotListed ==
  ASSUME InHand, worker.pc # "idle", listing' = listing
  PROVE  listing' = {}
  BY DEF InHand, Idle

(* Rows that are reset while nothing else happens to the book.               *)
LEMMA ResetInHand ==
  ASSUME InHand, \A s \in Stage : row'[s] = row[s] \/ row'[s] = Fresh,
         worker' = worker, listing' = listing
  PROVE  InHand' /\ Contract!Next
<1>1. \A s \in Stage : Open(row, s) => Open(row', s)
  BY Undoing
<1>2. InHand'
  BY <1>1 DEF InHand, Cautious, Running, Ending
<1>3. Run' = Run
  BY DEF Run, Running
<1> QED
  BY <1>2, <1>3, ContractReset

(* The loop goes on with a view that shows as open what is.                  *)
LEMMA LoopInHand ==
  ASSUME InHand, worker.pc # "idle", listing' = listing, worker'.pc = "scan",
         \A s \in Stage : Open(worker'.view, s) => Open(row', s)
  PROVE  InHand' /\ Run' = "none"
<1>1. listing' = {}
  BY NotListed
<1> QED
  BY <1>1 DEF InHand, Running, Run

(* Where CanRun finds the loop at an open row, the row is open.              *)
LEMMA OpenToRun ==
  ASSUME Made, InHand, NEW s \in Stage, CanRun(s)
  PROVE  worker.pc = "scan" /\ worker.at = Rank[s] /\ Open(row, s) /\ Run = "none"
<1>1. worker.pc = "scan" /\ worker.at = Rank[s] /\ Open(worker.view, s)
  BY DEF CanRun, Reached, Open, Fate
<1> QED
  BY <1>1 DEF InHand, Ending, Run, Running

(* Listing, claiming, the clock, the process and the operator.               *)
LEMMA OutsideInHand ==
  ASSUME Made, InHand, LeavesWorkers = FALSE,
         \/ List \/ Start \/ Leave \/ GraceEnds \/ Crash \/ Change \/ UNCHANGED vars
         \/ \E s \in Stage : Retry(s)
         \/ \E c \in Category : SetCategory(c)
  PROVE  InHand' /\ Contract!Next
<1>1. CASE GraceEnds \/ Change \/ UNCHANGED vars
  <2>1. row' = row /\ worker' = worker /\ listing' = listing
    BY <1>1 DEF GraceEnds, Change, vars, stages
  <2> QED
    BY <2>1, ResetInHand
<1>2. ASSUME NEW s \in Stage, ResetStage(row, s), worker' = worker, listing' = listing
      PROVE  InHand' /\ Contract!Next
  BY <1>2, ResetUndoes, ResetInHand
<1>3. CASE (\E s \in Stage : Retry(s)) \/ \E c \in Category : SetCategory(c)
  BY <1>2, <1>3, Ranks DEF Retry, SetCategory
<1>4. CASE List
  <2>1. /\ worker' = worker /\ row' = row /\ worker = Idle
        /\ \A l \in listing' : l.rows = row
    BY <1>4 DEF List, stages
  <2>2. Idle.pc = "idle"
    BY DEF Idle
  <2>3. InHand'
    BY <2>1, <2>2 DEF InHand, Cautious, Running
  <2>4. Run' = Run
    BY <2>1 DEF Run, Running
  <2> QED
    BY <2>1, <2>3, <2>4, ContractReset
<1>5. CASE Start
  <2>1. PICK l \in listing :
          /\ listing' = {}
          /\ worker' = [pc |-> "scan", view |-> l.rows, cat |-> l.cat,
                        at |-> NextStop(l.rows, 1), res |-> "ok"]
          /\ worker = Idle
    BY <1>5 DEF Start, InHand
  <2>2. row' = row /\ worker'.pc = "scan" /\ worker'.view = l.rows /\ worker.pc = "idle"
    BY <1>5, <2>1 DEF Start, stages, Idle
  <2>3. Cautious(l.rows)
    BY DEF InHand
  <2>4. InHand'
    BY <2>1, <2>2, <2>3 DEF InHand, Cautious, Running
  <2>5. Run' = Run
    BY <2>2 DEF Run, Running
  <2> QED
    BY <2>2, <2>4, <2>5, ContractReset
<1>6. CASE Leave \/ Crash
  <2>1. row' = row /\ worker' = Idle /\ listing' = {}
    BY <1>6, NotListed DEF Leave, Crash, stages
  <2>2. InHand' /\ Run' = "none"
    BY <2>1 DEF InHand, Running, Run, Idle
  <2>3. CASE Running
    <3>1. Run # "none"
      <4>1. PICK s \in Stage : worker.at = Rank[s]
        BY <2>3 DEF InHand
      <4> QED
        BY <2>3, <4>1, RunIs, NobodyRuns DEF Run
    <3>2. Contract!Stop
      BY <2>1, <2>2, <3>1 DEF Contract!Stop, Run
    <3> QED
      BY <2>2, <3>2 DEF Contract!Next
  <2>4. CASE ~Running
    BY <2>1, <2>2, <2>4, ContractReset DEF Run
  <2> QED
    BY <2>3, <2>4
<1> QED
  BY <1>1, <1>3, <1>4, <1>5, <1>6

(* A row that was open is written and stays open, between two runs.           *)
LEMMA OpenRowWritten ==
  ASSUME Made, NEW s \in Stage, NEW r, row' = [row EXCEPT ![s] = r], Open(row, s),
         r.status \in {"running", "blocked"}
  PROVE  Fates' = Fates /\ \A t \in Stage : Open(row', t) <=> Open(row, t)
<1>1. row'[s] = r /\ \A t \in Stage : t # s => row'[t] = row[t]
  BY DEF Made
<1>2. Fate(row', s) = "open"
  BY <1>1 DEF Fate, Satisfied, Parked
<1>3. ASSUME NEW t \in Stage PROVE Fate(row', t) = Fate(row, t)
  <2>1. CASE t = s
    BY <1>2, <2>1 DEF Open
  <2>2. CASE t # s
    BY <1>1, <2>2, FateOfRow
  <2> QED
    BY <2>1, <2>2
<1> QED
  BY <1>3 DEF Fates, Open

LEMMA RefuseInHand ==
  ASSUME Made, InHand, NEW s \in Stage, Refuse(s)
  PROVE  InHand' /\ UNCHANGED <<Fates, Run>>
<1> DEFINE r == [status |-> "blocked", attempts |-> 0]
<1>1. CanRun(s) /\ row' = [row EXCEPT ![s] = r] /\ GoOn(Refreshed(s), s) /\ listing' = listing
  BY DEF Refuse
<1>2. worker.pc = "scan" /\ worker.at = Rank[s] /\ Open(row, s) /\ Run = "none"
  BY <1>1, OpenToRun
<1>3. Fates' = Fates /\ \A t \in Stage : Open(row', t) <=> Open(row, t)
  BY <1>1, <1>2, OpenRowWritten
<1>4. worker'.pc = "scan" /\ worker'.view = Refreshed(s)
  BY <1>1 DEF GoOn, Made
<1>5. ASSUME NEW t \in Stage, Open(worker'.view, t) PROVE Open(row', t)
  <2>1. CASE t = s
    BY <1>2, <1>3, <2>1
  <2>2. CASE t # s
    <3>1. worker'.view[t] = worker.view[t]
      BY <1>4, <2>2 DEF Refreshed, Made
    <3>2. Open(worker.view, t)
      BY <1>5, <3>1, FateOfRow
    <3> QED
      BY <1>2, <1>3, <3>2 DEF InHand, Ending
  <2> QED
    BY <2>1, <2>2
<1> QED
  BY <1>1, <1>2, <1>3, <1>4, <1>5, LoopInHand

LEMMA MarkRunningInHand ==
  ASSUME Made, InHand, NEW s \in Stage, MarkRunning(s)
  PROVE  InHand' /\ Contract!Next
<1>1. CanRun(s) /\ worker' = [worker EXCEPT !.pc = "run"] /\ listing' = listing
  BY DEF MarkRunning
<1>2. PICK r : row' = [row EXCEPT ![s] = r] /\ r.status = "running"
  <2> DEFINE r == [status |-> "running",
                   attempts |-> IF row[s].attempts > MaxAttempts[s] THEN row[s].attempts
                                ELSE row[s].attempts + 1]
  <2>1. row' = [row EXCEPT ![s] = r] /\ r.status = "running"
    BY DEF MarkRunning
  <2> HIDE DEF r
  <2> QED
    BY <2>1
<1>3. worker.pc = "scan" /\ worker.at = Rank[s] /\ Open(row, s) /\ Run = "none"
  BY <1>1, OpenToRun
<1>4. Fates' = Fates /\ \A t \in Stage : Open(row', t) <=> Open(row, t)
  BY <1>2, <1>3, OpenRowWritten
<1>5. worker'.pc = "run" /\ worker'.at = Rank[s] /\ worker'.view = worker.view
  BY <1>1, <1>3 DEF Made
<1>6. listing' = {}
  BY <1>1, <1>3, NotListed
<1>7. InHand'
  BY <1>3, <1>4, <1>5, <1>6 DEF InHand, Ending
<1>8. Run' = s
  BY <1>5, Order DEF Run, Running
<1>9. Contract!Begin(s)
  BY <1>3, <1>4, <1>8 DEF Contract!Begin, Run, Fates, Open
<1> QED
  BY <1>7, <1>9 DEF Contract!Next

(* A run ends: the rows are as they were, but verify may undo index.          *)
LEMMA RunnersInHand ==
  ASSUME Made, InHand, Runner
  PROVE  InHand' /\ Contract!Next
<1>1. PICK s \in Stage : In("run", s)
  BY Ranks DEF Runner, Classify, Acquire, Place, Index, Notebook, Verify, Shelve
<1>2. /\ listing' = listing
      /\ row' = row \/ row' = [row EXCEPT !.index = Fresh]
      /\ \E res : Ends(res)
  <2>1. CASE Classify
    BY <2>1 DEF Classify, stages, Fails
  <2>2. ASSUME NEW f \in Format, Acquire(f)
        PROVE  listing' = listing /\ row' = row /\ \E res : Ends(res)
    BY <2>2 DEF Acquire, stages, Fails
  <2>3. CASE Place
    BY <2>3 DEF Place, FileAway, Fails
  <2>4. CASE Index \/ Notebook
    BY <2>4 DEF Index, Notebook, Outcome, stages
  <2>5. CASE Verify
    BY <2>5 DEF Verify, Missing, ForceRescan
  <2>6. CASE Shelve
    BY <2>6 DEF Shelve, Fails, stages
  <2> QED
    BY <2>1, <2>2, <2>3, <2>4, <2>5, <2>6 DEF Runner
<1>3. /\ worker.pc = "run" /\ worker.at = Rank[s]
      /\ worker'.pc = "done" /\ worker'.at = worker.at /\ worker'.view = worker.view
  BY <1>1, <1>2 DEF In, Ends, Made
<1>4. \A t \in Stage : row'[t] = row[t] \/ row'[t] = Fresh
  BY <1>2, Ranks DEF Made
<1>5. \A t \in Stage : Open(row, t) => Open(row', t)
  BY <1>4, Undoing
<1>6. listing' = {}
  BY <1>2, <1>3, NotListed
<1>7. InHand'
  BY <1>3, <1>5, <1>6 DEF InHand, Ending, Running
<1>8. Run' = Run
  BY <1>3 DEF Run, Running
<1> QED
  BY <1>4, <1>7, <1>8, ContractReset

(* A result becomes the row of its stage, whatever that had become.          *)
LEMMA MarkDoneInHand ==
  ASSUME Made, InHand, NEW s \in Stage, MarkDone(s)
  PROVE  InHand' /\ Contract!Next
<1>1. worker.pc = "done" /\ worker.at = Rank[s] /\ listing' = listing
  BY DEF MarkDone, In
<1>2. \A t \in Stage : t # s => row'[t] = row[t]
  BY DEF MarkDone, Made
<1>3. listing' = {}
  BY <1>1, NotListed
<1>4. InHand' /\ Run' = "none"
  <2>1. CASE GoOn(Refreshed(s), s)
    <3>1. worker'.pc = "scan" /\ worker'.view = Refreshed(s)
      BY <2>1 DEF GoOn, Made
    <3>2. ASSUME NEW t \in Stage, Open(worker'.view, t) PROVE Open(row', t)
      <4>1. CASE t = s
        <5>1. worker'.view[t] = row'[t]
          BY <3>1, <4>1 DEF Refreshed, Made
        <5> QED
          BY <3>2, <5>1, FateOfRow
      <4>2. CASE t # s
        <5>1. worker'.view[t] = worker.view[t]
          BY <3>1, <4>2 DEF Refreshed, Made
        <5>2. Open(worker.view, t)
          BY <3>2, <5>1, FateOfRow
        <5>3. Open(row, t)
          BY <1>1, <5>2 DEF InHand, Ending
        <5> QED
          BY <1>2, <4>2, <5>3, FateOfRow
      <4> QED
        BY <4>1, <4>2
    <3> QED
      BY <1>1, <3>1, <3>2, LoopInHand
  <2>2. CASE worker' = [worker EXCEPT !.pc = "wake"]
    <3>1. worker'.pc = "wake" /\ worker'.at = Rank[s] /\ worker'.view = worker.view
      BY <1>1, <2>2 DEF Made
    <3>2. ASSUME NEW t \in Stage, Open(worker'.view, t), ~Ending(t)' PROVE Open(row', t)
      <4>1. t # s
        BY <3>1, <3>2 DEF Ending
      <4>2. Open(row, t)
        BY <1>1, <3>1, <3>2 DEF InHand, Ending
      <4> QED
        BY <1>2, <4>1, <4>2, FateOfRow
    <3> QED
      BY <1>3, <3>1, <3>2 DEF InHand, Running, Run
  <2> QED
    BY <2>1, <2>2 DEF MarkDone
<1>5. Run = s
  BY <1>1, Order DEF Run, Running
<1>6. Contract!End(s)
  <2>1. Fate(row', s) \in {"open", "finished", "parked"}
    BY DEF Fate
  <2>2. Fates' = [t \in Stage |-> IF t = s THEN Fate(row', s) ELSE Fates[t]]
    <3>1. \A t \in Stage : t # s => Fate(row', t) = Fate(row, t)
      BY <1>2, FateOfRow
    <3> QED
      BY <3>1 DEF Fates
  <2> QED
    BY <1>4, <1>5, <2>1, <2>2 DEF Contract!End, Run, Fates
<1> QED
  BY <1>4, <1>6 DEF Contract!Next

(* A download that has ended is now in the list too, and what waited for it   *)
(* is reset.                                                                 *)
LEMMA WakeInHand ==
  ASSUME Made, InHand, NEW f \in Format, Wake(f)
  PROVE  InHand' /\ Contract!Next
<1> DEFINE s == AcquireStage[f]
           stale == IF f \in placed THEN {}
                    ELSE IF Satisfied(row.place) THEN {"place"}
                    ELSE IF f = "audiobook" /\ Satisfied(row.shelve) THEN {"shelve"} ELSE {}
           view == [t \in Stage |-> IF t \in stale \cup {s} THEN row'[t] ELSE worker.view[t]]
<1>1. /\ worker.pc = "wake" /\ worker.at = Rank[s] /\ s \in Stage
      /\ GoOn(view, s) /\ listing' = listing
  BY Ranks DEF Wake, In
<1>2. \A t \in Stage : row'[t] = row[t] \/ row'[t] = Fresh
  <2>1. stale \subseteq Stage
    BY Ranks
  <2>2. UNCHANGED stages \/ \E t \in stale : ResetStage(row, t)
    BY DEF Wake
  <2> QED
    BY <2>1, <2>2, ResetUndoes DEF stages
<1>3. \A t \in Stage : Open(row, t) => Open(row', t)
  BY <1>2, Undoing
<1>4. \A t \in Stage : t # s => view[t] = row'[t] \/ view[t] = worker.view[t]
  OBVIOUS
<1>5. view[s] = row'[s]
  BY <1>1
<1> HIDE DEF view, stale
<1>6. worker'.pc = "scan" /\ worker'.view = view
  BY <1>1 DEF GoOn, Made
<1>7. ASSUME NEW t \in Stage, Open(view, t) PROVE Open(row', t)
  <2>1. CASE view[t] = row'[t]
    BY <1>7, <2>1, FateOfRow
  <2>2. CASE view[t] = worker.view[t] /\ t # s
    <3>1. Open(worker.view, t) /\ ~Ending(t)
      BY <1>1, <1>7, <2>2, FateOfRow, Order DEF Ending
    <3> QED
      BY <1>1, <1>3, <3>1 DEF InHand
  <2> QED
    BY <1>4, <1>5, <2>1, <2>2
<1>8. InHand' /\ Run' = "none"
  BY <1>1, <1>6, <1>7, LoopInHand
<1>9. Run = "none"
  BY <1>1 DEF Run, Running
<1> QED
  BY <1>2, <1>8, <1>9, ContractReset

LEMMA PlaceAgainInHand ==
  ASSUME Made, InHand, PlaceAgain
  PROVE  InHand' /\ Contract!Next
<1>1. worker.pc = "scan" /\ listing' = listing /\ "place" \in Stage
  BY Ranks DEF PlaceAgain, Reached
<1>2. \A t \in Stage : row'[t] = row[t] \/ row'[t] = Fresh
  BY <1>1, ResetUndoes DEF PlaceAgain, stages
<1>3. \A t \in Stage : Open(row, t) => Open(row', t)
  BY <1>2, Undoing
<1>4. worker'.pc = "scan" /\ (worker'.view = worker.view \/ worker'.view = Refreshed("place"))
  BY <1>1 DEF PlaceAgain, GoOn, Made
<1>5. ASSUME NEW t \in Stage, Open(worker'.view, t) PROVE Open(row', t)
  <2>1. worker'.view[t] = worker.view[t] \/ worker'.view[t] = row'[t]
    BY <1>4 DEF Refreshed, Made
  <2>2. CASE worker'.view[t] = row'[t]
    BY <1>5, <2>2, FateOfRow
  <2>3. CASE worker'.view[t] = worker.view[t]
    <3>1. Open(worker.view, t) /\ ~Ending(t)
      BY <1>1, <1>5, <2>3, FateOfRow DEF Ending
    <3> QED
      BY <1>1, <1>3, <3>1 DEF InHand
  <2> QED
    BY <2>1, <2>2, <2>3
<1>6. InHand' /\ Run' = "none"
  BY <1>1, <1>4, <1>5, LoopInHand
<1>7. Run = "none"
  BY <1>1 DEF Run, Running
<1> QED
  BY <1>2, <1>6, <1>7, ContractReset

LEMMA ContractStep ==
  ASSUME LeavesWorkers = FALSE, TypeInv, InHand, [Next]_vars
  PROVE  InHand' /\ [Contract!Next]_(Contract!vars)
<1>1. Made
  BY TypedIsMade
<1>2. ASSUME NEW s \in Stage, Refuse(s)
      PROVE  InHand' /\ [Contract!Next]_(Contract!vars)
  <2>1. InHand' /\ Fates' = Fates /\ Run' = Run
    BY <1>1, <1>2, RefuseInHand
  <2>2. UNCHANGED Contract!vars
    BY <2>1 DEF Contract!vars, Fates, Run
  <2> QED
    BY <2>1, <2>2
<1> QED
  BY <1>1, <1>2, OutsideInHand, PlaceAgainInHand, RunnersInHand, MarkRunningInHand,
     MarkDoneInHand, WakeInHand DEF Next, Advance

LEMMA ContractInit == Init => InHand /\ Contract!Init
<1> SUFFICES ASSUME Init PROVE InHand /\ Contract!Init
  OBVIOUS
<1>1. row = [s \in Stage |-> Fresh] /\ listing = {} /\ worker.pc = "idle"
  BY DEF Init, Idle
<1>2. \A s \in Stage : Fate(row, s) = "open"
  BY <1>1, FreshIsOpen DEF Open
<1>3. Contract!Init
  BY <1>1, <1>2 DEF Contract!Init, Running
<1> QED
  BY <1>1, <1>3 DEF InHand, Running

(* If sweeps leave no worker behind, a stage is begun only when its row is    *)
(* neither finished nor parked, and no other hand makes it either while it   *)
(* runs: whatever the list the worker walks has missed, whatever the         *)
(* operator resets under it, for any budgets and any number of restarts.     *)
THEOREM ContractKept ==
  ASSUME LeavesWorkers = FALSE
  PROVE  Spec => KeepsContract
<1>1. TypeInv /\ InHand /\ [Next]_vars => InHand' /\ [Contract!Next]_(Contract!vars)
  BY ContractStep
<1> QED
  BY <1>1, ContractInit, TypeInit, TypeStep, PTL DEF Spec, KeepsContract, Contract!Spec

=============================================================================
