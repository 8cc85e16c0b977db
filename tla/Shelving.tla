------------------------------- MODULE Shelving -------------------------------
(***************************************************************************)
(* One book and its shelves on Goodreads: the move off to-read onto the    *)
(* shelf of what was collected (app/stages/shelve.py, move_to_shelf in     *)
(* app/goodreads.py), and the comparison of what was recorded with what    *)
(* Goodreads shows (app/reconcile.py).                                     *)
(*                                                                         *)
(* A book leaves to-read only by losing all its shelves, so a move is      *)
(* several requests, each of which may fail before or after it took, and   *)
(* between which the process may stop, the reconciliation may read the     *)
(* shelves, and the reader may move the book by hand.                      *)
(***************************************************************************)
EXTENDS Integers, Sequences, Functions

CONSTANTS
  MaxAttempts,  \* MAX_ATTEMPTS of shelve
  MaxFaults,    \* bound: requests that fail, answers that cannot be read
  MaxCrash,     \* bound: restarts of the process
  MaxHands,     \* bound: moves of the book by hand, on Goodreads
  MaxToggles    \* bound: times a switch is turned

ASSUME ShelvingAssumption ==
  /\ MaxAttempts \in Nat \ {0} /\ MaxFaults \in Nat /\ MaxCrash \in Nat
  /\ MaxHands \in Nat /\ MaxToggles \in Nat

VARIABLES
  shelves,  \* Goodreads: the shelves the book is on
  made,     \* Goodreads: which of the collected shelves exist
  deep,     \* Goodreads: the shelves whose newest page the book is too old for
  formats,  \* what has been collected of the book
  row,      \* stage_runs: status, attempts and artifact of shelve
  switch,   \* auto_shelve: of the book, and global
  worker,   \* the thread that runs the stage
  recon,    \* the reconciliation that a sweep is at
  faults, crashes, hands, toggles

goodreads == <<shelves, made, deep>>
bounds == <<faults, crashes, hands, toggles>>
vars == <<goodreads, formats, row, switch, worker, recon, bounds>>

-----------------------------------------------------------------------------
None == "none"

Exclusive == {"to-read", "read"}

(* COLLECTED_SHELVES, as they are read.                                      *)
Order == <<"to-read", "collected-pdf", "collected-audiobook", "collected-pdf-audiobook">>

Collected == Range(Order) \ {"to-read"}

Format == {"ebook", "audiobook"}

(* The shelf of what was collected.                                          *)
ShelfOf(has) ==
  CASE has = Format        -> "collected-pdf-audiobook"
    [] has = {"ebook"}     -> "collected-pdf"
    [] has = {"audiobook"} -> "collected-audiobook"

NoRow == [status |-> "pending", attempts |-> 0, artifact |-> None]

Idle == [pc |-> "idle", auto |-> FALSE, shelf |-> None, seen |-> {}, res |-> "none"]

Resting == [pc |-> "idle", at |-> 1, expected |-> None, on |-> {}]

Ends(res) == worker' = [worker EXCEPT !.pc = "done", !.res = res]

At(pc) == worker.pc = pc

GoTo(pc) == worker' = [worker EXCEPT !.pc = pc]

Fault == faults < MaxFaults /\ faults' = faults + 1

(* A request raises: the session has expired or Goodreads refuses, which     *)
(* counts; or it throttles or times out, which does not.                     *)
Raises == Fault /\ \E res \in {"failed", "blocked"} : Ends(res)

(* The newest page shows the book on the shelf.  A shelf that does not exist *)
(* shows all of them, and is recognised by that.                             *)
OnNewestPage(s) == s \in shelves \ deep

-----------------------------------------------------------------------------
(* The stage.                                                              *)

Parked == row.status = "failed" /\ row.attempts >= MaxAttempts

(* _advance starts the stage, with the switch of the book as it was listed.  *)
Start ==
  /\ worker = Idle /\ row.status \notin {"ok", "skipped"} /\ ~Parked
  /\ row' = [row EXCEPT !.status = "running", !.attempts = @ + 1]
  /\ worker' = [Idle EXCEPT !.pc = "run", !.auto = switch.book]
  /\ UNCHANGED <<goodreads, formats, switch, recon, bounds>>

(* run, up to the first request.                                             *)
Choose ==
  /\ At("run")
  /\ IF formats = {} THEN Ends("skipped")
     ELSE IF ~worker.auto \/ ~switch.all THEN Ends("blocked")
     ELSE worker' = [worker EXCEPT !.pc = "make", !.shelf = ShelfOf(formats)]
  /\ UNCHANGED <<goodreads, formats, row, switch, recon, bounds>>

(* ensure_shelf: an error of Goodreads is taken for a shelf that exists.     *)
EnsureShelf ==
  /\ At("make")
  /\ \/ made' = made \cup {worker.shelf} /\ GoTo("add") /\ UNCHANGED faults
     \/ Fault /\ made' \in {made, made \cup {worker.shelf}} /\ (GoTo("add") \/ Ends("blocked"))
  /\ UNCHANGED <<shelves, deep, formats, row, switch, recon, crashes, hands, toggles>>

(* add_to_shelf: it does nothing for a shelf that does not exist; the answer *)
(* names the shelves the book is on, if it can be read.                      *)
Add(next) ==
  LET after == IF worker.shelf \in made THEN shelves \cup {worker.shelf} ELSE shelves
  IN  \/ /\ shelves' = after
         /\ \/ worker' = [worker EXCEPT !.pc = next, !.seen = after] /\ UNCHANGED faults
            \/ Fault /\ worker' = [worker EXCEPT !.pc = next, !.seen = {}]
      \/ Raises /\ shelves' \in {shelves, after}

AddFirst ==
  /\ At("add") /\ Add("confirm")
  /\ UNCHANGED <<made, deep, formats, row, switch, recon, crashes, hands, toggles>>

Confirmed == worker.shelf \in worker.seen \/ OnNewestPage(worker.shelf)

(* A mutant: the answer is not looked at.                                    *)
TakesItsWord ==
  /\ IF OnNewestPage("to-read") THEN GoTo("destroy") ELSE Ends("ok")
  /\ UNCHANGED faults

(* The book is on the shelf, or it stays where it is; then it must leave     *)
(* to-read, or it has done so.                                               *)
Decide ==
  \/ /\ IF ~Confirmed THEN Ends("failed")
        ELSE IF "to-read" \in worker.seen \/ OnNewestPage("to-read") THEN GoTo("destroy")
        ELSE Ends("ok")
     /\ UNCHANGED faults
  \/ Raises  \* in book_on_shelf

Confirm ==
  /\ At("confirm") /\ Decide
  /\ UNCHANGED <<goodreads, formats, row, switch, recon, crashes, hands, toggles>>

(* remove_from_to_read: the review is destroyed, and with it every shelf.    *)
(* A book that is added after that is a new one.                             *)
Destroy ==
  /\ At("destroy")
  /\ \/ shelves' = {} /\ deep' = {} /\ GoTo("again") /\ UNCHANGED faults
     \/ /\ Raises
        /\ \/ UNCHANGED <<shelves, deep>>
           \/ shelves' = {} /\ deep' = {}
  /\ UNCHANGED <<made, formats, row, switch, recon, crashes, hands, toggles>>

(* A mutant: there is nothing to put back.                                   *)
LeavesItThere ==
  /\ At("again") /\ Ends("ok")
  /\ UNCHANGED <<goodreads, formats, row, switch, recon, bounds>>

AddBack ==
  /\ At("again") /\ Add("reconfirm")
  /\ UNCHANGED <<made, deep, formats, row, switch, recon, crashes, hands, toggles>>

ConfirmBack ==
  /\ At("reconfirm")
  /\ \/ Ends(IF Confirmed THEN "ok" ELSE "failed") /\ UNCHANGED faults
     \/ Raises
  /\ UNCHANGED <<goodreads, formats, row, switch, recon, crashes, hands, toggles>>

(* A mutant: the shelf is not recorded.                                      *)
ForgetsShelf ==
  /\ At("done")
  /\ row' = [row EXCEPT !.status = worker.res]
  /\ worker' = Idle
  /\ UNCHANGED <<goodreads, formats, switch, recon, bounds>>

(* mark_done: the artifact of an earlier run stays if this one has none, a   *)
(* wait is no attempt.                                                       *)
MarkDone ==
  /\ At("done")
  /\ row' = [status |-> worker.res,
             attempts |-> IF worker.res = "blocked" /\ row.attempts > 0
                          THEN row.attempts - 1 ELSE row.attempts,
             artifact |-> IF worker.res = "ok" THEN worker.shelf ELSE row.artifact]
  /\ worker' = Idle
  /\ UNCHANGED <<goodreads, formats, switch, recon, bounds>>

-----------------------------------------------------------------------------
(* reconcile                                                               *)

(* The rows first: only books that were shelved are compared.                *)
ReadRow ==
  /\ recon = Resting /\ row.status = "ok"
  /\ recon' = [Resting EXCEPT !.pc = "read", !.expected = row.artifact]
  /\ UNCHANGED <<goodreads, formats, row, switch, worker, bounds>>

(* Then one shelf after the other.  One that does not exist shows every book.*)
ReadShelf ==
  /\ recon.pc = "read" /\ recon.at <= Len(Order)
  /\ LET s == Order[recon.at]
         shown == s \in shelves \/ (s \in Collected \ made /\ shelves # {})
     IN  \/ /\ recon' = [recon EXCEPT !.at = @ + 1, !.on = IF shown THEN @ \cup {s} ELSE @]
            /\ UNCHANGED faults
         \/ Fault /\ recon' = Resting
  /\ UNCHANGED <<goodreads, formats, row, switch, worker, crashes, hands, toggles>>

(* A mutant: only the shelf that was recorded is looked for.                 *)
MissingOnly == recon.expected \notin recon.on

Drifted == recon.expected \notin recon.on \/ "to-read" \in recon.on

(* reset_stage for a book that is not where it was recorded.                 *)
Judge ==
  /\ recon.pc = "read" /\ recon.at > Len(Order)
  /\ row' = IF Drifted THEN NoRow ELSE row
  /\ recon' = Resting
  /\ UNCHANGED <<goodreads, formats, switch, worker, bounds>>

-----------------------------------------------------------------------------
(* Around it.                                                              *)

(* Another format is collected, by the worker that runs the stages of the    *)
(* book: shelve is reset.                                                    *)
Collect(f) ==
  /\ worker = Idle /\ f \notin formats
  /\ formats' = formats \cup {f} /\ row' = NoRow
  /\ UNCHANGED <<goodreads, switch, worker, recon, bounds>>

(* The operator turns a switch.                                              *)
Toggle ==
  /\ toggles < MaxToggles /\ toggles' = toggles + 1
  /\ \/ switch' = [switch EXCEPT !.book = ~@]
     \/ switch' = [switch EXCEPT !.all = ~@]
  /\ UNCHANGED <<goodreads, formats, row, worker, recon, faults, crashes, hands>>

(* The reader moves the book: anywhere, or off all shelves.                  *)
MoveByHand ==
  /\ hands < MaxHands /\ hands' = hands + 1
  /\ shelves' \in {s \cup c : s \in {{}, {"to-read"}, {"read"}}, c \in SUBSET (shelves \cap Collected)}
  /\ UNCHANGED <<made, deep, formats, row, switch, worker, recon, faults, crashes, toggles>>

Crash ==
  /\ crashes < MaxCrash /\ crashes' = crashes + 1
  /\ worker' = Idle /\ recon' = Resting
  /\ UNCHANGED <<goodreads, formats, row, switch, faults, hands, toggles>>

Init ==
  /\ shelves = {"to-read"} /\ made \in {{}, Collected}
  /\ deep \in {{}, {"to-read"}, {"to-read"} \cup Collected}
  /\ formats = {} /\ row = NoRow /\ switch = [book |-> TRUE, all |-> TRUE]
  /\ worker = Idle /\ recon = Resting
  /\ faults = 0 /\ crashes = 0 /\ hands = 0 /\ toggles = 0

Run == \/ Start \/ Choose \/ EnsureShelf \/ AddFirst \/ Confirm
       \/ Destroy \/ AddBack \/ ConfirmBack \/ MarkDone

Reconcile == ReadRow \/ ReadShelf \/ Judge

Next ==
  \/ Run \/ Reconcile
  \/ \E f \in Format : Collect(f)
  \/ Toggle \/ MoveByHand \/ Crash

Spec == Init /\ [][Next]_vars

(* The book gets its turns, and the reconciliation is made again and again.  *)
FairSpec == Spec /\ WF_vars(Run) /\ WF_vars(Reconcile)
-----------------------------------------------------------------------------
Rows ==
  [status : {"pending", "running", "ok", "failed", "skipped", "blocked"},
   attempts : 0..MaxAttempts + MaxCrash, artifact : Collected \cup {None}]

Workers ==
  [pc : {"idle", "run", "make", "add", "confirm", "destroy", "again", "reconfirm", "done"},
   auto : BOOLEAN, shelf : Collected \cup {None}, seen : SUBSET (Collected \cup Exclusive),
   res : {"none", "ok", "failed", "skipped", "blocked"}]

Recons ==
  [pc : {"idle", "read"}, at : 1..Len(Order) + 1,
   expected : Collected \cup {None}, on : SUBSET Range(Order)]

(* The variables have these types.  A stage that is stopped in the middle    *)
(* has spent an attempt.                                                     *)
TypeOK ==
  /\ shelves \subseteq Collected \cup Exclusive /\ made \subseteq Collected
  /\ deep \subseteq Range(Order) /\ formats \subseteq Format
  /\ row \in Rows
  /\ row.status = "ok" => row.artifact \in Collected
  /\ switch \in [book : BOOLEAN, all : BOOLEAN]
  /\ worker \in Workers /\ recon \in Recons
  /\ faults \in 0..MaxFaults /\ crashes \in 0..MaxCrash
  /\ hands \in 0..MaxHands /\ toggles \in 0..MaxToggles

(* A book that is recorded as shelved is on that shelf, whatever requests    *)
(* failed and wherever the process stopped, unless the reader moved it.      *)
RecordIsTrue == hands = 0 /\ row.status = "ok" => row.artifact \in shelves

(* A run that no request failed in leaves the book on some shelf: it has not *)
(* dropped out of the account, in which nobody would miss it.                *)
NeverDropped ==
  faults = 0 /\ crashes = 0 /\ hands = 0 => (worker = Idle => shelves # {})

(* What the row is to _advance, and this stage to the others: see StageRows.  *)
Fate == IF row.status \in {"ok", "skipped"} THEN "finished" ELSE IF Parked THEN "parked" ELSE "open"

Contract ==
  INSTANCE StageRows WITH
    Stage <- {"shelve"}, None <- "none",
    state <- [s \in {"shelve"} |-> Fate],
    run <- IF worker.pc # "idle" THEN "shelve" ELSE "none"

(* The stage is to the other stages what every stage is: begun only when its  *)
(* row is neither finished nor parked, which only the end of its run can     *)
(* make it, and a reset unmake (mark_running, mark_done and reset_stage).    *)
KeepsContract == Contract!Spec

(* The book is where it belongs.                                             *)
InPlace == formats # {} => ShelfOf(formats) \in shelves /\ "to-read" \notin shelves

(* Whatever failed or was moved by hand, the book ends where it belongs, for *)
(* good, unless the operator has switched that off or the stage is parked.   *)
PutRight == <>[](InPlace \/ Parked \/ ~switch.book \/ ~switch.all)

=============================================================================
