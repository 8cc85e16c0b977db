-------------------------------- MODULE Refile --------------------------------
(***************************************************************************)
(* The two commands of app/cli.py that give a book another category, and   *)
(* the one ebook they do it to: `reclassify --apply` moves the file, its   *)
(* record and the category after it, and has index and notebook done       *)
(* again; `backfill-genres` has place done again.  Both write in several   *)
(* steps, can be interrupted between any two, and run in a process of      *)
(* their own, beside the sweeps that file and announce the book.           *)
(***************************************************************************)
EXTENDS Integers, FiniteSets

CONSTANTS
  Category,      \* the categories of categories.yml
  Folder,        \* the folder of each
  Notebook,      \* and its notebook
  MaxEdits,      \* bound: changes of the rules
  MaxCuts,       \* bound: commands that are interrupted
  MaxBackfills,  \* bound: runs of backfill-genres
  MaxLosses      \* bound: files removed by somebody else

Staging == "staging"
None == "none"

ASSUME FolderAssumption ==
  /\ Category # {}
  /\ DOMAIN Folder = Category /\ DOMAIN Notebook = Category
  /\ \A c \in Category : Folder[c] \notin {Staging, None}

ASSUME BoundAssumption ==
  /\ MaxEdits \in Nat /\ MaxCuts \in Nat /\ MaxBackfills \in Nat /\ MaxLosses \in Nat

VARIABLES
  rules,     \* the category that the rules give the book now
  category,  \* books.category
  file,      \* the folders that hold a copy of the ebook
  place,     \* the folder in place's output_path
  index,     \* status of index and what follows: pending or ok
  told,      \* the folder and the notebook that the services were told
  worker,    \* the sweep that has listed the book, and its thread
  command,   \* the command that is at the book
  clean,     \* reclassify has come to its end since the rules changed
  beside,    \* a command has been at the book that a sweep had listed
  edits, cuts, backfills, losses

rows == <<category, place, index>>
bounds == <<edits, cuts, backfills, losses>>
vars == <<rules, rows, file, told, worker, command, clean, beside, bounds>>

-----------------------------------------------------------------------------
Folders == {Folder[c] : c \in Category}

Nobody == [pc |-> "idle", cat |-> None, placed |-> FALSE]

Away == [pc |-> "idle", cat |-> None, kind |-> None, from |-> None, to |-> None,
         reset |-> FALSE]

Nowhere == <<None, None>>

Destination(c) == <<Folder[c], Notebook[c]>>

(* A mutant: the file is copied.                                             *)
Copied(from, to) == file' = file \cup {to}

(* What a move leaves: the file is renamed, never copied.                    *)
Renamed(from, to) == file' = (file \ {from}) \cup {to}

-----------------------------------------------------------------------------
(* The sweep.                                                              *)

(* list_books: what the sweep does with the book, up to its budget of time   *)
(* later, goes by the category and the rows of now.                          *)
List ==
  /\ worker = Nobody /\ (place = None \/ index = "pending")
  /\ worker' = [pc |-> "listed", cat |-> category, placed |-> place # None]
  /\ beside' = (beside \/ command # Away)
  /\ UNCHANGED <<rules, rows, file, told, command, clean, bounds>>

(* A worker takes the book.                                                  *)
Begin ==
  /\ worker.pc = "listed"
  /\ worker' = [worker EXCEPT !.pc = IF worker.placed THEN "tell" ELSE "place"]
  /\ UNCHANGED <<rules, rows, file, told, command, clean, beside, bounds>>

(* The time of the sweep is over before it comes to the book.                *)
PassOver ==
  /\ worker.pc = "listed" /\ worker' = Nobody
  /\ UNCHANGED <<rules, rows, file, told, command, clean, beside, bounds>>

(* place: the ebook is in the folder of its category, or it is in staging,   *)
(* or the stage waits.                                                       *)
Place ==
  /\ worker.pc = "place"
  /\ LET home == Folder[worker.cat]
     IN  \/ home \in file /\ UNCHANGED file /\ place' = home
         \/ home \notin file /\ Staging \in file /\ Renamed(Staging, home) /\ place' = home
         \/ file \cap {home, Staging} = {} /\ UNCHANGED <<file, place>>
  /\ worker' = IF place' = None THEN Nobody ELSE [worker EXCEPT !.pc = "tell"]
  /\ UNCHANGED <<rules, category, index, told, command, clean, beside, bounds>>

(* index and notebook.                                                       *)
Tell ==
  /\ worker.pc = "tell"
  /\ told' = <<place, Notebook[worker.cat]>>
  /\ worker' = [worker EXCEPT !.pc = "mark"]
  /\ UNCHANGED <<rules, rows, file, command, clean, beside, bounds>>

MarkDone ==
  /\ worker.pc = "mark"
  /\ index' = "ok" /\ worker' = Nobody
  /\ UNCHANGED <<rules, category, place, file, told, command, clean, beside, bounds>>

-----------------------------------------------------------------------------
(* cli reclassify --apply                                                  *)


(* _plan_refile: what has to happen to the file.  One that is in the new     *)
(* folder already, whatever the record says, was moved by a run that was     *)
(* interrupted.                                                              *)
PlanRefile(new) ==
  IF place = None THEN [kind |-> "not placed", from |-> None, to |-> None]
  ELSE IF place = Folder[new] THEN [kind |-> "in place", from |-> None, to |-> place]
  ELSE IF place \in file THEN [kind |-> "move", from |-> place, to |-> Folder[new]]
  ELSE IF Folder[new] \in file THEN [kind |-> "in place", from |-> None, to |-> Folder[new]]
  ELSE [kind |-> "missing", from |-> None, to |-> None]

(* The plan, of a book whose category is not the one of the rules.  A book   *)
(* whose file is missing is left alone.                                      *)
Plan ==
  /\ command = Away /\ beside' = (beside \/ worker # Nobody)
  /\ LET plan == PlanRefile(rules)
     IN  IF category = rules THEN clean' = TRUE /\ UNCHANGED command
         ELSE IF plan.kind = "missing" THEN UNCHANGED <<command, clean>>
         ELSE /\ command' =
                   [pc |-> IF plan.kind = "move" THEN "move" ELSE "record", cat |-> rules,
                    kind |-> plan.kind, from |-> plan.from, to |-> plan.to,
                    reset |-> /\ Destination(category) # Destination(rules)
                              /\ plan.kind \in {"move", "in place"}]
              /\ UNCHANGED clean
  /\ UNCHANGED <<rules, rows, file, told, worker, bounds>>

(* move_into_place.  If the file is gone, nothing is written.                *)
Move ==
  /\ command.pc = "move"
  /\ IF command.from \in file
     THEN Renamed(command.from, command.to) /\ command' = [command EXCEPT !.pc = "record"]
     ELSE UNCHANGED file /\ command' = Away
  /\ UNCHANGED <<rules, rows, told, worker, clean, beside, bounds>>

(* A mutant: only a file that was moved has its record written.              *)
RecordsAMove ==
  /\ command.pc = "record"
  /\ place' = IF command.kind = "move" THEN command.to ELSE place
  /\ command' = [command EXCEPT !.pc = "categorise"]
  /\ UNCHANGED <<rules, category, index, file, told, worker, clean, beside, bounds>>

(* set_output of place, if it has one.                                       *)
Record ==
  /\ command.pc = "record"
  /\ place' = IF command.to # None /\ place # None THEN command.to ELSE place
  /\ command' = [command EXCEPT !.pc = "categorise"]
  /\ UNCHANGED <<rules, category, index, file, told, worker, clean, beside, bounds>>

(* A mutant: the folder is written for the category.                         *)
WritesTheFolder ==
  /\ command.pc = "categorise"
  /\ category' = Folder[command.cat]
  /\ command' = [command EXCEPT !.pc = "reset"]
  /\ UNCHANGED <<rules, place, index, file, told, worker, clean, beside, bounds>>

SetCategory ==
  /\ command.pc = "categorise"
  /\ category' = command.cat
  /\ command' = [command EXCEPT !.pc = "reset"]
  /\ UNCHANGED <<rules, place, index, file, told, worker, clean, beside, bounds>>

(* A mutant: only a file that was moved has the services told again.         *)
ResetsIfMoved ==
  /\ command.pc = "reset"
  /\ index' = IF command.kind = "move" THEN "pending" ELSE index
  /\ command' = Away /\ clean' = (rules = command.cat)
  /\ UNCHANGED <<rules, category, place, file, told, worker, beside, bounds>>

(* reset_stage of index, and the end.                                        *)
ResetIndex ==
  /\ command.pc = "reset"
  /\ index' = IF command.reset THEN "pending" ELSE index
  /\ command' = Away /\ clean' = (rules = command.cat)
  /\ UNCHANGED <<rules, category, place, file, told, worker, beside, bounds>>

-----------------------------------------------------------------------------
(* cli backfill-genres, where it finds that the category has changed.      *)

Backfill ==
  /\ command = Away /\ beside' = (beside \/ worker # Nobody)
  /\ backfills < MaxBackfills /\ backfills' = backfills + 1
  /\ category # rules /\ category' = rules
  /\ command' = [Away EXCEPT !.pc = "replace"]
  /\ UNCHANGED <<rules, place, index, file, told, worker, clean, edits, cuts, losses>>

(* reset_stage of place, and of all behind it.                               *)
ResetPlace ==
  /\ command.pc = "replace"
  /\ place' = None /\ index' = "pending" /\ command' = Away
  /\ UNCHANGED <<rules, category, file, told, worker, clean, beside, bounds>>

-----------------------------------------------------------------------------
(* Around it.                                                              *)

(* The operator edits categories.yml: a command has read it at its start.    *)
EditRules ==
  /\ edits < MaxEdits /\ edits' = edits + 1
  /\ rules' \in Category \ {rules} /\ clean' = FALSE
  /\ UNCHANGED <<rows, file, told, worker, command, beside, cuts, backfills, losses>>

Interrupted ==
  /\ command # Away /\ cuts < MaxCuts /\ cuts' = cuts + 1
  /\ command' = Away
  /\ UNCHANGED <<rules, rows, file, told, worker, clean, beside, edits, backfills, losses>>

Lost ==
  /\ losses < MaxLosses /\ losses' = losses + 1
  /\ \E f \in file : file' = file \ {f}
  /\ UNCHANGED <<rules, rows, told, worker, command, clean, beside, edits, cuts, backfills>>

Init ==
  /\ rules \in Category /\ category = rules
  /\ file = {Staging} /\ place = None /\ index = "pending" /\ told = Nowhere
  /\ worker = Nobody /\ command = Away /\ clean = TRUE /\ beside = FALSE
  /\ edits = 0 /\ cuts = 0 /\ backfills = 0 /\ losses = 0

Sweep == List \/ Begin \/ PassOver \/ Place \/ Tell \/ MarkDone

Reclassify == Plan \/ Move \/ Record \/ SetCategory \/ ResetIndex

Next ==
  \/ Sweep \/ Reclassify \/ Backfill \/ ResetPlace
  \/ EditRules \/ Interrupted \/ Lost

Spec == Init /\ [][Next]_vars

(* Sweeps go on, and the operator runs the command again until it is done.   *)
FairSpec ==
  /\ Spec
  /\ SF_vars(List) /\ SF_vars(Begin) /\ WF_vars(Place) /\ WF_vars(Tell) /\ WF_vars(MarkDone)
  /\ SF_vars(Plan) /\ WF_vars(Move \/ Record \/ SetCategory \/ ResetIndex)
  /\ WF_vars(ResetPlace)

-----------------------------------------------------------------------------
(* What the commands promise.                                              *)

(* Every variable has its type.                                              *)
TypeOK ==
  /\ rules \in Category /\ category \in Category
  /\ file \subseteq Folders \cup {Staging}
  /\ place \in Folders \cup {None} /\ index \in {"pending", "ok"}
  /\ told \in ((Folders \cup {None}) \X {Notebook[c] : c \in Category}) \cup {Nowhere}
  /\ worker \in {Nobody} \cup
                [pc : {"listed", "place", "tell", "mark"}, cat : Category, placed : BOOLEAN]
  /\ command.pc \in {"idle", "move", "record", "categorise", "reset", "replace"}
  /\ clean \in BOOLEAN /\ beside \in BOOLEAN
  /\ edits \in 0 .. MaxEdits /\ cuts \in 0 .. MaxCuts
  /\ backfills \in 0 .. MaxBackfills /\ losses \in 0 .. MaxLosses

(* There is never a second copy of a book, however commands and sweeps       *)
(* interleave and wherever they are interrupted.                             *)
OneCopy == Cardinality(file) <= 1

(* What an interrupted command left is not overtaken: the rules did not      *)
(* change once more, and it was not backfill-genres that was interrupted.    *)
Resumable == cuts = 0 \/ (edits <= 1 /\ backfills = 0)

(* Where reclassify has come to its end, also after it was interrupted, the  *)
(* category is the one of the rules, the recorded path is in its folder, and *)
(* the file is there; as long as no command was at the book between a        *)
(* sweep's listing it and the end of that sweep with it.                     *)
Agrees ==
  clean /\ ~beside /\ Resumable =>
    /\ category = rules
    /\ place # None => place = Folder[rules] /\ (place \in file \/ losses > 0)

(* It leaves no service with the old path: unless it was interrupted, or was *)
(* at a book that a sweep had listed, what Kavita and Open Notebook were     *)
(* told is where the book is, or they are to be told again.                  *)
Serviced ==
  clean /\ ~beside /\ cuts = 0 => index = "pending" \/ told = Destination(rules)

(* The same of a command that was interrupted and run again: "the next run   *)
(* reads back correctly" what a run leaves that is interrupted anywhere.     *)
ResumesServices ==
  clean /\ ~beside => index = "pending" \/ told = Destination(rules)

(* A library whose rules no longer change comes to rest with the category,   *)
(* the record, and the file where the rules have them, wherever the command  *)
(* was interrupted, and with the services there too if it was not.           *)
Settles ==
  <>[](backfills = 0 /\ losses = 0 /\ ~beside /\ Resumable =>
         /\ category = rules /\ place = Folder[rules] /\ place \in file
         /\ cuts = 0 => told = Destination(rules))
=============================================================================
