----------------------------- MODULE RefileProofs -----------------------------
(***************************************************************************)
(* Of any categories and folders, and any bounds: the types, that there is *)
(* one copy of a book at most, that record, category and file agree where  *)
(* reclassify has come to its end, and that the services have been told.   *)
(***************************************************************************)
EXTENDS Refile, FiniteSetTheorems, TLAPS

-----------------------------------------------------------------------------
(* The command.                                                            *)

Kinds == {"not placed", "in place", "move"}

Commands ==
  [pc : {"idle", "move", "record", "categorise", "reset", "replace"},
   cat : Category \cup {None}, kind : Kinds \cup {None},
   from : Folders \cup {None}, to : Folders \cup {None}, reset : BOOLEAN]

Running == {"move", "record", "categorise", "reset"}

LEMMA Destinations ==
  /\ \A c \in Category : Folder[c] \in Folders /\ Folder[c] # None /\ Folder[c] # Staging
  /\ None \notin Folders /\ Staging \notin Folders /\ None # Staging
BY FolderAssumption DEF Folders, None, Staging

LEMMA AwayIs ==
  /\ Away \in Commands /\ Away.pc = "idle"
  /\ Nobody.pc = "idle" /\ ~Nobody.placed
BY DEF Away, Commands, Nobody

(* The next step of a command is the same command.                           *)
LEMMA TurnedTo ==
  ASSUME command \in Commands, NEW p \in Running, command' = [command EXCEPT !.pc = p]
  PROVE  /\ command' \in Commands /\ command'.pc = p
         /\ command'.cat = command.cat /\ command'.kind = command.kind
         /\ command'.from = command.from /\ command'.to = command.to
         /\ command'.reset = command.reset
BY DEF Commands, Running

(* What Plan decides.                                                        *)
Planned ==
  \/ category = rules /\ clean' = TRUE /\ command' = command
  \/ category # rules /\ clean' = clean /\ command' = command
  \/ /\ category # rules /\ clean' = clean
     /\ command' \in Commands /\ command'.cat = rules /\ command'.pc \in {"move", "record"}
     /\ command'.pc = "move" <=> command'.kind = "move"
     /\ command'.reset <=> /\ command'.kind # "not placed"
                           /\ Destination(category) # Destination(rules)
     /\ \/ command'.kind = "not placed" /\ place = None /\ command'.to = None
        \/ /\ command'.kind = "in place" /\ place # None /\ command'.to = Folder[rules]
           /\ place = Folder[rules] \/ Folder[rules] \in file
        \/ /\ command'.kind = "move" /\ place # None /\ command'.to = Folder[rules]
           /\ place \in file /\ command'.from = place

LEMMA PlanDecides ==
  ASSUME rules \in Category, place \in Folders \cup {None}, Plan
  PROVE  Planned
<1>. DEFINE plan == PlanRefile(rules)
            made == [pc |-> IF plan.kind = "move" THEN "move" ELSE "record", cat |-> rules,
                     kind |-> plan.kind, from |-> plan.from, to |-> plan.to,
                     reset |-> /\ Destination(category) # Destination(rules)
                               /\ plan.kind \in {"move", "in place"}]
            is(k, f, t) == plan.kind = k /\ plan.from = f /\ plan.to = t
<1>1. Folder[rules] \in Folders /\ None \notin Folders
  BY Destinations
<1>2. \/ category = rules /\ clean' = TRUE /\ command' = command
      \/ category # rules /\ clean' = clean /\ command' = command
      \/ category # rules /\ clean' = clean /\ command' = made /\ plan.kind # "missing"
  BY DEF Plan
<1>3. \/ is("not placed", None, None) /\ place = None
      \/ is("in place", None, place) /\ place # None /\ place = Folder[rules]
      \/ is("move", place, Folder[rules]) /\ place # None /\ place \in file
      \/ is("in place", None, Folder[rules]) /\ place # None /\ Folder[rules] \in file
      \/ is("missing", None, None)
  BY DEF PlanRefile
<1>4. ASSUME command' = made, plan.kind # "missing"
      PROVE  /\ command' \in Commands /\ command'.cat = rules
             /\ command'.pc = IF plan.kind = "move" THEN "move" ELSE "record"
             /\ command'.kind = plan.kind /\ command'.from = plan.from /\ command'.to = plan.to
             /\ command'.reset <=> /\ Destination(category) # Destination(rules)
                                   /\ plan.kind \in {"move", "in place"}
  <2>1. plan.kind \in Kinds /\ plan.from \in Folders \cup {None} /\ plan.to \in Folders \cup {None}
    BY <1>1, <1>3, <1>4 DEF Kinds
  <2>. HIDE DEF plan
  <2>. QED BY <1>4, <2>1 DEF Commands
<1>5. CASE command' = made /\ plan.kind # "missing" /\ category # rules /\ clean' = clean
  <2>. HIDE DEF plan, made
  <2>. QED BY <1>3, <1>4, <1>5 DEF Planned
<1>. QED BY <1>2, <1>5 DEF Planned

-----------------------------------------------------------------------------
(* Types.                                                                  *)

BookTyped ==
  /\ rules \in Category /\ category \in Category
  /\ file \subseteq Folders \cup {Staging}
  /\ place \in Folders \cup {None} /\ index \in {"pending", "ok"}
  /\ clean \in BOOLEAN /\ beside \in BOOLEAN

ToldTyped == told \in ((Folders \cup {None}) \X {Notebook[c] : c \in Category}) \cup {Nowhere}

Workers == [pc : {"listed", "place", "tell", "mark"}, cat : Category, placed : BOOLEAN]

WorkerTyped ==
  worker = Nobody \/ /\ worker \in Workers
                     /\ worker # Nobody

CountsTyped ==
  /\ edits \in 0 .. MaxEdits /\ cuts \in 0 .. MaxCuts
  /\ backfills \in 0 .. MaxBackfills /\ losses \in 0 .. MaxLosses

CommandTyped ==
  /\ command \in Commands
  /\ command.pc = "idle" => command = Away
  /\ command.pc \in Running =>
       /\ command.cat \in Category /\ command.kind \in Kinds
       /\ command.kind = "move" => command.from \in Folders
       /\ command.to = IF command.kind = "not placed" THEN None ELSE Folder[command.cat]
  /\ command.pc = "move" => command.kind = "move"

Typed == BookTyped /\ ToldTyped /\ WorkerTyped /\ CountsTyped /\ CommandTyped

LEMMA TypedIsTypeOK == Typed => TypeOK
BY DEF Typed, TypeOK, BookTyped, ToldTyped, WorkerTyped, Workers, CountsTyped, CommandTyped,
  Commands

LEMMA InitTyped == Init => Typed
<1>. SUFFICES ASSUME Init PROVE Typed
  OBVIOUS
<1>1. BookTyped /\ WorkerTyped /\ ToldTyped
  BY DEF Init, BookTyped, WorkerTyped, ToldTyped
<1>2. CountsTyped
  BY BoundAssumption DEF Init, CountsTyped
<1>3. CommandTyped
  BY AwayIs DEF Init, CommandTyped, Running
<1>. QED BY <1>1, <1>2, <1>3 DEF Typed

LEMMA StepCounts == CountsTyped /\ [Next]_vars => CountsTyped'
<1>. SUFFICES ASSUME CountsTyped, [Next]_vars PROVE CountsTyped'
  OBVIOUS
<1>0. /\ MaxEdits \in Nat /\ MaxCuts \in Nat
      /\ MaxBackfills \in Nat /\ MaxLosses \in Nat
  BY BoundAssumption
<1>1. CASE Backfill
  BY <1>1, <1>0 DEF Backfill, rows, bounds, CountsTyped
<1>2. CASE EditRules
  BY <1>2, <1>0 DEF EditRules, rows, bounds, CountsTyped
<1>3. CASE Interrupted
  BY <1>3, <1>0 DEF Interrupted, rows, bounds, CountsTyped
<1>4. CASE Lost
  BY <1>4, <1>0 DEF Lost, rows, bounds, CountsTyped
<1>5. CASE UNCHANGED <<edits, cuts, backfills, losses>>
  BY <1>5, <1>0 DEF CountsTyped
<1>. QED
  BY <1>1, <1>2, <1>3, <1>4, <1>5 DEF Next, Sweep, Reclassify, List, Begin, PassOver, Place, Tell, MarkDone,
    Plan, Move, Record, SetCategory, ResetIndex, ResetPlace, rows, bounds, vars

LEMMA StepWorker == BookTyped /\ WorkerTyped /\ [Next]_vars => WorkerTyped'
<1>. SUFFICES ASSUME BookTyped, WorkerTyped, [Next]_vars PROVE WorkerTyped'
  OBVIOUS
<1>0. category \in Category
  BY DEF BookTyped
<1>1. CASE List
  BY <1>1, <1>0 DEF List, Nobody, rows, bounds, WorkerTyped, Workers
<1>6. CASE Begin
  BY <1>6, <1>0 DEF Begin, Nobody, rows, bounds, WorkerTyped, Workers
<1>7. CASE PassOver
  BY <1>7, <1>0 DEF PassOver, WorkerTyped
<1>2. CASE Place
  BY <1>2, <1>0 DEF Place, Nobody, rows, bounds, WorkerTyped, Workers
<1>3. CASE Tell
  BY <1>3, <1>0 DEF Tell, Nobody, rows, bounds, WorkerTyped, Workers
<1>4. CASE MarkDone
  BY <1>4, <1>0 DEF MarkDone, rows, bounds, WorkerTyped
<1>5. CASE UNCHANGED worker
  BY <1>5, <1>0 DEF WorkerTyped
<1>. QED
  BY <1>1, <1>2, <1>3, <1>4, <1>5, <1>6, <1>7 DEF Next, Sweep, Reclassify, Plan, Move, Record, SetCategory,
    ResetIndex, Backfill, ResetPlace, EditRules, Interrupted, Lost, rows, bounds, vars

LEMMA StepCommand == BookTyped /\ CommandTyped /\ [Next]_vars => CommandTyped'
<1>. SUFFICES ASSUME BookTyped, CommandTyped, [Next]_vars PROVE CommandTyped'
  OBVIOUS
<1>0. /\ rules \in Category /\ place \in Folders \cup {None}
      /\ command \in Commands /\ \A c \in Category : Folder[c] \in Folders
  BY Destinations DEF BookTyped, CommandTyped
<1>1. CASE Plan
  BY <1>1, <1>0, PlanDecides DEF Plan, Planned, Kinds, rows, bounds, CommandTyped, Running
<1>2. CASE Move
  BY <1>2, <1>0, TurnedTo, AwayIs DEF Move, rows, bounds, CommandTyped, Running
<1>3. CASE Record
  BY <1>3, <1>0, TurnedTo DEF Record, rows, bounds, CommandTyped, Running
<1>4. CASE SetCategory
  BY <1>4, <1>0, TurnedTo DEF SetCategory, rows, bounds, CommandTyped, Running
<1>5. CASE ResetIndex
  BY <1>5, <1>0, AwayIs DEF ResetIndex, rows, bounds, CommandTyped, Running
<1>6. CASE Backfill
  BY <1>6, <1>0, AwayIs DEF Backfill, Away, Commands, rows, bounds, CommandTyped, Running
<1>7. CASE ResetPlace
  BY <1>7, <1>0, AwayIs DEF ResetPlace, rows, bounds, CommandTyped, Running
<1>8. CASE Interrupted
  BY <1>8, <1>0, AwayIs DEF Interrupted, rows, bounds, CommandTyped, Running
<1>9. CASE UNCHANGED <<command>>
  BY <1>9, <1>0 DEF CommandTyped, Running
<1>. QED
  BY <1>1, <1>2, <1>3, <1>4, <1>5, <1>6, <1>7, <1>8, <1>9 DEF Next, Sweep, Reclassify, List, Begin, PassOver,
    Place, Tell, MarkDone, EditRules, Lost, rows, bounds, vars

LEMMA StepBook == BookTyped /\ WorkerTyped /\ CommandTyped /\ [Next]_vars => BookTyped'
<1>. SUFFICES ASSUME BookTyped, WorkerTyped, CommandTyped, [Next]_vars PROVE BookTyped'
  OBVIOUS
<1>0. /\ \A c \in Category : Folder[c] \in Folders
      /\ worker # Nobody => worker.cat \in Category
      /\ command.pc \in Running => /\ command.cat \in Category
                                   /\ command.to \in Folders \cup {None}
      /\ command.pc = "move" => command.to \in Folders
  BY Destinations DEF WorkerTyped, Workers, CommandTyped, Running
<1>1. CASE List
  BY <1>1, <1>0 DEF List, rows, bounds, BookTyped
<1>2. CASE Place
  BY <1>2, <1>0, AwayIs DEF Place, Renamed, rows, bounds, BookTyped
<1>3. CASE MarkDone
  BY <1>3, <1>0 DEF MarkDone, rows, bounds, BookTyped
<1>4. CASE Plan
  BY <1>4, <1>0 DEF Plan, rows, bounds, BookTyped
<1>5. CASE Move
  BY <1>5, <1>0 DEF Move, Renamed, rows, bounds, BookTyped
<1>6. CASE Record
  BY <1>6, <1>0 DEF Record, Running, rows, bounds, BookTyped
<1>7. CASE SetCategory
  BY <1>7, <1>0 DEF SetCategory, Running, rows, bounds, BookTyped
<1>8. CASE ResetIndex
  BY <1>8, <1>0 DEF ResetIndex, Running, rows, bounds, BookTyped
<1>9. CASE Backfill
  BY <1>9, <1>0 DEF Backfill, rows, bounds, BookTyped
<1>10. CASE ResetPlace
  BY <1>10, <1>0 DEF ResetPlace, rows, bounds, BookTyped
<1>11. CASE EditRules
  BY <1>11, <1>0 DEF EditRules, rows, bounds, BookTyped
<1>12. CASE Lost
  BY <1>12, <1>0 DEF Lost, rows, bounds, BookTyped
<1>13. CASE UNCHANGED <<rules, category, file, place, index, clean, beside>>
  BY <1>13, <1>0 DEF BookTyped
<1>. QED
  BY <1>1, <1>2, <1>3, <1>4, <1>5, <1>6, <1>7, <1>8, <1>9, <1>10, <1>11, <1>12, <1>13 DEF Next,
    Sweep, Begin, PassOver, Reclassify, Tell, Interrupted, rows, bounds, vars

LEMMA StepTold == BookTyped /\ WorkerTyped /\ ToldTyped /\ [Next]_vars => ToldTyped'
<1>. SUFFICES ASSUME BookTyped, WorkerTyped, ToldTyped, [Next]_vars PROVE ToldTyped'
  OBVIOUS
<1>0. /\ place \in Folders \cup {None}
      /\ worker # Nobody => worker.cat \in Category
  BY DEF BookTyped, WorkerTyped, Workers
<1>1. CASE Tell
  BY <1>1, <1>0, AwayIs DEF Tell, rows, bounds, ToldTyped
<1>2. CASE UNCHANGED <<told>>
  BY <1>2, <1>0 DEF ToldTyped
<1>. QED
  BY <1>1, <1>2 DEF Next, Sweep, Reclassify, List, Begin, PassOver, Place, MarkDone, Plan, Move, Record,
    SetCategory, ResetIndex, Backfill, ResetPlace, EditRules, Interrupted, Lost, rows, bounds,
    vars

LEMMA StepTyped == Typed /\ [Next]_vars => Typed'
BY StepCounts, StepWorker, StepCommand, StepBook, StepTold DEF Typed

(* Every variable keeps its type, whatever is interrupted, edited or lost.   *)
THEOREM TypeCorrect == Spec => []TypeOK
BY TypedIsTypeOK, InitTyped, StepTyped, PTL DEF Spec

-----------------------------------------------------------------------------
(* One copy.                                                               *)

Single == \A f, g \in file : f = g

LEMMA StepSingle == Single /\ [Next]_vars => Single'
<1>. SUFFICES ASSUME Single, [Next]_vars PROVE Single'
  OBVIOUS
<1>1. CASE Place
  BY <1>1 DEF Place, Renamed, rows, bounds, Single
<1>2. CASE Move
  BY <1>2 DEF Move, Renamed, rows, bounds, Single
<1>3. CASE Lost
  BY <1>3 DEF Lost, rows, bounds, Single
<1>4. CASE UNCHANGED <<file>>
  BY <1>4 DEF Single
<1>. QED
  BY <1>1, <1>2, <1>3, <1>4 DEF Next, Sweep, Reclassify, List, Begin, PassOver, Tell, MarkDone, Plan, Record,
    SetCategory, ResetIndex, Backfill, ResetPlace, EditRules, Interrupted, rows, bounds, vars

(* There is never a second copy of a book.                                   *)
THEOREM NeverCopied == Spec => []OneCopy
<1>1. Init => Single
  BY DEF Init, Single
<1>2. Single => OneCopy
  <2>. SUFFICES ASSUME Single PROVE OneCopy
    OBVIOUS
  <2>1. CASE file = {}
    BY <2>1, FS_EmptySet DEF OneCopy
  <2>2. ASSUME NEW f \in file PROVE OneCopy
    <3>1. file = {f}
      BY DEF Single
    <3>2. Cardinality({f}) = 1
      BY FS_Singleton
    <3>. QED BY <3>1, <3>2 DEF OneCopy
  <2>. QED BY <2>1, <2>2
<1>. QED BY <1>1, <1>2, StepSingle, PTL DEF Spec

-----------------------------------------------------------------------------
(* Where a command and a sweep are not at the book at once.                *)

(* Only reclassify says that the library is clean, and a command has nothing *)
(* to do then.                                                               *)
Clean ==
  /\ clean => command = Away /\ category = rules
  /\ command.pc = "reset" => category = command.cat

(* While no command and no sweep are at the book at once, a worker has the   *)
(* category of the book.                                                     *)
Apart == ~beside /\ worker # Nobody => command = Away /\ worker.cat = category

LEMMA StepClean == Typed /\ Clean /\ [Next]_vars => Clean'
<1>. SUFFICES ASSUME Typed, Clean, [Next]_vars PROVE Clean'
  OBVIOUS
<1>0. /\ command \in Commands
      /\ command.pc \in Running => command # Away
      /\ rules \in Category /\ place \in Folders \cup {None}
  BY AwayIs DEF Typed, BookTyped, CommandTyped, Running
<1>1. CASE Plan
  <2>1. Planned
    BY <1>1, <1>0, PlanDecides
  <2>2. command = Away
    BY <1>1 DEF Plan
  <2>3. UNCHANGED rules /\ UNCHANGED category
    BY <1>1 DEF Plan, rows, bounds
  <2>4. command.pc = "idle" /\ (clean => category = rules)
    BY <2>2, AwayIs DEF Clean
  <2>5. CASE command' = command /\ (clean' => category = rules)
    BY <2>2, <2>3, <2>4, <2>5 DEF Clean
  <2>6. CASE ~clean' /\ command'.pc \in {"move", "record"}
    BY <2>6 DEF Clean
  <2>7. category # rules /\ clean' = clean => ~clean'
    BY <2>4
  <2>8. CASE category # rules /\ clean' = clean
    BY <2>1, <2>5, <2>6, <2>7, <2>8 DEF Planned
  <2>9. CASE category = rules
    BY <2>1, <2>5, <2>9 DEF Planned
  <2>. QED BY <2>1, <2>8, <2>9 DEF Planned
<1>2. CASE Move
  BY <1>2, <1>0, TurnedTo, AwayIs DEF Move, rows, bounds, Clean, Running
<1>3. CASE Record
  BY <1>3, <1>0, TurnedTo DEF Record, rows, bounds, Clean, Running
<1>4. CASE SetCategory
  BY <1>4, <1>0, TurnedTo DEF SetCategory, rows, bounds, Clean, Running
<1>5. CASE ResetIndex
  BY <1>5, <1>0, AwayIs DEF ResetIndex, rows, bounds, Clean, Running
<1>6. CASE Backfill
  BY <1>6, <1>0, AwayIs DEF Backfill, Away, rows, bounds, Clean, Running
<1>7. CASE ResetPlace
  BY <1>7, <1>0, AwayIs DEF ResetPlace, rows, bounds, Clean, Running
<1>8. CASE EditRules
  BY <1>8, <1>0 DEF EditRules, rows, bounds, Clean, Running
<1>9. CASE Interrupted
  BY <1>9, <1>0, AwayIs DEF Interrupted, rows, bounds, Clean, Running
<1>10. CASE UNCHANGED <<clean, command, category, rules>>
  BY <1>10, <1>0 DEF Clean, Running
<1>. QED
  BY <1>1, <1>2, <1>3, <1>4, <1>5, <1>6, <1>7, <1>8, <1>9, <1>10 DEF Next, Sweep, Reclassify,
    List, Begin, PassOver, Place, Tell, MarkDone, Lost, rows, bounds, vars

LEMMA StepApart == Typed /\ Apart /\ [Next]_vars => Apart'
<1>. SUFFICES ASSUME Typed, Apart, [Next]_vars PROVE Apart'
  OBVIOUS
<1>0. /\ command.pc \in Running => command # Away
      /\ command.pc = "replace" => command # Away
      /\ worker = Nobody \/ worker \in Workers
  BY AwayIs DEF Typed, WorkerTyped, CommandTyped, Running
<1>1. CASE List
  BY <1>1, <1>0 DEF List, Nobody, Workers, rows, bounds, Apart, Running
<1>2. CASE Place
  BY <1>2, <1>0 DEF Place, Nobody, Workers, rows, bounds, Apart, Running
<1>3. CASE Tell
  BY <1>3, <1>0 DEF Tell, Nobody, Workers, rows, bounds, Apart, Running
<1>4. CASE MarkDone
  BY <1>4, <1>0 DEF MarkDone, Nobody, Workers, rows, bounds, Apart, Running
<1>5. CASE Plan
  BY <1>5, <1>0 DEF Plan, rows, bounds, Apart, Running
<1>6. CASE Move
  BY <1>6, <1>0 DEF Move, rows, bounds, Apart, Running
<1>7. CASE Record
  BY <1>7, <1>0 DEF Record, rows, bounds, Apart, Running
<1>8. CASE SetCategory
  BY <1>8, <1>0 DEF SetCategory, rows, bounds, Apart, Running
<1>9. CASE ResetIndex
  BY <1>9, <1>0 DEF ResetIndex, rows, bounds, Apart, Running
<1>10. CASE Backfill
  BY <1>10, <1>0 DEF Backfill, Nobody, rows, bounds, Apart, Running
<1>11. CASE ResetPlace
  BY <1>11, <1>0 DEF ResetPlace, rows, bounds, Apart, Running
<1>12. CASE Interrupted
  BY <1>12, <1>0 DEF Interrupted, rows, bounds, Apart, Running
<1>13. CASE Begin
  BY <1>13, <1>0 DEF Begin, Nobody, Workers, rows, bounds, Apart, Running
<1>14. CASE PassOver
  BY <1>14, <1>0 DEF PassOver, Nobody, rows, bounds, Apart, Running
<1>15. CASE UNCHANGED <<beside, worker, command, category>>
  BY <1>15, <1>0 DEF Apart, Running
<1>. QED
  BY <1>1, <1>2, <1>3, <1>4, <1>5, <1>6, <1>7, <1>8, <1>9, <1>10, <1>11, <1>12, <1>13, <1>14,
     <1>15 DEF Next, Sweep, Reclassify, EditRules, Lost, rows, bounds, vars

(* What is recorded, if no command was interrupted: between commands the     *)
(* record is in the folder of the category.                                  *)

There(f) == f \in file \/ losses > 0

Filed(c) == place # None => place = Folder[c] /\ There(place)

AtRecord ==
  command.pc = "record" =>
    /\ command.kind # "not placed" => There(command.to)
    /\ place = None <=> command.kind = "not placed"

AtMove == command.pc = "move" => place # None /\ command.from = place

WholeCommands ==
  ~beside /\ cuts = 0 =>
    /\ command.pc \in {"idle", "move"} => Filed(category)
    /\ AtMove /\ AtRecord
    /\ command.pc \in {"categorise", "reset"} => Filed(command.cat)

LEMMA Counts == Typed => losses \in Nat /\ cuts \in Nat /\ edits \in Nat /\ backfills \in Nat
BY BoundAssumption DEF Typed, CountsTyped

LEMMA TypedParts ==
  ASSUME Typed
  PROVE  /\ command \in Commands /\ rules \in Category /\ category \in Category
         /\ place \in Folders \cup {None}
         /\ losses \in Nat /\ cuts \in Nat /\ edits \in Nat /\ backfills \in Nat
         /\ command.pc = "idle" => command = Away
         /\ command.pc \in Running =>
              /\ command # Away /\ command.cat \in Category /\ command.kind \in Kinds
              /\ command.to = IF command.kind = "not placed" THEN None ELSE Folder[command.cat]
         /\ command.pc = "move" => command.kind = "move"
         /\ Away.pc = "idle" /\ Nobody.pc = "idle"
         /\ worker = Nobody \/ worker \in Workers
<1>1. losses \in Nat /\ cuts \in Nat /\ edits \in Nat /\ backfills \in Nat
  BY Counts
<1>2. /\ rules \in Category /\ category \in Category /\ place \in Folders \cup {None}
      /\ worker = Nobody \/ worker \in Workers
  BY DEF Typed, BookTyped, WorkerTyped
<1>3. CommandTyped /\ Away.pc = "idle" /\ Nobody.pc = "idle"
  BY AwayIs DEF Typed
<1>4. command.pc \in Running => command # Away
  BY <1>3 DEF Running
<1>. QED BY <1>1, <1>2, <1>3, <1>4 DEF CommandTyped

LEMMA StepWhole == Typed /\ Clean /\ Apart /\ WholeCommands /\ [Next]_vars => WholeCommands'
<1>. SUFFICES ASSUME Typed, Clean, Apart, WholeCommands, [Next]_vars PROVE WholeCommands'
  OBVIOUS
<1>1. CASE Place
  BY <1>1, TypedParts, Destinations DEF Place, Apart, Renamed, rows, bounds, WholeCommands,
    AtRecord, AtMove, Filed, There, Running
<1>2. CASE Plan
  BY <1>2, TypedParts, PlanDecides DEF Plan, Planned, rows, bounds, WholeCommands, AtRecord,
    AtMove, Filed, There, Running
<1>3. CASE Move
  BY <1>3, TypedParts, TurnedTo, Destinations DEF Move, Renamed, rows, bounds, WholeCommands,
    AtRecord, AtMove, Filed, There, Running
<1>4. CASE Record
  BY <1>4, TypedParts, TurnedTo, Destinations DEF Record, Kinds, rows, bounds, WholeCommands,
    AtRecord, AtMove, Filed, There, Running
<1>5. CASE SetCategory
  BY <1>5, TypedParts, TurnedTo DEF SetCategory, rows, bounds, WholeCommands, AtRecord, AtMove,
    Filed, There, Running
<1>6. CASE ResetIndex
  BY <1>6, TypedParts DEF ResetIndex, Clean, rows, bounds, WholeCommands, AtRecord, AtMove,
    Filed, There, Running
<1>7. CASE Backfill
  BY <1>7, TypedParts DEF Backfill, Away, rows, bounds, WholeCommands, AtRecord, AtMove, Filed,
    There, Running
<1>8. CASE ResetPlace
  BY <1>8, TypedParts DEF ResetPlace, rows, bounds, WholeCommands, AtRecord, AtMove, Filed,
    There, Running
<1>9. CASE Interrupted
  <2>1. cuts' # 0
    BY <1>9, Counts DEF Interrupted
  <2>. QED BY <2>1 DEF WholeCommands
<1>10. CASE Lost
  <2>1. losses' > 0
    BY <1>10, Counts DEF Lost
  <2>2. \A f : There(f)'
    BY <2>1 DEF There
  <2>3. UNCHANGED <<beside, cuts, edits, backfills, command, category, rules, place>>
    BY <1>10 DEF Lost, rows
  <2>4. file' \subseteq file
    BY <1>10 DEF Lost
  <2>. QED BY <2>1, <2>2, <2>3, <2>4, TypedParts DEF WholeCommands, AtRecord, AtMove, Filed,
    There, Running
<1>11. CASE List
  BY <1>11, TypedParts DEF List, rows, bounds, WholeCommands, AtRecord, AtMove, Filed, There,
    Running
<1>12. CASE UNCHANGED <<beside, cuts, command, category, place, file, losses>>
  BY <1>12, TypedParts DEF WholeCommands, AtRecord, AtMove, Filed, There, Running
<1>. QED
  BY <1>1, <1>2, <1>3, <1>4, <1>5, <1>6, <1>7, <1>8, <1>9, <1>10, <1>11, <1>12 DEF Next, Sweep,
    Begin, PassOver, Reclassify, Tell, MarkDone, EditRules, rows, bounds, vars

(* And if one was: what it left is the same book half way to the one new     *)
(* folder.                                                                   *)
HalfWay ==
  /\ category # rules /\ place = Folder[category]
  /\ There(place) \/ Folder[rules] \in file
  /\ command.pc \in {"idle", "move", "record"}

CutCommands ==
  ~beside /\ edits <= 1 /\ backfills = 0 =>
    /\ edits = 0 => command = Away /\ category = rules
    /\ command # Away => command.cat = rules /\ command.pc \in Running
    /\ place = None => file \subseteq {Staging}
    /\ Filed(rules) \/ HalfWay
    /\ AtMove /\ AtRecord

LEMMA StepCut == Typed /\ Clean /\ Apart /\ CutCommands /\ [Next]_vars => CutCommands'
<1>. SUFFICES ASSUME Typed, Clean, Apart, CutCommands, [Next]_vars PROVE CutCommands'
  OBVIOUS
<1>1. CASE Plan
  BY <1>1, TypedParts, PlanDecides DEF Plan, Planned, rows, bounds, CutCommands, HalfWay,
    AtRecord, AtMove, Filed, There, Running
<1>2. CASE Record
  BY <1>2, TypedParts, TurnedTo, Destinations DEF Record, Kinds, rows, bounds, CutCommands,
    HalfWay, AtRecord, AtMove, Filed, There, Running
<1>3. CASE SetCategory
  BY <1>3, TypedParts, TurnedTo DEF SetCategory, rows, bounds, CutCommands, HalfWay, AtRecord,
    AtMove, Filed, There, Running
<1>4. CASE ResetIndex
  BY <1>4, TypedParts DEF ResetIndex, Clean, rows, bounds, CutCommands, HalfWay, AtRecord,
    AtMove, Filed, There, Running
<1>5. CASE Backfill
  BY <1>5, TypedParts DEF Backfill, Away, rows, bounds, CutCommands, HalfWay, AtRecord, AtMove,
    Filed, There, Running
<1>6. CASE ResetPlace
  BY <1>6, TypedParts DEF ResetPlace, rows, bounds, CutCommands, HalfWay, AtRecord, AtMove,
    Filed, There, Running
<1>7. CASE Lost
  <2>1. losses' > 0
    BY <1>7, Counts DEF Lost
  <2>2. \A f : There(f)'
    BY <2>1 DEF There
  <2>3. UNCHANGED <<beside, cuts, edits, backfills, command, category, rules, place>>
    BY <1>7 DEF Lost, rows
  <2>4. file' \subseteq file
    BY <1>7 DEF Lost
  <2>. QED BY <2>1, <2>2, <2>3, <2>4, TypedParts DEF CutCommands, HalfWay, AtRecord, AtMove,
    Filed, There, Running
<1>8. CASE Place
  <2>. SUFFICES ASSUME ~beside, edits <= 1, backfills = 0 PROVE CutCommands'
    BY <1>8 DEF Place, bounds, CutCommands
  <2>1. command = Away /\ worker.cat = category /\ command.pc = "idle"
    BY <1>8, TypedParts DEF Place, Apart
  <2>2. UNCHANGED <<rules, category, command, edits, backfills, losses>>
    BY <1>8 DEF Place, bounds
  <2>3. CASE place' = Folder[category] /\ place' \in file'
    BY <2>1, <2>2, <2>3, Destinations, TypedParts DEF CutCommands, HalfWay, AtRecord, AtMove,
      Filed, There, Running
  <2>4. CASE UNCHANGED <<file, place>>
    BY <2>1, <2>2, <2>4, TypedParts DEF CutCommands, HalfWay, AtRecord, AtMove, Filed, There,
      Running
  <2>. QED BY <1>8, <2>1, <2>3, <2>4 DEF Place, Renamed
<1>9. CASE Move
  <2>. SUFFICES ASSUME ~beside, edits <= 1, backfills = 0 PROVE CutCommands'
    BY <1>9 DEF Move, bounds, CutCommands
  <2>1. /\ command.cat = rules /\ command.to = Folder[rules] /\ command.kind = "move"
        /\ place # None /\ command.from = place /\ command # Away /\ edits # 0
    BY <1>9, TypedParts DEF Move, CutCommands, AtMove, Running
  <2>2. UNCHANGED <<rules, category, place, edits, backfills, losses>>
    BY <1>9 DEF Move, rows, bounds
  <2>3. CASE place \in file
    <3>1. /\ command'.pc = "record" /\ command'.cat = rules /\ command'.to = Folder[rules]
          /\ command'.kind = "move"
      BY <1>9, <2>1, <2>3, TurnedTo, TypedParts DEF Move, Running
    <3>2. file' = (file \ {place}) \cup {Folder[rules]}
      BY <1>9, <2>1, <2>3 DEF Move, Renamed
    <3>. QED BY <2>1, <2>2, <2>3, <3>1, <3>2, TypedParts DEF CutCommands, HalfWay, AtRecord,
      AtMove, Filed, There, Running
  <2>4. CASE place \notin file
    <3>1. file' = file /\ command' = Away
      BY <1>9, <2>1, <2>4 DEF Move
    <3>. QED BY <2>1, <2>2, <2>4, <3>1, TypedParts DEF CutCommands, HalfWay, AtRecord, AtMove,
      Filed, There, Running
  <2>. QED BY <2>3, <2>4
<1>10. CASE List
  BY <1>10, TypedParts DEF List, rows, bounds, CutCommands, HalfWay, AtRecord, AtMove, Filed,
    There, Running
<1>11. CASE Interrupted
  BY <1>11, TypedParts DEF Interrupted, rows, bounds, CutCommands, HalfWay, AtRecord, AtMove,
    Filed, There, Running
<1>12. CASE EditRules
  <2>0. edits' = edits + 1 /\ rules' \in Category \ {rules}
        /\ UNCHANGED <<category, place, file, command, losses, beside, backfills>>
    BY <1>12 DEF EditRules, rows
  <2>. SUFFICES ASSUME ~beside, edits = 0, backfills = 0 PROVE CutCommands'
    BY <2>0, Counts DEF CutCommands
  <2>1. command = Away /\ category = rules /\ command.pc = "idle"
    BY TypedParts DEF CutCommands
  <2>2. edits' = 1
    BY <2>0
  <2>. QED BY <2>0, <2>1, <2>2, TypedParts DEF CutCommands, HalfWay, AtRecord, AtMove, Filed,
    There, Running
<1>13. CASE UNCHANGED <<beside, edits, backfills, command, category, rules, place, file, losses>>
  BY <1>13, TypedParts DEF CutCommands, HalfWay, AtRecord, AtMove, Filed, There, Running
<1>. QED
  BY <1>1, <1>2, <1>3, <1>4, <1>5, <1>6, <1>7, <1>8, <1>9, <1>10, <1>11, <1>12, <1>13 DEF Next,
    Sweep, Begin, PassOver, Reclassify, Tell, MarkDone, rows, bounds, vars

(* Where reclassify has come to its end, the category is the one of the      *)
(* rules and the record and the file are where it says; also after it was    *)
(* interrupted, if the rules changed no more and no backfill ran.            *)
THEOREM RecordsAgree == Spec => []Agrees
<1>1. Init => Clean /\ Apart /\ WholeCommands /\ CutCommands
  BY AwayIs DEF Init, Clean, Apart, WholeCommands, CutCommands, AtRecord, AtMove, Filed
<1>2. Typed /\ Clean /\ WholeCommands /\ CutCommands => Agrees
  BY AwayIs DEF Clean, WholeCommands, CutCommands, HalfWay, Filed, There, Agrees, Resumable
<1>. QED
  BY <1>1, <1>2, InitTyped, StepTyped, StepClean, StepApart, StepWhole, StepCut, PTL DEF Spec

-----------------------------------------------------------------------------
(* What the services were told.                                              *)

Told(c) == index = "pending" \/ told = Destination(c)

Announced ==
  ~beside /\ cuts = 0 =>
    /\ place = None => index = "pending"
    /\ worker.pc \in {"tell", "mark"} \/ worker.placed => place # None
    /\ worker.pc = "mark" => told = Destination(category)
    /\ command.pc \in {"idle", "move"} => Told(category)
    /\ command.pc \in Running => command.reset \/ Told(command.cat)

LEMMA StepAnnounced == Typed /\ Clean /\ Apart /\ WholeCommands /\ Announced /\ [Next]_vars => Announced'
<1>. SUFFICES ASSUME Typed, Clean, Apart, WholeCommands, Announced, [Next]_vars PROVE Announced'
  OBVIOUS
<1>1. CASE List
  BY <1>1, TypedParts DEF List, Nobody, Workers, Apart, rows, bounds, Announced,
    Told, Running
<1>2. CASE Place
  BY <1>2, TypedParts, Destinations DEF Place, Nobody, Workers, Apart, rows, bounds, Announced,
    Told, Running
<1>3. CASE Tell
  BY <1>3, TypedParts DEF Tell, Nobody, Workers, Apart, WholeCommands, Filed, Destination, rows, bounds,
    Announced, Told, Running
<1>4. CASE MarkDone
  BY <1>4, TypedParts DEF MarkDone, Nobody, Apart, rows, bounds, Announced, Told, Running
<1>5. CASE Plan
  BY <1>5, TypedParts, PlanDecides DEF Plan, Planned, rows, bounds, Announced, Told, Running
<1>6. CASE Move
  BY <1>6, TypedParts, TurnedTo DEF Move, Apart, rows, bounds, Announced, Told, Running
<1>7. CASE Record
  BY <1>7, TypedParts, TurnedTo, Destinations DEF Record, AtRecord, WholeCommands, Kinds, rows,
    bounds, Announced, Told, Running
<1>8. CASE SetCategory
  BY <1>8, TypedParts, TurnedTo DEF SetCategory, Apart, rows, bounds, Announced, Told, Running
<1>9. CASE ResetIndex
  BY <1>9, TypedParts DEF ResetIndex, Clean, rows, bounds, Announced, Told, Running
<1>10. CASE Backfill
  BY <1>10, TypedParts DEF Backfill, Away, rows, bounds, Announced, Told, Running
<1>11. CASE ResetPlace
  BY <1>11, TypedParts DEF ResetPlace, Nobody, Workers, Apart, rows, bounds, Announced,
    Told, Running
<1>12. CASE Interrupted
  <2>1. cuts' # 0
    BY <1>12, Counts DEF Interrupted
  <2>. QED BY <2>1 DEF Announced
<1>13. CASE Begin
  BY <1>13, TypedParts DEF Begin, Nobody, Workers, Apart, rows, bounds, Announced,
    Told, Running
<1>14. CASE PassOver
  BY <1>14, TypedParts DEF PassOver, Nobody, rows, bounds, Announced, Told, Running
<1>15. CASE UNCHANGED <<beside, cuts, command, category, place, index, told, worker>>
  BY <1>15, TypedParts DEF Announced, Told, Running
<1>. QED
  BY <1>1, <1>2, <1>3, <1>4, <1>5, <1>6, <1>7, <1>8, <1>9, <1>10, <1>11, <1>12, <1>13, <1>14,
     <1>15 DEF Next, Sweep, Reclassify, EditRules, Lost, rows, bounds, vars

(* And no service keeps the old path or the old notebook, if no command was  *)
(* interrupted.                                                              *)
THEOREM ServicesAreTold == Spec => []Serviced
<1>1. Init => Clean /\ Apart /\ WholeCommands /\ Announced
  BY AwayIs DEF Init, Clean, Apart, WholeCommands, Announced, AtRecord, AtMove, Filed, Told,
    Running
<1>2. Clean /\ Announced => Serviced
  BY AwayIs DEF Clean, Announced, Told, Serviced
<1>. QED
  BY <1>1, <1>2, InitTyped, StepTyped, StepClean, StepApart, StepWhole, StepAnnounced, PTL DEF
    Spec
=============================================================================
