---------------------------- MODULE NotebookProofs ----------------------------
(***************************************************************************)
(* Of pages of any size, any number of earlier copies, and any bounds: the *)
(* types, that the stage creates a source of the file only if there is     *)
(* none, and that what it uses and records is not what the repair deletes. *)
(***************************************************************************)
EXTENDS Notebook, FiniteSetTheorems, TLAPS

-----------------------------------------------------------------------------
(* Types.  What is recorded, used, found or kept is a source of the file.    *)

Rows ==
  [status : {"pending", "running", "ok", "failed", "blocked"},
   attempts : 0..MaxAttempts + MaxFaults, artifact : Id \cup {NoId}]

Workers ==
  [pc : {"idle", "ask", "walk", "create", "count", "detach", "attach",
         "check", "read", "missed", "done"},
   page : 0..MaxPages, found : SUBSET Id, source : Id \cup {NoId},
   res : {"none", "ok", "failed", "blocked"}]

Repairs ==
  [pc : {"idle", "walk", "keep", "clear", "count", "detach", "attach", "retry"},
   page : 0..MaxPages, found : SUBSET Id, source : Id \cup {NoId}]

ServiceTyped ==
  /\ live \subseteq Id /\ ours \subseteq Id /\ links \in [Id -> Nat]
  /\ next \in 1..LastId + 1 /\ \A i \in live \cup ours : i < next
  /\ limbo \in BOOLEAN

RowTyped ==
  /\ row \in Rows /\ row.artifact \in ours \cup {NoId}
  /\ row.status = "ok" => row.artifact \in ours

WorkerTyped ==
  /\ worker \in Workers /\ worker.found \subseteq ours
  /\ worker.source \in ours \cup {NoId}
  /\ worker.pc \in {"count", "detach", "attach", "check", "read", "missed"} => worker.source \in ours
  /\ worker.pc = "ask" => worker.page = 0 /\ worker.found = {}

Running ==
  /\ worker.pc = "idle" => worker = Idle
  /\ worker.pc # "idle" => row.status \in {"running", "pending"}
  /\ worker.pc = "done" =>
       /\ worker.res # "none"
       /\ worker.res = "ok" => worker.source \in ours

RepairTyped ==
  /\ repair \in Repairs /\ repair.found \subseteq ours
  /\ repair.pc \in {"clear", "count", "detach", "attach"} => repair.source \in ours

BoundsTyped ==
  /\ faults \in 0..MaxFaults /\ drops \in 0..MaxDrops /\ lates \in Nat
  /\ resets \in 0..MaxResets /\ repairs \in 0..MaxRepairs
  /\ lates <= faults /\ (limbo => lates < faults)

(* A stop costs the attempt that it ends, and a failure beyond the limit     *)
(* parks the stage.                                                          *)
Spent ==
  /\ row.attempts <= MaxAttempts + faults
  /\ worker.pc = "idle" /\ row.status \in {"pending", "running", "blocked"}
       => row.attempts < MaxAttempts + faults

Typed ==
  /\ ServiceTyped /\ RowTyped /\ WorkerTyped /\ Running
  /\ RepairTyped /\ BoundsTyped /\ Spent

LEMMA Numbers ==
  /\ PageSize \in Nat \ {0} /\ MaxPages \in Nat /\ MaxAttempts \in Nat \ {0}
  /\ LastId \in Nat /\ Litter \in 0..LastId
  /\ MaxFaults \in Nat /\ MaxDrops \in Nat /\ MaxResets \in Nat /\ MaxRepairs \in Nat
  BY NotebookAssumption

LEMMA TypedIsTypeOK == Typed => TypeOK
  BY NotebookAssumption
  DEF Typed, ServiceTyped, RowTyped, WorkerTyped, RepairTyped, BoundsTyped,
      Rows, Workers, Repairs, TypeOK

(* There is an oldest among sources.                                         *)
LEMMA Oldest ==
  ASSUME NEW T \in SUBSET Id, T # {}
  PROVE  Min(T) \in T /\ \A y \in T : Min(T) <= y
<1>. DEFINE Less == {ss \in Nat \X Nat : ss[1] < ss[2]}
<1>0. T \in SUBSET Nat
  BY NotebookAssumption DEF Id
<1>1. IsWellFoundedOn(Less, Nat)
  BY NatLessThanWellFounded DEF OpToRel
<1>2. PICK x \in T : \A y \in T : ~(<<y, x>> \in Less)
  BY <1>0, <1>1, WFMin
<1>3. ASSUME NEW y \in T PROVE x <= y
  <2>1. x \in Nat /\ y \in Nat /\ <<y, x>> \notin Less
    BY <1>0, <1>2
  <2>2. y < x => <<y, x>> \in Less
    BY <2>1
  <2>. QED BY <2>1, <2>2
<1>. QED BY <1>3 DEF Min

LEMMA InitTyped == Init => Typed
<1>. SUFFICES ASSUME Init PROVE Typed
  OBVIOUS
<1>1. PICK n \in 0..Litter :
        /\ live = 1..n /\ ours = 1..n /\ next = n + 1
        /\ \E k \in {0, 2} : links = [i \in Id |-> IF i <= n THEN k ELSE 0]
  BY DEF Init
<1>2. ServiceTyped
  <2>1. n \in Nat /\ n <= LastId
    BY Numbers
  <2>2. PICK k \in {0, 2} : links = [i \in Id |-> IF i <= n THEN k ELSE 0]
    BY <1>1
  <2>3. k \in Nat /\ 0 \in Nat
    OBVIOUS
  <2>4. \A i \in Id : (IF i <= n THEN k ELSE 0) \in Nat
    BY <2>3
  <2>5. links \in [Id -> Nat]
    BY <2>2, <2>4
  <2>6. live \subseteq Id /\ ours \subseteq Id /\ \A i \in live \cup ours : i < next
    BY <1>1, <2>1, Numbers DEF Id
  <2>7. next \in 1..LastId + 1
    BY <1>1, <2>1, Numbers
  <2>. QED BY <2>5, <2>6, <2>7 DEF Init, ServiceTyped
<1>3. RowTyped /\ WorkerTyped /\ Running /\ RepairTyped /\ BoundsTyped /\ Spent
  BY Numbers
  DEF Init, NoRow, Idle, Away, NoId, RowTyped, Rows, WorkerTyped, Workers, Running,
      RepairTyped, Repairs, BoundsTyped, Spent
<1>. QED BY <1>2, <1>3 DEF Typed

(* The two requests about a link count it.                                   *)
LEMMA LinksCount ==
  ASSUME links \in [Id -> Nat], NEW s \in Id,
         Detached(s) \/ Attached(s) \/ UNCHANGED links
  PROVE  links' \in [Id -> Nat]
<1>1. CASE Detached(s)
  BY <1>1 DEF Detached
<1>2. CASE Attached(s)
  BY <1>2 DEF Attached
<1>. QED BY <1>1, <1>2

LEMMA StartTyped == Typed /\ Start => Typed'
<1>. SUFFICES ASSUME Typed, Start PROVE Typed'
  OBVIOUS
<1>. USE Numbers DEF Start, service, bounds, Idle, Parked, NoId
<1>1. ServiceTyped'
  BY DEF Typed, ServiceTyped, WorkerTyped, RepairTyped, Id
<1>2. WorkerTyped' /\ Running'
  BY DEF Typed, ServiceTyped, RowTyped, WorkerTyped, Running, Rows, Workers
<1>3. RepairTyped' /\ BoundsTyped'
  BY DEF Typed, ServiceTyped, RowTyped, RepairTyped, BoundsTyped, Repairs
<1>4. Spent'
  BY DEF Typed, RowTyped, WorkerTyped, Running, BoundsTyped, Spent, Rows, Workers
<1>5. RowTyped'
  <2>1. row.attempts \in Nat /\ row.attempts + 1 \in 0..MaxAttempts + MaxFaults
    BY DEF Typed, RowTyped, Rows, Spent, BoundsTyped
  <2>2. row' = [row EXCEPT !.status = "running", !.attempts = row.attempts + 1] /\ ours' = ours
    OBVIOUS
  <2>3. row' = [status |-> "running", attempts |-> row.attempts + 1, artifact |-> row.artifact]
    BY <2>2 DEF Typed, RowTyped, Rows
  <2>. QED BY <2>1, <2>2, <2>3 DEF Typed, RowTyped, Rows
<1>. QED BY <1>1, <1>2, <1>3, <1>4, <1>5 DEF Typed

LEMMA AskRecordedTyped == Typed /\ AskRecorded => Typed'
<1>. SUFFICES ASSUME Typed, AskRecorded PROVE Typed'
  OBVIOUS
<1>. USE Numbers DEF AskRecorded, service, At, Raises, Ends, Fault, NoId, Idle
<1>1. ServiceTyped' /\ RowTyped'
  BY DEF Typed, ServiceTyped, RowTyped, WorkerTyped, Running, RepairTyped,
     BoundsTyped, Spent, Rows, Workers, Id
<1>2. Running'
  BY DEF Typed, ServiceTyped, RowTyped, WorkerTyped, Running, Rows, Workers
<1>3. RepairTyped' /\ BoundsTyped'
  BY DEF Typed, ServiceTyped, RowTyped, RepairTyped, BoundsTyped, Repairs
<1>4. WorkerTyped'
  <2>1. row.artifact \in live => row.artifact \in ours
    BY DEF Typed, ServiceTyped, RowTyped, Id
  <2>2. /\ ours' = ours
        /\ \/ /\ row.artifact \in live
              /\ worker' = [worker EXCEPT !.pc = "count", !.source = row.artifact]
           \/ worker' = [worker EXCEPT !.pc = "walk"]
           \/ \E res \in {"failed", "blocked"} : Ends(res)
    OBVIOUS
  <2>3. ours \subseteq Id /\ worker \in Workers /\ worker.found \subseteq ours
        /\ worker.source \in ours \cup {NoId} /\ worker.pc = "ask"
    BY DEF Typed, ServiceTyped, WorkerTyped
  <2>4. CASE /\ row.artifact \in live
             /\ worker' = [worker EXCEPT !.pc = "count", !.source = row.artifact]
    BY <2>1, <2>2, <2>3, <2>4 DEF WorkerTyped, Workers
  <2>5. CASE worker' = [worker EXCEPT !.pc = "walk"]
    BY <2>2, <2>3, <2>5 DEF WorkerTyped, Workers
  <2>6. CASE \E res \in {"failed", "blocked"} : Ends(res)
    BY <2>2, <2>3, <2>6 DEF WorkerTyped, Workers
  <2>. QED BY <2>2, <2>4, <2>5, <2>6
<1>5. Spent'
  <2>1. /\ row' = row /\ worker.pc # "idle" /\ worker'.pc # "idle"
        /\ faults' \in {faults, faults + 1}
    BY DEF Typed, WorkerTyped, Workers
  <2>. QED BY <2>1 DEF Typed, RowTyped, Rows, Spent, BoundsTyped
<1>. QED BY <1>1, <1>2, <1>3, <1>4, <1>5 DEF Typed

LEMMA AnotherPage ==
  ASSUME NEW walk, walk.page \in 0..MaxPages, ~LastPage(walk)
  PROVE  walk.page + 1 \in 0..MaxPages
<1>1. ~(walk.page + 1 >= MaxPages)
  BY DEF LastPage
<1>. QED BY <1>1, Numbers

(* A page of the list: there are more, or one is taken, or there is none.    *)
LEMMA WalkCases ==
  ASSUME Walk
  PROVE  LET found == worker.found \cup (PageAt(worker.page) \cap ours)
         IN  /\ UNCHANGED <<service, row, repair, drops, lates, resets, repairs>>
             /\ \/ /\ ~LastPage(worker) /\ faults' = faults
                   /\ worker' = [worker EXCEPT !.page = @ + 1, !.found = found]
                \/ /\ LastPage(worker) /\ found # {} /\ faults' = faults
                   /\ worker' = [worker EXCEPT !.pc = "count", !.source = Min(found),
                                               !.found = {}]
                \/ /\ LastPage(worker) /\ found = {} /\ faults' = faults
                   /\ worker' = [worker EXCEPT !.pc = "create"]
                \/ Raises
  BY DEF Walk, GoTo

LEMMA WalkTyped == Typed /\ Walk => Typed'
<1>. SUFFICES ASSUME Typed, Walk PROVE Typed'
  OBVIOUS
<1>. DEFINE found == worker.found \cup (PageAt(worker.page) \cap ours)
<1>1. found \subseteq ours /\ found \in SUBSET Id
  BY DEF Typed, ServiceTyped, WorkerTyped
<1>2. worker.page \in 0..MaxPages /\ MaxPages \in Nat
  BY Numbers DEF Typed, WorkerTyped, Workers
<1>3. ~LastPage(worker) => worker.page + 1 \in 0..MaxPages
  BY <1>2, AnotherPage
<1>. HIDE DEF found
<1>4. /\ UNCHANGED <<service, row, repair, drops, lates, resets, repairs>> /\ At("walk")
      /\ \/ /\ ~LastPage(worker) /\ faults' = faults
            /\ worker' = [worker EXCEPT !.page = @ + 1, !.found = found]
         \/ /\ found # {} /\ faults' = faults
            /\ worker' = [worker EXCEPT !.pc = "count", !.source = Min(found), !.found = {}]
         \/ faults' = faults /\ worker' = [worker EXCEPT !.pc = "create"]
         \/ Raises
  BY WalkCases DEF found, Walk
<1>5. found # {} => Min(found) \in ours
  BY <1>1, Oldest
<1>6. WorkerTyped'
  <2>1. ours' = ours /\ worker \in Workers /\ worker.pc = "walk" /\ WorkerTyped
        /\ ours \subseteq Id
    BY <1>4 DEF Typed, ServiceTyped, WorkerTyped, service, At
  <2>2. CASE ~LastPage(worker) /\ worker' = [worker EXCEPT !.page = @ + 1, !.found = found]
    BY <1>1, <1>3, <2>1, <2>2 DEF WorkerTyped, Workers
  <2>3. CASE /\ found # {}
             /\ worker' = [worker EXCEPT !.pc = "count", !.source = Min(found), !.found = {}]
    BY <1>5, <2>1, <2>3 DEF WorkerTyped, Workers
  <2>4. CASE worker' = [worker EXCEPT !.pc = "create"]
    BY <2>1, <2>4 DEF WorkerTyped, Workers
  <2>5. CASE Raises
    BY <2>1, <2>5 DEF WorkerTyped, Workers, Raises, Ends
  <2>. QED BY <1>4, <2>2, <2>3, <2>4, <2>5
<1>7. worker'.pc # "idle" /\ (worker'.pc = "done" => worker'.res \in {"failed", "blocked"})
  BY <1>4 DEF Typed, WorkerTyped, Workers, At, Raises, Ends
<1>8. faults' = faults \/ (faults < MaxFaults /\ faults' = faults + 1)
  BY <1>4 DEF Raises, Fault
<1>9. ServiceTyped' /\ RowTyped' /\ RepairTyped'
  BY <1>4 DEF Typed, ServiceTyped, RowTyped, RepairTyped, service
<1>12. BoundsTyped'
  BY <1>4, <1>8, Numbers DEF Typed, BoundsTyped, service
<1>10. Running'
  BY <1>4, <1>7 DEF Typed, Running, At
<1>11. Spent'
  BY <1>4, <1>7, <1>8, Numbers DEF Typed, RowTyped, Rows, Spent, BoundsTyped
<1>. QED BY <1>6, <1>9, <1>10, <1>11, <1>12 DEF Typed

LEMMA CreateCases ==
  ASSUME Create
  PROVE  \/ Created /\ worker' = [worker EXCEPT !.pc = "count", !.source = next]
         \/ Raises /\ (Created \/ UNCHANGED <<live, ours, next>>)
  BY DEF Create

LEMMA CreateTyped == Typed /\ Create => Typed'
<1>. SUFFICES ASSUME Typed, Create PROVE Typed'
  OBVIOUS
<1>. USE Numbers DEF Create, Created, At, Raises, Ends, Fault, NoId, Idle
<1>1. RowTyped' /\ Running' /\ RepairTyped'
  <2>1. ours \subseteq ours' /\ row' = row /\ repair' = repair
    OBVIOUS
  <2>2. worker.pc = "create" /\ worker \in Workers
    BY DEF Typed, WorkerTyped
  <2>3. \/ worker' = [worker EXCEPT !.pc = "count", !.source = next]
        \/ \E res \in {"failed", "blocked"} : Ends(res)
    OBVIOUS
  <2>4. Running'
    BY <2>1, <2>2, <2>3 DEF Typed, Running, Workers
  <2>. QED BY <2>1, <2>4 DEF Typed, RowTyped, RepairTyped
<1>2. ServiceTyped'
  <2>1. next \in Id
    BY DEF Typed, ServiceTyped, Id
  <2>2. links' = links /\ limbo' \in BOOLEAN
    BY DEF Typed, ServiceTyped
  <2>3. \/ live' = live \cup {next} /\ ours' = ours \cup {next} /\ next' = next + 1
        \/ live' = live /\ ours' = ours /\ next' = next
    OBVIOUS
  <2>4. next' \in 1..LastId + 1 /\ next \in Nat /\ next' >= next
    BY <2>1, <2>3 DEF Typed, ServiceTyped, Id
  <2>5. live' \subseteq Id /\ ours' \subseteq Id
    BY <2>1, <2>3 DEF Typed, ServiceTyped
  <2>6. \A i \in live' \cup ours' : i < next'
    <3>1. \A i \in live \cup ours : i \in Nat /\ i < next
      BY DEF Typed, ServiceTyped, Id
    <3>2. CASE live' = live /\ ours' = ours /\ next' = next
      BY <3>1, <3>2
    <3>3. CASE live' = live \cup {next} /\ ours' = ours \cup {next} /\ next' = next + 1
      <4>1. \A i \in live' \cup ours' : i = next \/ i \in live \cup ours
        BY <3>3
      <4>. QED BY <2>4, <3>1, <3>3, <4>1
    <3>. QED BY <2>3, <3>2, <3>3
  <2>. QED BY <2>2, <2>4, <2>5, <2>6 DEF Typed, ServiceTyped
<1>3. WorkerTyped'
  <2>1. next \in Id
    BY DEF Typed, ServiceTyped, Id
  <2>2. CASE Created /\ worker' = [worker EXCEPT !.pc = "count", !.source = next]
    BY <2>1, <2>2 DEF Typed, WorkerTyped, Workers
  <2>3. CASE Raises /\ (Created \/ UNCHANGED <<live, ours, next>>)
    <3>1. PICK res \in {"failed", "blocked"} : Ends(res)
      BY <2>3
    <3>2. ours \subseteq ours' /\ ours' \subseteq ours \cup {next}
      BY <2>3
    <3>. QED BY <2>1, <3>1, <3>2 DEF Typed, ServiceTyped, WorkerTyped, Workers
  <2>. QED BY <2>2, <2>3, CreateCases
<1>4. BoundsTyped'
  <2>1. /\ drops' = drops /\ lates' = lates /\ resets' = resets /\ repairs' = repairs
        /\ \/ faults' = faults /\ limbo' = limbo
           \/ faults < MaxFaults /\ faults' = faults + 1
    OBVIOUS
  <2>. QED BY <2>1 DEF Typed, BoundsTyped
<1>5. Spent'
  <2>1. /\ row' = row /\ worker.pc # "idle" /\ worker'.pc # "idle"
        /\ faults' \in {faults, faults + 1}
    BY DEF Typed, WorkerTyped, Workers
  <2>. QED BY <2>1 DEF Typed, RowTyped, Rows, Spent, BoundsTyped
<1>. QED BY <1>1, <1>2, <1>3, <1>4, <1>5 DEF Typed

LEMMA CountLinksTyped == Typed /\ CountLinks => Typed'
<1>. SUFFICES ASSUME Typed, CountLinks PROVE Typed'
  OBVIOUS
<1>. USE Numbers DEF CountLinks, service, At, GoTo, Ends, Raises, Fault, NoId, Idle
<1>1. ServiceTyped' /\ RowTyped'
  BY DEF Typed, ServiceTyped, RowTyped, WorkerTyped, Running, RepairTyped,
     BoundsTyped, Spent, Rows, Workers, Id
<1>2. Running'
  BY DEF Typed, ServiceTyped, RowTyped, WorkerTyped, Running, Rows, Workers
<1>3. RepairTyped' /\ BoundsTyped'
  BY DEF Typed, ServiceTyped, RowTyped, RepairTyped, BoundsTyped, Repairs
<1>4. WorkerTyped'
  <2>1. /\ ours' = ours
        /\ \/ \E pc \in {"attach", "read", "detach"} : GoTo(pc)
           \/ \E res \in {"failed", "blocked"} : Ends(res)
    OBVIOUS
  <2>. QED BY <2>1 DEF Typed, WorkerTyped, Workers
<1>5. Spent'
  <2>1. /\ row' = row /\ worker.pc # "idle" /\ worker'.pc # "idle"
        /\ faults' \in {faults, faults + 1}
    BY DEF Typed, WorkerTyped, Workers
  <2>. QED BY <2>1 DEF Typed, RowTyped, Rows, Spent, BoundsTyped
<1>. QED BY <1>1, <1>2, <1>3, <1>4, <1>5 DEF Typed

LEMMA DetachTyped == Typed /\ Detach => Typed'
<1>. SUFFICES ASSUME Typed, Detach PROVE Typed'
  OBVIOUS
<1>. USE Numbers DEF Detach, Detached, At, GoTo, Raises, Ends, Fault, NoId, Idle
<1>1. RowTyped'
  BY DEF Typed, ServiceTyped, RowTyped, WorkerTyped, Running, BoundsTyped, Spent,
     Rows, Workers
<1>2. WorkerTyped' /\ Running'
  <2>1. /\ ours' = ours /\ row' = row /\ worker.pc = "detach"
        /\ GoTo("attach") \/ \E res \in {"failed", "blocked"} : Ends(res)
    OBVIOUS
  <2>2. WorkerTyped'
    BY <2>1 DEF Typed, WorkerTyped, Workers
  <2>3. Running'
    BY <2>1 DEF Typed, Running, WorkerTyped, Workers
  <2>. QED BY <2>2, <2>3
<1>3. RepairTyped' /\ BoundsTyped'
  BY DEF Typed, ServiceTyped, RowTyped, RepairTyped, BoundsTyped, Repairs
<1>4. ServiceTyped'
  <2>1. worker.source \in Id
    BY DEF Typed, ServiceTyped, WorkerTyped
  <2>2. links' \in [Id -> Nat]
    BY <2>1, LinksCount DEF Typed, ServiceTyped
  <2>. QED BY <2>2 DEF Typed, ServiceTyped
<1>5. Spent'
  <2>1. /\ row' = row /\ worker.pc # "idle" /\ worker'.pc # "idle"
        /\ faults' \in {faults, faults + 1}
    BY DEF Typed, WorkerTyped, Workers
  <2>. QED BY <2>1 DEF Typed, RowTyped, Rows, Spent, BoundsTyped
<1>. QED BY <1>1, <1>2, <1>3, <1>4, <1>5 DEF Typed

LEMMA AttachTyped == Typed /\ Attach => Typed'
<1>. SUFFICES ASSUME Typed, Attach PROVE Typed'
  OBVIOUS
<1>. USE Numbers DEF Attach, Attached, At, GoTo, Ends, Raises, Fault, NoId, Idle
<1>1. RowTyped'
  BY DEF Typed, ServiceTyped, RowTyped, WorkerTyped, Running, BoundsTyped, Spent,
     Rows, Workers
<1>2. Running'
  <2>1. /\ row' = row /\ worker.pc = "attach"
        /\ GoTo("check") \/ \E res \in {"failed", "blocked"} : Ends(res)
    OBVIOUS
  <2>. QED BY <2>1 DEF Typed, Running, WorkerTyped, Workers
<1>3. RepairTyped' /\ BoundsTyped'
  BY DEF Typed, ServiceTyped, RowTyped, RepairTyped, BoundsTyped, Repairs
<1>4. ServiceTyped'
  <2>1. worker.source \in Id
    BY DEF Typed, ServiceTyped, WorkerTyped
  <2>2. links' \in [Id -> Nat]
    BY <2>1, LinksCount DEF Typed, ServiceTyped
  <2>. QED BY <2>2 DEF Typed, ServiceTyped
<1>5. WorkerTyped'
  <2>1. /\ ours' = ours
        /\ GoTo("check") \/ \E res \in {"failed", "blocked"} : Ends(res)
    OBVIOUS
  <2>. QED BY <2>1 DEF Typed, WorkerTyped, Workers
<1>6. Spent'
  <2>1. /\ row' = row /\ worker.pc # "idle" /\ worker'.pc # "idle"
        /\ faults' \in {faults, faults + 1}
    BY DEF Typed, WorkerTyped, Workers
  <2>. QED BY <2>1 DEF Typed, RowTyped, Rows, Spent, BoundsTyped
<1>. QED BY <1>1, <1>2, <1>3, <1>4, <1>5, <1>6 DEF Typed

LEMMA CheckTyped == Typed /\ Check => Typed'
<1>. SUFFICES ASSUME Typed, Check PROVE Typed'
  OBVIOUS
<1>. USE Numbers DEF Check, service, At, GoTo, Ends, Raises, Fault, NoId, Idle
<1>1. ServiceTyped' /\ RowTyped'
  BY DEF Typed, ServiceTyped, RowTyped, WorkerTyped, Running, RepairTyped,
     BoundsTyped, Spent, Rows, Workers, Id
<1>2. WorkerTyped' /\ Running'
  <2>1. /\ ours' = ours /\ row' = row /\ worker.pc = "check"
        /\ \/ \E pc \in {"read", "missed"} : GoTo(pc)
           \/ \E res \in {"failed", "blocked"} : Ends(res)
    OBVIOUS
  <2>2. WorkerTyped'
    BY <2>1 DEF Typed, WorkerTyped, Workers
  <2>3. Running'
    BY <2>1 DEF Typed, Running, WorkerTyped, Workers
  <2>. QED BY <2>2, <2>3
<1>3. RepairTyped' /\ BoundsTyped'
  BY DEF Typed, ServiceTyped, RowTyped, RepairTyped, BoundsTyped, Repairs
<1>4. Spent'
  <2>1. /\ row' = row /\ worker.pc # "idle" /\ worker'.pc # "idle"
        /\ faults' \in {faults, faults + 1}
    BY DEF Typed, WorkerTyped, Workers
  <2>. QED BY <2>1 DEF Typed, RowTyped, Rows, Spent, BoundsTyped
<1>. QED BY <1>1, <1>2, <1>3, <1>4 DEF Typed

LEMMA ReadBackTyped == Typed /\ ReadBack => Typed'
<1>. SUFFICES ASSUME Typed, ReadBack PROVE Typed'
  OBVIOUS
<1>. USE Numbers DEF ReadBack, service, At, Ends, Raises, Fault, NoId, Idle
<1>1. ServiceTyped' /\ RowTyped'
  BY DEF Typed, ServiceTyped, RowTyped, WorkerTyped, Running, RepairTyped,
     BoundsTyped, Spent, Rows, Workers, Id
<1>2. WorkerTyped' /\ Running'
  <2>1. /\ ours' = ours /\ row' = row /\ worker.pc \in {"read", "missed"}
        /\ \E res \in {"failed", "blocked", "ok"} : Ends(res)
    OBVIOUS
  <2>2. worker.source \in ours
    BY <2>1 DEF Typed, WorkerTyped
  <2>3. WorkerTyped'
    BY <2>1, <2>2 DEF Typed, WorkerTyped, Workers
  <2>4. Running'
    BY <2>1, <2>2 DEF Typed, Running, WorkerTyped, Workers
  <2>. QED BY <2>3, <2>4
<1>3. RepairTyped' /\ BoundsTyped'
  BY DEF Typed, ServiceTyped, RowTyped, RepairTyped, BoundsTyped, Repairs
<1>4. Spent'
  <2>1. /\ row' = row /\ worker.pc # "idle" /\ worker'.pc # "idle"
        /\ faults' \in {faults, faults + 1}
    BY DEF Typed, WorkerTyped, Workers
  <2>. QED BY <2>1 DEF Typed, RowTyped, Rows, Spent, BoundsTyped
<1>. QED BY <1>1, <1>2, <1>3, <1>4 DEF Typed

LEMMA MarkDoneTyped == Typed /\ MarkDone => Typed'
<1>. SUFFICES ASSUME Typed, MarkDone PROVE Typed'
  OBVIOUS
<1>. USE Numbers DEF MarkDone, service, bounds, At, Idle, NoId
<1>1. ServiceTyped' /\ RowTyped'
  <2>1. ServiceTyped' /\ ours' = ours
    BY DEF Typed, ServiceTyped
  <2>2. /\ worker.pc = "done" /\ worker.res \in {"none", "ok", "failed", "blocked"}
        /\ worker.res # "none" /\ (worker.res = "ok" => worker.source \in ours)
    BY DEF Typed, WorkerTyped, Running, Workers
  <2>3. row \in Rows /\ row.artifact \in ours \cup {NoId} /\ row.attempts \in Nat
    BY DEF Typed, RowTyped, Rows
  <2>4. row'.attempts \in 0..row.attempts
    BY <2>3
  <2>5. row' \in Rows
    BY <2>1, <2>2, <2>3, <2>4 DEF Typed, ServiceTyped, Rows
  <2>6. row'.artifact \in ours \cup {NoId} /\ (row'.status = "ok" => row'.artifact \in ours)
    BY <2>2, <2>3
  <2>. QED BY <2>1, <2>5, <2>6 DEF RowTyped
<1>2. WorkerTyped' /\ Running'
  BY DEF Typed, ServiceTyped, RowTyped, WorkerTyped, Running, Rows, Workers
<1>3. RepairTyped' /\ BoundsTyped'
  BY DEF Typed, ServiceTyped, RowTyped, RepairTyped, BoundsTyped, Repairs
<1>4. Spent'
  BY DEF Typed, RowTyped, WorkerTyped, Running, BoundsTyped, Spent, Rows, Workers
<1>. QED BY <1>1, <1>2, <1>3, <1>4 DEF Typed

LEMMA BeginRepairTyped == Typed /\ BeginRepair => Typed'
<1>. SUFFICES ASSUME Typed, BeginRepair PROVE Typed'
  OBVIOUS
<1>. USE Numbers DEF BeginRepair, service, Away, NoId, Idle
<1>1. ServiceTyped' /\ RowTyped'
  BY DEF Typed, ServiceTyped, RowTyped, WorkerTyped, Running, RepairTyped,
     BoundsTyped, Spent, Rows, Workers, Id
<1>2. WorkerTyped' /\ Running'
  BY DEF Typed, ServiceTyped, RowTyped, WorkerTyped, Running, Rows, Workers
<1>3. RepairTyped' /\ BoundsTyped'
  BY DEF Typed, ServiceTyped, RowTyped, RepairTyped, BoundsTyped, Repairs
<1>4. Spent'
  BY DEF Typed, RowTyped, WorkerTyped, Running, BoundsTyped, Spent, Rows, Workers
<1>. QED BY <1>1, <1>2, <1>3, <1>4 DEF Typed

LEMMA RepairWalkTyped == Typed /\ RepairWalk => Typed'
<1>. SUFFICES ASSUME Typed, RepairWalk PROVE Typed'
  OBVIOUS
<1>1. repair.page \in 0..MaxPages
  BY DEF Typed, RepairTyped, Repairs
<1>2. ~LastPage(repair) => repair.page + 1 \in 0..MaxPages
  BY <1>1, AnotherPage
<1>3. repair' = [repair EXCEPT !.found = @ \cup (PageAt(repair.page) \cap ours),
                               !.page = IF LastPage(repair) THEN @ ELSE @ + 1,
                               !.pc = IF LastPage(repair) THEN "keep" ELSE @]
  BY DEF RepairWalk
<1>4. RepairTyped'
  <2>. DEFINE found == repair.found \cup (PageAt(repair.page) \cap ours)
  <2>1. ours' = ours /\ repair.pc = "walk" /\ repair \in Repairs /\ ours \subseteq Id
    BY DEF RepairWalk, service, Repairing, Typed, ServiceTyped, RepairTyped
  <2>2. found \subseteq ours
    BY DEF Typed, RepairTyped
  <2>3. \/ repair' = [repair EXCEPT !.found = found, !.pc = "keep"]
        \/ repair' = [repair EXCEPT !.found = found, !.page = @ + 1] /\ ~LastPage(repair)
    BY <1>3, <2>1 DEF Repairs
  <2>. HIDE DEF found
  <2>. QED BY <1>2, <2>1, <2>2, <2>3 DEF RepairTyped, Repairs
<1>. USE Numbers DEF RepairWalk, service, bounds, Repairing, NoId, Idle
<1>5. ServiceTyped' /\ RowTyped'
  BY DEF Typed, ServiceTyped, RowTyped, WorkerTyped, Running, RepairTyped,
     BoundsTyped, Spent, Rows, Workers, Id
<1>6. WorkerTyped' /\ Running'
  BY DEF Typed, ServiceTyped, RowTyped, WorkerTyped, Running, Rows, Workers
<1>7. BoundsTyped'
  BY DEF Typed, ServiceTyped, BoundsTyped
<1>8. Spent'
  BY DEF Typed, RowTyped, WorkerTyped, Running, BoundsTyped, Spent, Rows, Workers
<1>. QED BY <1>4, <1>5, <1>6, <1>7, <1>8 DEF Typed

LEMMA KeepTyped == Typed /\ Keep => Typed'
<1>. SUFFICES ASSUME Typed, Keep PROVE Typed'
  OBVIOUS
<1>. USE Numbers, Oldest DEF Keep, service, bounds, Repairing, NoId, Idle
<1>1. ServiceTyped' /\ RowTyped'
  BY DEF Typed, ServiceTyped, RowTyped, WorkerTyped, Running, RepairTyped,
     BoundsTyped, Spent, Rows, Workers, Id
<1>2. WorkerTyped' /\ Running'
  BY DEF Typed, ServiceTyped, RowTyped, WorkerTyped, Running, Rows, Workers
<1>3. RepairTyped' /\ BoundsTyped'
  BY DEF Typed, ServiceTyped, RowTyped, RepairTyped, BoundsTyped, Repairs
<1>4. Spent'
  BY DEF Typed, RowTyped, WorkerTyped, Running, BoundsTyped, Spent, Rows, Workers
<1>. QED BY <1>1, <1>2, <1>3, <1>4 DEF Typed

LEMMA ClearTyped == Typed /\ Clear => Typed'
<1>. SUFFICES ASSUME Typed, Clear PROVE Typed'
  OBVIOUS
<1>. USE Numbers, Oldest DEF Clear, Fault, Repairing, Turn, NoId, Idle
<1>1. /\ RowTyped' /\ WorkerTyped' /\ Running'
      /\ RepairTyped' /\ BoundsTyped' /\ Spent'
  BY DEF Typed, ServiceTyped, RowTyped, WorkerTyped, Running, RepairTyped,
     BoundsTyped, Spent, Rows, Workers, Repairs
<1>2. ServiceTyped'
  <2>1. repair.found # {} => Min(repair.found) \in Id
    BY DEF Typed, ServiceTyped, RepairTyped
  <2>2. live' \subseteq live
    OBVIOUS
  <2>3. links' \in [Id -> Nat]
    BY <2>1 DEF Typed, ServiceTyped
  <2>. QED BY <2>2, <2>3 DEF Typed, ServiceTyped
<1>. QED BY <1>1, <1>2 DEF Typed

LEMMA RepairCountTyped == Typed /\ RepairCount => Typed'
<1>. SUFFICES ASSUME Typed, RepairCount PROVE Typed'
  OBVIOUS
<1>. USE Numbers DEF RepairCount, service, Repairing, Turn, PassesOn, Fault, NoId,
       Idle
<1>1. ServiceTyped' /\ RowTyped'
  BY DEF Typed, ServiceTyped, RowTyped, WorkerTyped, Running, RepairTyped,
     BoundsTyped, Spent, Rows, Workers, Id
<1>2. WorkerTyped' /\ Running'
  BY DEF Typed, ServiceTyped, RowTyped, WorkerTyped, Running, Rows, Workers
<1>3. RepairTyped' /\ BoundsTyped'
  BY DEF Typed, ServiceTyped, RowTyped, RepairTyped, BoundsTyped, Repairs
<1>4. Spent'
  BY DEF Typed, RowTyped, WorkerTyped, Running, BoundsTyped, Spent, Rows, Workers
<1>. QED BY <1>1, <1>2, <1>3, <1>4 DEF Typed

LEMMA RepairDetachTyped == Typed /\ RepairDetach => Typed'
<1>. SUFFICES ASSUME Typed, RepairDetach PROVE Typed'
  OBVIOUS
<1>. USE Numbers DEF RepairDetach, Detached, Repairing, Turn, PassesOn, Fault, NoId,
       Idle
<1>1. /\ RowTyped' /\ WorkerTyped' /\ Running'
      /\ RepairTyped' /\ BoundsTyped' /\ Spent'
  BY DEF Typed, ServiceTyped, RowTyped, WorkerTyped, Running, RepairTyped,
     BoundsTyped, Spent, Rows, Workers, Repairs
<1>2. ServiceTyped'
  <2>1. repair.source \in Id
    BY DEF Typed, ServiceTyped, RepairTyped
  <2>2. links' \in [Id -> Nat]
    BY <2>1, LinksCount DEF Typed, ServiceTyped
  <2>. QED BY <2>2 DEF Typed, ServiceTyped
<1>. QED BY <1>1, <1>2 DEF Typed

LEMMA RepairAttachTyped == Typed /\ RepairAttach => Typed'
<1>. SUFFICES ASSUME Typed, RepairAttach PROVE Typed'
  OBVIOUS
<1>. USE Numbers DEF RepairAttach, Attached, Repairing, Turn, PassesOn, Fault, NoId,
       Idle
<1>1. /\ RowTyped' /\ WorkerTyped' /\ Running'
      /\ RepairTyped' /\ BoundsTyped' /\ Spent'
  BY DEF Typed, ServiceTyped, RowTyped, WorkerTyped, Running, RepairTyped,
     BoundsTyped, Spent, Rows, Workers, Repairs
<1>2. ServiceTyped'
  <2>1. repair.source \in Id
    BY DEF Typed, ServiceTyped, RepairTyped
  <2>2. links' \in [Id -> Nat]
    BY <2>1, LinksCount DEF Typed, ServiceTyped
  <2>. QED BY <2>2 DEF Typed, ServiceTyped
<1>. QED BY <1>1, <1>2 DEF Typed

LEMMA RetryTyped == Typed /\ Retry => Typed'
<1>. SUFFICES ASSUME Typed, Retry PROVE Typed'
  OBVIOUS
<1>. USE Numbers DEF Retry, service, bounds, NoRow, Away, Repairing, NoId, Idle
<1>1. /\ ServiceTyped' /\ RowTyped' /\ WorkerTyped' /\ Running'
      /\ RepairTyped' /\ BoundsTyped' /\ Spent'
  BY DEF Typed, ServiceTyped, RowTyped, WorkerTyped, Running, RepairTyped,
     BoundsTyped, Spent, Rows, Workers, Repairs, Id
<1>. QED BY <1>1 DEF Typed

LEMMA RepairStopsTyped == Typed /\ RepairStops => Typed'
<1>. SUFFICES ASSUME Typed, RepairStops PROVE Typed'
  OBVIOUS
<1>. USE Numbers DEF RepairStops, service, Fault, Away, NoId, Idle
<1>1. ServiceTyped' /\ RowTyped' /\ WorkerTyped' /\ Running'
  BY DEF Typed, ServiceTyped, RowTyped, WorkerTyped, Running
<1>2. RepairTyped'
  BY DEF RepairTyped, Repairs
<1>3. BoundsTyped'
  BY DEF Typed, BoundsTyped
<1>4. Spent'
  BY DEF Typed, RowTyped, Rows, BoundsTyped, Spent
<1>. QED BY <1>1, <1>2, <1>3, <1>4 DEF Typed

LEMMA OtherAddedTyped == Typed /\ OtherAdded => Typed'
<1>. SUFFICES ASSUME Typed, OtherAdded PROVE Typed'
  OBVIOUS
<1>. USE Numbers DEF OtherAdded, bounds, NoId, Idle
<1>1. ServiceTyped' /\ RowTyped'
  BY DEF Typed, ServiceTyped, RowTyped, WorkerTyped, Running, RepairTyped,
     BoundsTyped, Spent, Rows, Workers, Id
<1>2. WorkerTyped' /\ Running'
  BY DEF Typed, ServiceTyped, RowTyped, WorkerTyped, Running, Rows, Workers
<1>3. RepairTyped' /\ BoundsTyped'
  BY DEF Typed, ServiceTyped, RowTyped, RepairTyped, BoundsTyped, Repairs
<1>4. Spent'
  BY DEF Typed, RowTyped, WorkerTyped, Running, BoundsTyped, Spent, Rows, Workers
<1>. QED BY <1>1, <1>2, <1>3, <1>4 DEF Typed

LEMMA CreatedLateTyped == Typed /\ CreatedLate => Typed'
<1>. SUFFICES ASSUME Typed, CreatedLate PROVE Typed'
  OBVIOUS
<1>. USE Numbers DEF CreatedLate, Created, NoId, Idle
<1>1. /\ RowTyped' /\ WorkerTyped' /\ Running'
      /\ RepairTyped' /\ BoundsTyped' /\ Spent'
  <2>1. /\ ours \subseteq ours' /\ row' = row /\ worker' = worker /\ repair' = repair
        /\ faults' = faults /\ drops' = drops /\ resets' = resets /\ repairs' = repairs
        /\ limbo /\ limbo' = FALSE /\ lates' = lates + 1
    OBVIOUS
  <2>2. RowTyped' /\ WorkerTyped' /\ RepairTyped'
    BY <2>1 DEF Typed, RowTyped, WorkerTyped, RepairTyped
  <2>3. Running' /\ BoundsTyped' /\ Spent'
    BY <2>1 DEF Typed, Running, BoundsTyped, Spent
  <2>. QED BY <2>2, <2>3
<1>2. ServiceTyped'
  <2>1. next \in Id
    BY DEF Typed, ServiceTyped, Id
  <2>2. links' = links /\ limbo' \in BOOLEAN
    BY DEF Typed, ServiceTyped
  <2>3. \/ live' = live \cup {next} /\ ours' = ours \cup {next} /\ next' = next + 1
        \/ live' = live /\ ours' = ours /\ next' = next
    OBVIOUS
  <2>4. next' \in 1..LastId + 1 /\ next \in Nat /\ next' >= next
    BY <2>1, <2>3 DEF Typed, ServiceTyped, Id
  <2>5. live' \subseteq Id /\ ours' \subseteq Id
    BY <2>1, <2>3 DEF Typed, ServiceTyped
  <2>6. \A i \in live' \cup ours' : i < next'
    <3>1. \A i \in live \cup ours : i \in Nat /\ i < next
      BY DEF Typed, ServiceTyped, Id
    <3>2. CASE live' = live /\ ours' = ours /\ next' = next
      BY <3>1, <3>2
    <3>3. CASE live' = live \cup {next} /\ ours' = ours \cup {next} /\ next' = next + 1
      <4>1. \A i \in live' \cup ours' : i = next \/ i \in live \cup ours
        BY <3>3
      <4>. QED BY <2>4, <3>1, <3>3, <4>1
    <3>. QED BY <2>3, <3>2, <3>3
  <2>. QED BY <2>2, <2>4, <2>5, <2>6 DEF Typed, ServiceTyped
<1>. QED BY <1>1, <1>2 DEF Typed

LEMMA CrashTyped == Typed /\ Crash => Typed'
<1>. SUFFICES ASSUME Typed, Crash PROVE Typed'
  OBVIOUS
<1>. USE Numbers DEF Crash, service, Fault, Idle, NoId
<1>1. /\ ServiceTyped' /\ RowTyped' /\ WorkerTyped' /\ Running'
      /\ RepairTyped' /\ BoundsTyped' /\ Spent'
  BY DEF Typed, ServiceTyped, RowTyped, WorkerTyped, Running, RepairTyped,
     BoundsTyped, Spent, Rows, Workers, Repairs, Id
<1>. QED BY <1>1 DEF Typed

LEMMA ResetTyped == Typed /\ Reset => Typed'
<1>. SUFFICES ASSUME Typed, Reset PROVE Typed'
  OBVIOUS
<1>. USE Numbers DEF Reset, service, NoRow, NoId, Idle
<1>1. /\ ServiceTyped' /\ RowTyped' /\ WorkerTyped' /\ Running'
      /\ RepairTyped' /\ BoundsTyped' /\ Spent'
  BY DEF Typed, ServiceTyped, RowTyped, WorkerTyped, Running, RepairTyped,
     BoundsTyped, Spent, Rows, Workers, Repairs, Id
<1>. QED BY <1>1 DEF Typed

LEMMA DroppedTyped == ASSUME Typed, NEW s \in Id, Dropped(s) PROVE Typed'
<1>. USE Numbers DEF Dropped
<1>1. ServiceTyped'
  BY DEF Typed, ServiceTyped
<1>2. RowTyped' /\ WorkerTyped' /\ Running' /\ RepairTyped'
  BY DEF Typed, RowTyped, WorkerTyped, Running, RepairTyped
<1>3. BoundsTyped' /\ Spent'
  BY DEF Typed, BoundsTyped, Spent
<1>. QED BY <1>1, <1>2, <1>3 DEF Typed

LEMMA StutterTyped == Typed /\ UNCHANGED vars => Typed'
  BY DEF Typed, ServiceTyped, RowTyped, WorkerTyped, Running, RepairTyped, BoundsTyped,
     Spent, vars, service, bounds

LEMMA NextTyped == Typed /\ [Next]_vars => Typed'
  BY StartTyped, AskRecordedTyped, WalkTyped, CreateTyped, CountLinksTyped,
     DetachTyped, AttachTyped, CheckTyped, ReadBackTyped, MarkDoneTyped,
     BeginRepairTyped, RepairWalkTyped, KeepTyped, ClearTyped,
     RepairCountTyped, RepairDetachTyped, RepairAttachTyped, RetryTyped,
     RepairStopsTyped, OtherAddedTyped, CreatedLateTyped, CrashTyped,
     ResetTyped, DroppedTyped, StutterTyped
  DEF Next, Run, Repair, Environment

(* What the stage keeps of its work, and what the repair does, stays within  *)
(* the types of TypeOK: a row that is done names a source of the file, and   *)
(* stops do not add up beyond MAX_ATTEMPTS.                                  *)
THEOREM TypeCorrect == Spec => []TypeOK
<1>. Typed /\ [Next]_vars => Typed'
  BY NextTyped
<1>. QED BY InitTyped, TypedIsTypeOK, PTL DEF Spec

-----------------------------------------------------------------------------
(* Counting.                                                               *)

(* How many of the list come before one.                                     *)
Above(list, i) == Cardinality({j \in list : j > i})

LEMMA AboveCounts ==
  ASSUME NEW list, IsFiniteSet(list), NEW i
  PROVE  Above(list, i) \in Nat /\ IsFiniteSet({j \in list : j > i})
  BY FS_Subset, FS_CardinalityType DEF Above

(* A newer one has fewer before it.                                          *)
LEMMA Fewer ==
  ASSUME NEW list \in SUBSET Int, IsFiniteSet(list), NEW i \in list, NEW k \in list, i < k
  PROVE  Above(list, k) < Above(list, i)
<1>. DEFINE A == {j \in list : j > i}
            B == {j \in list : j > k}
<1>0. k > i /\ ~(k > k) /\ \A j \in list : j > k => j > i
  OBVIOUS
<1>1. B \in SUBSET A /\ k \in A /\ k \notin B
  BY <1>0
<1>2. IsFiniteSet(A) /\ Cardinality(A) \in Nat /\ Cardinality(B) \in Nat
  BY AboveCounts DEF Above
<1>3. Cardinality(B) <= Cardinality(A) /\ (Cardinality(A) = Cardinality(B) => A = B)
  BY <1>1, <1>2, FS_Subset
<1>. QED BY <1>1, <1>2, <1>3 DEF Above

(* If one comes after the place hi, every place before hi is taken.          *)
LEMMA Full ==
  ASSUME NEW list \in SUBSET Int, IsFiniteSet(list), NEW c \in list,
         NEW lo \in Nat, NEW hi \in Nat, lo <= hi, hi <= Above(list, c)
  PROVE  Cardinality({i \in list : lo <= Above(list, i) /\ Above(list, i) < hi}) >= hi - lo
<1>. DEFINE T == {j \in list : j > c}
            n == Cardinality(T)
            f == [j \in T |-> Above(list, j)]
            P == {i \in list : lo <= Above(list, i) /\ Above(list, i) < hi}
            g == [j \in P |-> Above(list, j)]
<1>1. IsFiniteSet(T) /\ n \in Nat /\ n = Above(list, c)
  BY AboveCounts DEF Above
<1>2. \A j \in list : Above(list, j) \in Nat
  BY AboveCounts
<1>3. \A j \in T : Above(list, j) \in 0..n - 1
  BY <1>1, <1>2, Fewer
<1>4. \A i, j \in T : Above(list, i) = Above(list, j) => i = j
  <2>. SUFFICES ASSUME NEW i \in T, NEW j \in T, i # j
                PROVE  Above(list, i) # Above(list, j)
    OBVIOUS
  <2>1. i < j \/ j < i
    OBVIOUS
  <2>. QED BY <1>2, <2>1, Fewer
<1>5. f \in Injection(T, 0..n - 1)
  BY <1>3, <1>4 DEF Injection, IsInjective
<1>6. IsFiniteSet(0..n - 1) /\ Cardinality(0..n - 1) = n
  <2>1. n - 1 \in Int /\ 0 \in Int
    BY <1>1
  <2>2. /\ IsFiniteSet(0..n - 1)
        /\ Cardinality(0..n - 1) = IF 0 > n - 1 THEN 0 ELSE n - 1 - 0 + 1
    BY <2>1, FS_Interval
  <2>. HIDE DEF n
  <2>. QED BY <1>1, <2>2
<1>7. f \in Surjection(T, 0..n - 1)
  BY <1>5, <1>6, FS_Injection
<1>8. \A v \in 0..n - 1 : \E j \in T : Above(list, j) = v
  BY <1>7 DEF Surjection
<1>9. g \in Surjection(P, lo..hi - 1)
  <2>1. \A j \in P : Above(list, j) \in lo..hi - 1
    BY <1>2
  <2>2. \A v \in lo..hi - 1 : \E j \in P : Above(list, j) = v
    BY <1>1, <1>8
  <2>. QED BY <2>1, <2>2 DEF Surjection
<1>10. IsFiniteSet(P) /\ Cardinality(P) \in Nat
  BY FS_Subset, FS_CardinalityType
<1>11. Cardinality(lo..hi - 1) <= Cardinality(P)
  BY <1>9, <1>10, FS_Surjection
<1>12. Cardinality(lo..hi - 1) = hi - lo
  <2>1. Cardinality(lo..hi - 1) = IF lo > hi - 1 THEN 0 ELSE hi - 1 - lo + 1
    BY FS_Interval
  <2>. QED BY <2>1
<1>. QED BY <1>11, <1>12

-----------------------------------------------------------------------------
(* AddedOnce.  A stage that has found no copy of the file on the pages that  *)
(* it has read has none before the next page: other books' sources push the  *)
(* rest of the list back, and the repair, which moves it forward, deletes    *)
(* copies only, and each of them had its place behind what was read.         *)

Calm == drops = 0 /\ lates = 0

(* The copies are behind the first of these places.                          *)
Beyond(place) == \A c \in Copies : place <= Above(live, c)

Seen ==
  Calm =>
    /\ worker.pc = "walk" => worker.found # {} \/ Beyond(worker.page * PageSize)
    /\ worker.pc = "create" => Copies = {}

LEMMA FiniteIds ==
  ASSUME NEW list \in SUBSET Id
  PROVE  IsFiniteSet(list) /\ list \in SUBSET Int /\ \A i : Above(list, i) \in Nat
<1>1. IsFiniteSet(1..LastId)
  BY Numbers, FS_Interval
<1>2. IsFiniteSet(list)
  BY <1>1, FS_Subset DEF Id
<1>3. \A i : Above(list, i) \in Nat
  BY <1>2, AboveCounts
<1>4. list \in SUBSET Int
  BY Numbers DEF Id
<1>. QED BY <1>2, <1>3, <1>4

LEMMA FiniteList ==
  ASSUME Typed
  PROVE  /\ IsFiniteSet(live) /\ live \in SUBSET Int /\ Copies \subseteq live
         /\ \A i : Above(live, i) \in Nat
  BY FiniteIds DEF Typed, ServiceTyped, Copies

(* Pages are next to each other.                                             *)
LEMMA Places ==
  ASSUME NEW n \in Nat
  PROVE  /\ n * PageSize \in Nat /\ (n + 1) * PageSize \in Nat
         /\ (n + 1) * PageSize = n * PageSize + PageSize
         /\ n + 1 >= MaxPages => (n + 1) * PageSize >= LastId
<1>1. PageSize \in Nat /\ MaxPages \in Nat /\ LastId \in Nat /\ LastId <= PageSize * MaxPages
  BY NotebookAssumption
<1>2. n * PageSize \in Nat /\ (n + 1) * PageSize \in Nat
  BY <1>1
<1>3. (n + 1) * PageSize = n * PageSize + PageSize
  BY <1>1
<1>4. ASSUME n + 1 >= MaxPages PROVE (n + 1) * PageSize >= PageSize * MaxPages
  <2>1. PICK d \in Nat : n + 1 = MaxPages + d
    BY <1>1, <1>4
  <2>2. (n + 1) * PageSize = PageSize * MaxPages + d * PageSize
    BY <1>1, <2>1
  <2>3. d * PageSize \in Nat /\ PageSize * MaxPages \in Nat
    BY <1>1
  <2>. QED BY <2>2, <2>3
<1>. QED BY <1>1, <1>2, <1>3, <1>4

(* A page without copies moves the rest to the next.                         *)
LEMMA NextPage ==
  ASSUME Typed, NEW n \in Nat, Beyond(n * PageSize), PageAt(n) \cap ours = {}
  PROVE  Beyond((n + 1) * PageSize)
<1>. SUFFICES ASSUME NEW c \in Copies PROVE (n + 1) * PageSize <= Above(live, c)
  BY DEF Beyond
<1>1. c \in live /\ c \in ours /\ Above(live, c) \in Nat /\ n * PageSize <= Above(live, c)
  BY FiniteList DEF Beyond, Copies
<1>2. c \notin PageAt(n)
  BY <1>1
<1>3. ~(n * PageSize <= Above(live, c) /\ Above(live, c) < (n + 1) * PageSize)
  BY <1>1, <1>2 DEF PageAt, Above
<1>. QED BY <1>1, <1>3, Places

(* Nothing is behind the last page.                                          *)
LEMMA ListEnds ==
  ASSUME Typed, NEW walk, walk.page \in Nat, LastPage(walk), NEW c \in live
  PROVE  Above(live, c) < (walk.page + 1) * PageSize
<1>. DEFINE n == walk.page
<1>1. PageSize \in Nat /\ MaxPages \in Nat
  BY Numbers
<1>0. Above(live, c) \in Nat /\ (n + 1) * PageSize \in Nat
  BY FiniteList, Places
<1>. SUFFICES ASSUME (n + 1) * PageSize <= Above(live, c) PROVE FALSE
  BY <1>0
<1>2. c \in live /\ Above(live, c) \in Nat /\ (n + 1) * PageSize <= Above(live, c)
  BY <1>0
<1>3. CASE Cardinality(PageAt(n)) < PageSize
  <2>. DEFINE lo == n * PageSize
              hi == (n + 1) * PageSize
  <2>1. lo \in Nat /\ hi \in Nat /\ hi = lo + PageSize
    BY <1>1, Places
  <2>2. PageAt(n) = {i \in live : lo <= Above(live, i) /\ Above(live, i) < hi}
    BY DEF PageAt, Above
  <2>3. IsFiniteSet(live) /\ live \in SUBSET Int /\ hi <= Above(live, c)
    BY <1>2, FiniteList
  <2>. HIDE DEF lo, hi
  <2>4. Cardinality(PageAt(n)) >= hi - lo
    BY <1>1, <1>2, <2>1, <2>2, <2>3, Full
  <2>5. Cardinality(PageAt(n)) \in Nat
    BY <2>2, <2>3, FS_Subset, FS_CardinalityType
  <2>. QED BY <1>1, <1>3, <2>1, <2>4, <2>5
<1>4. CASE n + 1 >= MaxPages
  <2>1. (n + 1) * PageSize >= LastId /\ (n + 1) * PageSize \in Nat
    BY <1>1, <1>4, Places
  <2>2. c \in 1..LastId /\ {j \in live : j > c} \in SUBSET (c + 1..LastId)
    <3>1. c \in 1..LastId /\ \A j \in live : j \in 1..LastId
      BY <1>2 DEF Typed, ServiceTyped, Id
    <3>2. \A j \in live : j > c => j \in c + 1..LastId
      BY <3>1, Numbers
    <3>. QED BY <3>1, <3>2
  <2>3. IsFiniteSet(c + 1..LastId) /\ Cardinality(c + 1..LastId) < LastId
    <3>1. c + 1 \in Int /\ LastId \in Int
      BY <2>2, Numbers
    <3>2. /\ IsFiniteSet(c + 1..LastId)
          /\ Cardinality(c + 1..LastId) = IF c + 1 > LastId THEN 0 ELSE LastId - (c + 1) + 1
      BY <3>1, FS_Interval
    <3>. QED BY <2>2, <3>1, <3>2
  <2>4. Above(live, c) <= Cardinality(c + 1..LastId) /\ Cardinality(c + 1..LastId) \in Nat
    BY <2>2, <2>3, FS_Subset, FS_CardinalityType DEF Above
  <2>. QED BY <1>2, <2>1, <2>3, <2>4, Numbers
<1>. QED BY <1>3, <1>4 DEF LastPage

LEMMA WalkSeen ==
  ASSUME Typed, Seen, Walk
  PROVE  Seen'
<1>. DEFINE n == worker.page
            found == worker.found \cup (PageAt(n) \cap ours)
<1>1. n \in Nat /\ worker \in Workers /\ worker.pc = "walk"
  BY Numbers DEF Typed, WorkerTyped, Workers, Walk, At
<1>2. Calm' => Calm /\ UNCHANGED <<live, ours, Copies>>
  BY WalkCases DEF Calm, Copies, service
<1>3. found = {} /\ Calm => Beyond((n + 1) * PageSize)
  BY <1>1, NextPage DEF Seen
<1>4. CASE /\ ~LastPage(worker) /\ worker' = [worker EXCEPT !.page = @ + 1, !.found = found]
  <2>1. worker'.pc = "walk" /\ worker'.page = n + 1 /\ worker'.found = found
    BY <1>1, <1>4 DEF Workers
  <2>. HIDE DEF found, n
  <2>2. Calm' /\ found = {} => Beyond(worker.page * PageSize)'
    BY <1>2, <1>3, <2>1 DEF Beyond
  <2>. QED BY <2>1, <2>2 DEF Seen
<1>5. CASE LastPage(worker) /\ found = {} /\ worker' = [worker EXCEPT !.pc = "create"]
  <2>1. worker'.pc = "create"
    BY <1>1, <1>5 DEF Workers
  <2>2. Calm => Copies = {}
    <3>. SUFFICES ASSUME Calm, NEW c \in Copies PROVE FALSE
      OBVIOUS
    <3>1. c \in live /\ (n + 1) * PageSize <= Above(live, c)
      BY <1>3, <1>5 DEF Beyond, Copies
    <3>2. Above(live, c) \in Nat /\ (n + 1) * PageSize \in Nat
      BY <1>1, FiniteList, Places
    <3>. QED BY <1>1, <1>5, <3>1, <3>2, ListEnds
  <2>3. Calm' => Copies' = {}
    BY <1>2, <2>2
  <2>. QED BY <2>1, <2>3 DEF Seen
<1>6. CASE worker'.pc \in {"count", "done"}
  BY <1>6 DEF Seen
<1>7. \/ ~LastPage(worker) /\ worker' = [worker EXCEPT !.page = @ + 1, !.found = found]
      \/ LastPage(worker) /\ found = {} /\ worker' = [worker EXCEPT !.pc = "create"]
      \/ worker' = [worker EXCEPT !.pc = "count", !.source = Min(found), !.found = {}]
      \/ \E res \in {"failed", "blocked"} : Ends(res)
  BY WalkCases DEF Raises
<1>8. (\/ worker' = [worker EXCEPT !.pc = "count", !.source = Min(found), !.found = {}]
      \/ \E res \in {"failed", "blocked"} : Ends(res)) => worker'.pc \in {"count", "done"}
  BY <1>1 DEF Workers, Ends
<1>. QED BY <1>4, <1>5, <1>6, <1>7, <1>8

(* A step of the stage that reads no page begins the list anew or leaves it. *)
LEMMA RunSeen ==
  ASSUME Typed, Seen, Run, ~Walk
  PROVE  Seen'
<1>. SUFFICES \/ worker'.pc \notin {"walk", "create"}
              \/ worker'.pc = "walk" /\ worker'.page = 0
  <2>1. 0 * PageSize = 0
    BY Numbers
  <2>2. live' \in SUBSET Id
    BY NextTyped DEF Next, Typed, ServiceTyped
  <2>3. Beyond(0 * PageSize)'
    BY <2>1, <2>2, FiniteIds DEF Beyond
  <2>. QED BY <2>3 DEF Seen
<1>1. worker \in Workers /\ (worker.pc = "ask" => worker.page = 0)
  BY DEF Typed, WorkerTyped
<1>2. CASE AskRecorded
  BY <1>1, <1>2 DEF AskRecorded, Raises, Ends, At, Workers
<1>3. CASE Start
  BY <1>3 DEF Start, Idle
<1>4. CASE Create
  <2>1. \/ worker' = [worker EXCEPT !.pc = "count", !.source = next]
        \/ \E res \in {"failed", "blocked"} : Ends(res)
    BY <1>4, CreateCases DEF Raises
  <2>2. worker'.pc \in {"count", "done"}
    BY <1>1, <2>1 DEF Ends, Workers
  <2>. QED BY <2>2
<1>5. CASE CountLinks \/ Detach \/ Attach \/ Check \/ ReadBack
  <2>1. \/ \E pc \in {"attach", "read", "missed", "detach", "check"} : GoTo(pc)
        \/ \E res \in {"ok", "failed", "blocked"} : Ends(res)
    BY <1>5 DEF CountLinks, Detach, Attach, Check, ReadBack, Raises
  <2>2. worker'.pc \in {"attach", "read", "missed", "detach", "check", "done"}
    BY <1>1, <2>1 DEF GoTo, Ends, Workers
  <2>. QED BY <2>2
<1>6. CASE MarkDone
  BY <1>6 DEF MarkDone, Idle
<1>. QED BY <1>2, <1>3, <1>4, <1>5, <1>6 DEF Run

(* Elsewhere, sources of other books come, and copies go.                    *)
LEMMA ListUnchanged ==
  ASSUME Seen, UNCHANGED <<live, ours, drops, lates>>,
         worker' = worker \/ worker'.pc = "idle"
  PROVE  Seen'
  BY DEF Seen, Calm, Beyond, Copies

LEMMA OtherAddedSeen == ASSUME Typed, Seen, OtherAdded PROVE Seen'
<1>1. /\ live' = live \cup {next} /\ ours' = ours /\ worker' = worker /\ (Calm' => Calm)
      /\ next \notin ours
  BY Numbers DEF OtherAdded, bounds, Calm, Typed, ServiceTyped, Id
<1>2. Copies' = Copies
  BY <1>1 DEF Copies
<1>3. IsFiniteSet(live')
  BY <1>1, FiniteList, FS_AddElement
<1>4. \A c : Above(live, c) <= Above(live', c)
  <2>. TAKE c
  <2>1. {j \in live : j > c} \in SUBSET {j \in live' : j > c}
    BY <1>1
  <2>. QED BY <1>3, <2>1, AboveCounts, FS_Subset DEF Above
<1>5. ASSUME NEW place \in Nat, Beyond(place), NEW c \in Copies'
      PROVE  place <= Above(live', c)
  <2>1. place <= Above(live, c) /\ Above(live, c) <= Above(live', c)
    BY <1>2, <1>4, <1>5 DEF Beyond
  <2>2. Above(live, c) \in Nat /\ Above(live', c) \in Nat
    BY <1>3, FiniteList, AboveCounts
  <2>. QED BY <2>1, <2>2
<1>6. worker.page * PageSize \in Nat
  BY Numbers, Places DEF Typed, WorkerTyped, Workers
<1>7. Beyond(worker.page * PageSize) => Beyond(worker.page * PageSize)'
  BY <1>1, <1>5, <1>6 DEF Beyond
<1>. QED BY <1>1, <1>2, <1>7 DEF Seen

LEMMA ClearSeen == ASSUME Typed, Seen, Clear PROVE Seen'
<1>. DEFINE s == Min(repair.found)
<1>1. ours' = ours /\ worker' = worker /\ (Calm' => Calm)
  BY DEF Clear, Calm
<1>2. CASE live' = live
  BY <1>1, <1>2 DEF Seen, Calm, Beyond, Copies
<1>3. CASE repair.found # {} /\ live' = live \ {s} /\ s \in live
  <2>1. s \in Copies
    BY <1>3, Oldest DEF Typed, ServiceTyped, RepairTyped, Copies
  <2>2. ASSUME NEW place \in Nat, Beyond(place), NEW c \in Copies'
        PROVE  place <= Above(live', c)
    <3>1. c \in Copies /\ c \in live /\ s \in live /\ c \in Int /\ s \in Int
      BY <1>1, <1>3, <2>1, <2>2, FiniteList DEF Copies
    <3>2. place <= Above(live, c) /\ place <= Above(live, s)
      BY <2>1, <2>2, <3>1 DEF Beyond
    <3>3. Above(live, c) \in Nat /\ Above(live, s) \in Nat
      BY FiniteList
    <3>4. CASE s > c
      <4>1. Above(live, s) < Above(live, c)
        BY <3>1, <3>4, FiniteList, Fewer
      <4>2. {j \in live' : j > c} = {j \in live : j > c} \ {s}
        BY <1>3
      <4>3. Above(live', c) = Above(live, c) - 1
        <5>1. s \in {j \in live : j > c} /\ IsFiniteSet({j \in live : j > c})
          BY <3>1, <3>4, FiniteList, AboveCounts
        <5>. HIDE DEF s
        <5>. QED BY <4>2, <5>1, FS_RemoveElement DEF Above
      <4>. QED BY <3>2, <3>3, <4>1, <4>3
    <3>5. CASE ~(s > c)
      <4>1. {j \in live' : j > c} = {j \in live : j > c}
        BY <1>3, <3>5
      <4>. QED BY <3>2, <4>1 DEF Above
    <3>. QED BY <3>4, <3>5
  <2>3. worker.page * PageSize \in Nat
    BY Numbers, Places DEF Typed, WorkerTyped, Workers
  <2>4. Beyond(worker.page * PageSize) => Beyond(worker.page * PageSize)'
    BY <1>1, <2>2, <2>3 DEF Beyond
  <2>5. Copies' \subseteq Copies
    BY <1>1, <1>3 DEF Copies
  <2>. QED BY <1>1, <2>4, <2>5 DEF Seen
<1>4. live' = live \/ (repair.found # {} /\ live' = live \ {s})
  BY DEF Clear
<1>. QED BY <1>2, <1>3, <1>4

LEMMA NextSeen == Typed /\ Seen /\ [Next]_vars => Seen'
<1>. SUFFICES ASSUME Typed, Seen, [Next]_vars PROVE Seen'
  OBVIOUS
<1>1. CASE Run
  BY <1>1, WalkSeen, RunSeen
<1>2. CASE Clear
  BY <1>2, ClearSeen
<1>3. CASE \/ RepairWalk \/ Keep \/ RepairCount \/ RepairDetach \/ RepairAttach \/ Retry
           \/ BeginRepair \/ RepairStops \/ Reset \/ Crash \/ UNCHANGED vars
  <2>1. UNCHANGED <<live, ours, drops, lates>> /\ (worker' = worker \/ worker'.pc = "idle")
    BY <1>3
    DEF RepairWalk, Keep, RepairCount, RepairDetach, RepairAttach, Retry, BeginRepair,
        RepairStops, Reset, Crash, Idle, service, bounds, vars
  <2>. QED BY <2>1, ListUnchanged
<1>4. CASE OtherAdded
  BY <1>4, OtherAddedSeen
<1>5. CASE (\E s \in Id : Dropped(s)) \/ CreatedLate
  <2>1. drops' > 0 \/ lates' > 0
    BY <1>5 DEF Dropped, CreatedLate, Typed, BoundsTyped
  <2>. QED BY <2>1 DEF Seen, Calm
<1>. QED BY <1>1, <1>2, <1>3, <1>4, <1>5 DEF Next, Repair, Environment

(* A step that makes a copy is one of a stage that has seen the whole list   *)
(* without any.                                                              *)
LEMMA CopyIsFirst ==
  ASSUME Typed, Seen, [Next]_vars
  PROVE  Copies' \subseteq Copies \/ Copies = {} \/ drops > 0 \/ lates' > 0
<1>1. CASE Create
  <2>1. Calm => Copies = {}
    BY <1>1 DEF Create, At, Seen
  <2>2. lates' = lates
    BY <1>1 DEF Create
  <2>. QED BY <2>1, <2>2 DEF Calm, Typed, BoundsTyped
<1>2. CASE CreatedLate
  BY <1>2 DEF CreatedLate, Typed, BoundsTyped
<1>3. CASE OtherAdded
  <2>1. next \notin ours
    BY Numbers DEF Typed, ServiceTyped, Id
  <2>. QED BY <1>3, <2>1 DEF OtherAdded, Copies
<1>4. CASE live' \subseteq live /\ ours' = ours
  BY <1>4 DEF Copies
<1>5. Create \/ CreatedLate \/ OtherAdded \/ (live' \subseteq live /\ ours' = ours)
  BY WalkCases
  DEF Next, Run, Repair, Environment, Start, AskRecorded, CountLinks, Detach, Attach,
      Check, ReadBack, MarkDone, BeginRepair, RepairWalk, Keep, Clear, RepairCount,
      RepairDetach, RepairAttach, Retry, RepairStops, Dropped, Crash, Reset,
      service, vars
<1>. QED BY <1>1, <1>2, <1>3, <1>4, <1>5

(* Through an interface that creates whatever it is asked to, a list that    *)
(* shifts under its reader, lost answers, stops, resets and the repair, the  *)
(* stage adds no second copy of the file: for any size of the page, any list *)
(* that fits the walk, and any number of earlier copies.                     *)
THEOREM AddsOnce == Spec => AddedOnce
<1>1. Init => Typed /\ Seen
  BY InitTyped DEF Init, Idle, Seen
<1>2. Typed /\ Seen /\ [Next]_vars => Typed' /\ Seen'
  BY NextTyped, NextSeen
<1>3. Typed /\ Seen /\ [Next]_vars
        => (Copies' \subseteq Copies \/ Copies = {} \/ drops > 0 \/ lates' > 0)
  BY CopyIsFirst
<1>. QED BY <1>1, <1>2, <1>3, PTL DEF Spec, AddedOnce

-----------------------------------------------------------------------------
(* RecordIsTrue and SparesTheUsed.  The oldest copy is never deleted, and it *)
(* is what a stage uses; except that a stage that reads the list while the   *)
(* repair clears it may miss the oldest.  It then has seen a copy that is    *)
(* deleted, and takes that one, or one that the repair has passed over.      *)

Old == Min(ours)

(* A walk has found the copies that are before its next page.                *)
Behind(walk) ==
  \A c \in Copies : c \in walk.found \/ walk.page * PageSize <= Above(live, c)

(* A copy that the repair has failed to delete: it does not come back to it. *)
Passed(c) ==
  /\ faults > 0 /\ repairs = 1 /\ repair.pc \notin {"walk", "keep"}
  /\ c \notin repair.found

(* The repair has deleted a copy that the stage has found.                   *)
Missed ==
  \E d \in worker.found \ live : \A c \in Copies : c < d => c = Old \/ Passed(c)

Right(s) == s \in live => s = Old \/ Passed(s)

(* A link that is there, or that the repair is about to make again.          *)
Linked(s) == links[s] > 0 \/ repair.pc = "attach"

StageKeeps ==
  /\ ours # {} => Old \in live
  /\ worker.pc = "walk" => Behind(worker) \/ Old \in worker.found \/ Missed
  /\ Right(worker.source) /\ Right(row.artifact)

RepairKeeps ==
  /\ repair.pc # "idle" => repairs > 0
  /\ repair.found \subseteq Copies
  /\ repair.pc = "walk" => Behind(repair) \/ Copies \subseteq {Old}
  /\ repair.pc = "keep" => repair.found = {} \/ repair.found = Copies
  /\ repair.pc \in {"clear", "count", "detach", "attach"} =>
       /\ ours # {} /\ repair.source = Old /\ Old \notin repair.found
  /\ repair.pc = "clear" /\ faults = 0 => Copies \subseteq repair.found \cup {Old}
  /\ repair.pc \notin {"walk", "keep", "clear"} => repair.found = {}

RecordStands ==
  /\ row.status = "ok" =>
       row.artifact \in live /\ (faults = 0 => Linked(row.artifact))
  /\ worker.pc = "done" /\ worker.res = "ok" =>
       worker.source \in live /\ (faults = 0 => Linked(worker.source))

Kept == Undisturbed => StageKeeps /\ RepairKeeps /\ RecordStands

LEMMA OldIs ==
  ASSUME Typed
  PROVE  /\ ours # {} => Old \in ours /\ \A i \in ours : Old <= i
         /\ ours \subseteq Int /\ live \subseteq Int /\ NoId \notin live
  BY Numbers, Oldest DEF Typed, ServiceTyped, Old, Id, NoId

(* Used copies stay what they are, while copies go and the repair goes on.   *)
LEMMA RightSame ==
  ASSUME live' \subseteq live, ours' = ours, \A c : Passed(c) => Passed(c)'
  PROVE  /\ \A s : Right(s) => Right(s)'
         /\ Missed /\ worker.found \subseteq worker'.found => Missed'
<1>1. Old' = Old
  BY DEF Old
<1>2. ASSUME NEW s, Right(s) PROVE Right(s)'
  BY <1>1, <1>2 DEF Right
<1>3. ASSUME Missed, worker.found \subseteq worker'.found PROVE Missed'
  <2>1. PICK d \in worker.found \ live : \A c \in Copies : c < d => c = Old \/ Passed(c)
    BY <1>3 DEF Missed
  <2>2. d \in worker'.found \ live' /\ Copies' \subseteq Copies
    BY <1>3, <2>1 DEF Copies
  <2>3. \A c \in Copies' : c < d => c = Old' \/ Passed(c)'
    BY <1>1, <2>1, <2>2
  <2>. QED BY <2>2, <2>3 DEF Missed
<1>. QED BY <1>2, <1>3

LEMMA StageSame ==
  ASSUME Typed, StageKeeps, UNCHANGED <<live, ours, worker>>,
         row'.artifact \in {row.artifact, NoId}, \A c : Passed(c) => Passed(c)'
  PROVE  StageKeeps'
<1>1. Old' = Old /\ (Behind(worker) => Behind(worker)')
  BY DEF Old, Behind, Copies
<1>2. Missed => Missed'
  BY RightSame
<1>3. Right(worker.source)'
  <2>1. Right(worker.source) /\ worker'.source = worker.source
    BY DEF StageKeeps
  <2>2. \A s : Right(s) => Right(s)'
    BY RightSame
  <2>. QED BY <1>1, <2>1, <2>2 DEF Right, Passed
<1>4. Right(row.artifact)'
  <2>1. Right(row.artifact) /\ NoId \notin live
    BY OldIs DEF StageKeeps
  <2>2. \A s : Right(s) => Right(s)'
    BY RightSame
  <2>. QED BY <1>1, <2>1, <2>2 DEF Right, Passed
<1>. QED BY <1>1, <1>2, <1>3, <1>4 DEF StageKeeps

LEMMA RecordSame ==
  ASSUME RecordStands, UNCHANGED <<live, links, worker>>,
         row' = row \/ row'.status = "pending",
         faults' = 0 => faults = 0 /\ (repair.pc # "attach" \/ repair'.pc = "attach")
  PROVE  RecordStands'
  BY DEF RecordStands, Linked

(* A step of the stage that creates nothing leaves the repair where it is.   *)
LEMMA RepairSame ==
  ASSUME RepairKeeps, UNCHANGED <<live, ours, repair, repairs>>, faults' = 0 => faults = 0
  PROVE  RepairKeeps'
  BY DEF RepairKeeps, Behind, Copies, Old

(* The oldest copy is on the list, so a walk that has come to its end with   *)
(* any has found it, or has missed it.                                       *)
LEMMA WalkTakes ==
  ASSUME Typed, StageKeeps, Walk, LastPage(worker),
         NEW found, found = worker.found \cup (PageAt(worker.page) \cap ours), found # {}
  PROVE  Right(Min(found))
<1>1. worker.pc = "walk" /\ worker.page \in Nat /\ worker.found \subseteq ours
  BY Numbers DEF Walk, At, Typed, WorkerTyped, Workers
<1>2. found \in SUBSET Id /\ found \subseteq ours /\ ours # {}
  BY <1>1 DEF Typed, ServiceTyped
<1>3. Min(found) \in found /\ \A y \in found : Min(found) <= y
  BY <1>2, Oldest
<1>4. Old \in Copies /\ \A i \in ours : Old <= i
  BY <1>2, OldIs DEF StageKeeps, Copies
<1>5. CASE Old \in found
  <2>1. Min(found) <= Old /\ Old <= Min(found) /\ Min(found) \in Int /\ Old \in Int
    BY <1>2, <1>3, <1>4, <1>5, OldIs
  <2>. QED BY <2>1 DEF Right
<1>6. CASE Missed
  <2>1. PICK d \in worker.found \ live : \A c \in Copies : c < d => c = Old \/ Passed(c)
    BY <1>6 DEF Missed
  <2>2. d \in found /\ Min(found) <= d /\ d \in Int /\ Min(found) \in Int
    BY <1>2, <1>3, <2>1, OldIs
  <2>3. Min(found) \in live => Min(found) \in Copies /\ Min(found) < d
    BY <1>2, <1>3, <2>1, <2>2 DEF Copies
  <2>. QED BY <2>1, <2>3 DEF Right
<1>7. CASE Behind(worker) /\ Old \notin found
  <2>. DEFINE n == worker.page
              hi == (n + 1) * PageSize
  <2>1. n * PageSize <= Above(live, Old) /\ Old \in live /\ Old \in ours
    BY <1>4, <1>7 DEF Behind, Copies
  <2>2. Old \notin PageAt(n) /\ Above(live, Old) \in Nat /\ hi \in Nat
    BY <1>1, <1>7, <2>1, FiniteList, Places
  <2>3. hi <= Above(live, Old)
    BY <2>1, <2>2 DEF PageAt, Above
  <2>4. Above(live, Old) < hi
    BY <1>1, <2>1, ListEnds
  <2>. HIDE DEF hi
  <2>. QED BY <2>2, <2>3, <2>4
<1>. QED BY <1>1, <1>5, <1>6, <1>7 DEF StageKeeps

LEMMA BehindNext ==
  ASSUME Typed, NEW walk, walk.page \in Nat, Behind(walk),
         NEW later, later.page = walk.page + 1,
         later.found = walk.found \cup (PageAt(walk.page) \cap ours)
  PROVE  Behind(later)
<1>. SUFFICES ASSUME NEW c \in Copies, c \notin later.found
              PROVE  later.page * PageSize <= Above(live, c)
  BY DEF Behind
<1>1. c \notin walk.found /\ c \notin PageAt(walk.page) /\ c \in live
  BY DEF Copies
<1>2. walk.page * PageSize <= Above(live, c) /\ Above(live, c) \in Nat
  BY <1>1, FiniteList DEF Behind
<1>3. (walk.page + 1) * PageSize \in Nat
  BY Places
<1>. QED BY <1>1, <1>2, <1>3 DEF PageAt, Above

(* The stage.  What it takes up is right, and what it ends with is there.    *)
Steady ==
  /\ UNCHANGED <<live, ours, repair, repairs>>
  /\ faults' = faults \/ (faults >= 0 /\ faults' = faults + 1)

LEMMA SteadyKeeps ==
  ASSUME Typed, Steady
  PROVE  /\ RepairKeeps => RepairKeeps'
         /\ \A c : Passed(c) => Passed(c)'
         /\ \A s : Right(s) => Right(s)'
         /\ faults' = 0 => faults = 0
         /\ Old' = Old /\ Right(NoId)' /\ (ours' # {} => Old' \in live') = (ours # {} => Old \in live)
<1>1. faults \in Nat
  BY Numbers DEF Typed, BoundsTyped
<1>2. \A c : Passed(c) => Passed(c)'
  BY <1>1 DEF Passed, Steady
<1>3. \A s : Right(s) => Right(s)'
  BY <1>2, RightSame DEF Steady
<1>4. faults' = 0 => faults = 0
  BY <1>1 DEF Steady
<1>5. RepairKeeps => RepairKeeps'
  BY <1>4, RepairSame DEF Steady
<1>6. Old' = Old /\ Right(NoId)'
  BY OldIs DEF Steady, Old, Right
<1>. QED BY <1>2, <1>3, <1>4, <1>5, <1>6 DEF Steady

(* A run that is under way, and reads no page in this step.                  *)
LEMMA RunKeeps ==
  ASSUME Typed, StageKeeps, RepairKeeps, RecordStands, Steady, row' = row,
         worker.pc # "idle", worker'.pc = "walk" => worker'.page = 0,
         Right(worker'.source),
         worker'.pc = "done" /\ worker'.res = "ok" =>
           worker'.source \in live /\ links'[worker'.source] > 0
  PROVE  StageKeeps' /\ RepairKeeps' /\ RecordStands'
<1>1. RepairKeeps'
  BY SteadyKeeps
<1>2. row.status # "ok"
  BY DEF Typed, Running
<1>3. RecordStands'
  BY <1>2 DEF RecordStands, Linked, Steady
<1>4. worker'.pc = "walk" => Behind(worker)'
  <2>1. 0 * PageSize = 0 /\ \A i : 0 <= Above(live, i)
    BY Numbers, FiniteList
  <2>. QED BY <2>1 DEF Behind, Steady, Copies
<1>5. Right(worker.source)' /\ Right(row.artifact)'
  <2>1. Right(row.artifact) /\ \A s : Right(s) => Right(s)'
    BY SteadyKeeps DEF StageKeeps
  <2>. QED BY <2>1 DEF Right, Passed
<1>. QED BY <1>1, <1>3, <1>4, <1>5, SteadyKeeps DEF StageKeeps

LEMMA StageOf ==
  ASSUME Typed, StageKeeps, RepairKeeps, RecordStands,
         AskRecorded \/ CountLinks \/ Detach \/ Attach \/ Check \/ ReadBack
  PROVE  StageKeeps' /\ RepairKeeps' /\ RecordStands'
<1>. USE DEF At, Raises, Fault, Ends, GoTo, service
<1>0. worker \in Workers /\ faults \in Nat /\ Right(worker.source) /\ Right(row.artifact)
  BY Numbers DEF Typed, WorkerTyped, BoundsTyped, StageKeeps
<1>1. Steady /\ row' = row /\ worker.pc # "idle"
  BY <1>0 DEF AskRecorded, CountLinks, Detach, Attach, Check, ReadBack, Steady
<1>2. CASE AskRecorded
  <2>1. /\ worker'.pc = "walk" => worker'.page = worker.page
        /\ worker'.source \in {worker.source, row.artifact}
        /\ ~(worker'.pc = "done" /\ worker'.res = "ok")
        /\ worker.pc = "ask"
    BY <1>0, <1>2 DEF AskRecorded, Workers
  <2>2. worker.page = 0
    BY <2>1 DEF Typed, WorkerTyped
  <2>. QED BY <1>0, <1>1, <2>1, <2>2, RunKeeps
<1>3. CASE CountLinks \/ Detach \/ Attach \/ Check
  <2>1. \/ \E pc \in {"attach", "read", "missed", "detach", "check"} : GoTo(pc)
        \/ \E res \in {"failed", "blocked"} : Ends(res)
    BY <1>3 DEF CountLinks, Detach, Attach, Check
  <2>2. /\ worker'.pc # "walk" /\ worker'.source = worker.source
        /\ ~(worker'.pc = "done" /\ worker'.res = "ok")
    BY <1>0, <2>1 DEF Workers
  <2>. QED BY <1>0, <1>1, <2>2, RunKeeps
<1>4. CASE ReadBack
  <2>1. \E res \in {"ok", "failed", "blocked"} :
           /\ Ends(res)
           /\ res = "ok" => worker.source \in live /\ links[worker.source] # 0
    BY <1>4 DEF ReadBack
  <2>2. /\ worker'.pc = "done" /\ worker'.source = worker.source
        /\ worker'.res = "ok" => worker.source \in live /\ links[worker.source] # 0
    BY <1>0, <2>1 DEF Workers
  <2>3. links' = links /\ \A i \in live : links[i] \in Nat
    BY <1>4 DEF ReadBack, Typed, ServiceTyped
  <2>. QED BY <1>0, <1>1, <2>2, <2>3, RunKeeps
<1>. QED BY <1>2, <1>3, <1>4

LEMMA WalkKeeps ==
  ASSUME Typed, StageKeeps, RepairKeeps, RecordStands, Walk
  PROVE  StageKeeps' /\ RepairKeeps' /\ RecordStands'
<1>. DEFINE n == worker.page
            found == worker.found \cup (PageAt(n) \cap ours)
<1>0. worker \in Workers /\ faults \in Nat /\ Right(worker.source) /\ worker.pc = "walk"
  BY Numbers DEF Typed, WorkerTyped, BoundsTyped, StageKeeps, Walk, At
<1>1. Steady /\ row' = row /\ links' = links
  BY <1>0, WalkCases DEF Steady, service, Raises, Fault
<1>2. n \in Nat
  BY <1>0, Numbers DEF Workers
<1>3. CASE ~LastPage(worker) /\ worker' = [worker EXCEPT !.page = @ + 1, !.found = found]
  <2>1. /\ worker'.pc = "walk" /\ worker'.page = n + 1 /\ worker'.found = found
        /\ worker'.source = worker.source
    BY <1>0, <1>3 DEF Workers
  <2>. HIDE DEF found
  <2>2. worker'.found = worker.found \cup (PageAt(n) \cap ours)
    BY <2>1 DEF found
  <2>3. Behind(worker) => Behind(worker)'
    <3>1. Behind(worker) => Behind(worker')
      BY <1>2, <2>1, <2>2, BehindNext
    <3>. QED BY <1>1, <3>1 DEF Behind, Steady, Copies
  <2>4. Old \in worker.found => Old' \in worker'.found
    BY <2>2, SteadyKeeps, <1>1
  <2>5. Missed => Missed'
    <3>1. \A c : Passed(c) => Passed(c)'
      BY <1>1, SteadyKeeps
    <3>2. live' \subseteq live /\ ours' = ours /\ worker.found \subseteq worker'.found
      BY <1>1, <2>2 DEF Steady
    <3>. QED BY <3>1, <3>2, RightSame
  <2>6. Right(worker.source)' /\ Right(row.artifact)'
    <3>1. Right(row.artifact) /\ Right(worker.source) /\ \A s : Right(s) => Right(s)'
      BY <1>1, SteadyKeeps DEF StageKeeps
    <3>. QED BY <1>1, <2>1, <3>1 DEF Right, Passed
  <2>7. RecordStands'
    BY <1>0, <1>1, <2>1 DEF RecordStands, Typed, Running
  <2>. QED BY <1>0, <1>1, <2>3, <2>4, <2>5, <2>6, <2>7, SteadyKeeps DEF StageKeeps
<1>4. CASE /\ LastPage(worker) /\ found # {}
           /\ worker' = [worker EXCEPT !.pc = "count", !.source = Min(found), !.found = {}]
  <2>1. worker'.pc = "count" /\ worker'.source = Min(found)
    BY <1>0, <1>4 DEF Workers
  <2>2. Right(Min(found))
    BY <1>4, WalkTakes
  <2>. HIDE DEF found
  <2>. QED BY <1>0, <1>1, <2>1, <2>2, RunKeeps
<1>5. CASE \/ worker' = [worker EXCEPT !.pc = "create"]
           \/ \E res \in {"failed", "blocked"} : Ends(res)
  <2>1. /\ worker'.pc # "walk" /\ worker'.source = worker.source
        /\ ~(worker'.pc = "done" /\ worker'.res = "ok")
    BY <1>0, <1>5 DEF Workers, Ends
  <2>. QED BY <1>0, <1>1, <2>1, RunKeeps
<1>. QED BY <1>3, <1>4, <1>5, WalkCases DEF Raises

LEMMA StartKeeps ==
  ASSUME Typed, StageKeeps, RepairKeeps, RecordStands, Start \/ MarkDone \/ Crash \/ Reset
  PROVE  StageKeeps' /\ RepairKeeps' /\ RecordStands'
<1>. USE DEF service, bounds, Fault
<1>0. worker \in Workers /\ faults \in Nat /\ row \in Rows
  BY Numbers DEF Typed, WorkerTyped, BoundsTyped, RowTyped
<1>1. Steady
  BY <1>0 DEF Start, MarkDone, Crash, Reset, Steady
<1>2. Right(worker.source) /\ Right(row.artifact) /\ \A s : Right(s) => Right(s)'
  BY <1>1, SteadyKeeps DEF StageKeeps
<1>3. CASE Start \/ MarkDone \/ Crash
  <2>1. worker'.pc \in {"idle", "ask"} /\ worker'.source = NoId
    BY <1>3 DEF Start, MarkDone, Crash, Idle
  <2>2. row'.artifact \in {row.artifact, worker.source}
    <3>1. CASE Start
      BY <1>0, <3>1 DEF Start, Rows
    <3>2. CASE MarkDone
      BY <3>2 DEF MarkDone
    <3>3. CASE Crash
      BY <3>3 DEF Crash
    <3>. QED BY <1>3, <3>1, <3>2, <3>3
  <2>3. Right(row.artifact)' /\ Right(worker.source)'
    BY <1>1, <1>2, <2>1, <2>2, SteadyKeeps DEF Right, Passed
  <2>4. StageKeeps'
    BY <1>1, <2>1, <2>3, SteadyKeeps DEF StageKeeps
  <2>5. RecordStands'
    <3>1. CASE Start
      BY <1>0, <2>1, <3>1 DEF Start, Rows, RecordStands
    <3>2. CASE Crash
      <4>1. row' = row /\ row.status # "ok"
        BY <3>2 DEF Crash, Typed, Running, Idle
      <4>. QED BY <2>1, <4>1 DEF RecordStands
    <3>3. CASE MarkDone
      <4>1. /\ row'.status = worker.res /\ (worker.res = "ok" => row'.artifact = worker.source)
            /\ worker.pc = "done" /\ UNCHANGED <<live, links, repair, faults>>
        BY <3>3 DEF MarkDone, At
      <4>. QED BY <2>1, <4>1 DEF RecordStands, Linked
    <3>. QED BY <1>3, <3>1, <3>2, <3>3
  <2>. QED BY <1>1, <2>4, <2>5, SteadyKeeps
<1>4. CASE Reset
  <2>1. row' = NoRow /\ row'.artifact = NoId /\ row'.status = "pending" /\ faults' = faults
        /\ UNCHANGED <<live, ours, links, worker, repair>>
    BY <1>4 DEF Reset, NoRow
  <2>2. \A c : Passed(c) => Passed(c)'
    BY <1>1, SteadyKeeps
  <2>3. StageKeeps'
    BY <2>1, <2>2, StageSame
  <2>4. RecordStands'
    BY <2>1, RecordSame
  <2>. QED BY <1>1, <2>3, <2>4, SteadyKeeps
<1>. QED BY <1>3, <1>4

(* A copy is created when there is none: it is the oldest.                   *)
LEMMA CreateKeeps ==
  ASSUME Typed, Seen, Calm, StageKeeps, RepairKeeps, RecordStands, Create
  PROVE  StageKeeps' /\ RepairKeeps' /\ RecordStands'
<1>0. worker \in Workers /\ faults \in Nat /\ worker.pc = "create" /\ next \in Id
  BY Numbers DEF Typed, WorkerTyped, BoundsTyped, ServiceTyped, Create, At, Id
<1>1. ours = {} /\ Copies = {}
  BY <1>0, OldIs DEF Seen, StageKeeps, Copies
<1>2. worker.source = NoId /\ row.artifact = NoId /\ repair.found = {} /\ row.status # "ok"
  BY <1>0, <1>1 DEF Typed, WorkerTyped, RowTyped, RepairTyped, Running
<1>3. /\ UNCHANGED <<row, repair, repairs, links>>
      /\ faults' = faults \/ faults' = faults + 1
  BY DEF Create, Raises, Fault
<1>4. /\ worker'.pc \in {"count", "done"} /\ worker'.source \in {next, NoId}
      /\ worker'.source = next => Created
      /\ ~(worker'.pc = "done" /\ worker'.res = "ok")
  <2>1. \/ worker' = [worker EXCEPT !.pc = "count", !.source = next] /\ Created
        \/ \E res \in {"failed", "blocked"} : worker' = [worker EXCEPT !.pc = "done", !.res = res]
    BY CreateCases DEF Raises, Ends
  <2>2. next # NoId
    BY <1>0, Numbers DEF NoId, Id
  <2>3. CASE worker' = [worker EXCEPT !.pc = "count", !.source = next] /\ Created
    BY <1>0, <2>3 DEF Workers
  <2>4. CASE \E res \in {"failed", "blocked"} : worker' = [worker EXCEPT !.pc = "done", !.res = res]
    BY <1>0, <1>2, <2>2, <2>4 DEF Workers
  <2>. QED BY <2>1, <2>3, <2>4
<1>5. RecordStands'
  BY <1>2, <1>3, <1>4 DEF RecordStands
<1>6. repair.pc \notin {"clear", "count", "detach", "attach"}
  BY <1>1 DEF RepairKeeps
<1>7. CASE Created
  <2>1. ours' = {next} /\ Old' = next /\ Copies' = {next} /\ next \in live'
    <3>1. ours' = {next} /\ next \in live' /\ Copies' = {next}
      BY <1>1, <1>7 DEF Created, Copies
    <3>2. Min({next}) = next
      BY <1>0, Oldest
    <3>. QED BY <3>1, <3>2 DEF Old
  <2>2. live' = live \cup {next} /\ NoId \notin live'
    BY <1>0, <1>7, OldIs, Numbers DEF Created, Id, NoId
  <2>3. StageKeeps'
    BY <1>2, <1>3, <1>4, <2>1, <2>2 DEF StageKeeps, Right
  <2>4. RepairKeeps'
    BY <1>2, <1>3, <1>6, <2>1 DEF RepairKeeps
  <2>. QED BY <1>5, <2>3, <2>4
<1>8. CASE UNCHANGED <<live, ours>> /\ worker'.source # next
  <2>1. Copies' = {} /\ ours' = {} /\ NoId \notin live'
    BY <1>1, <1>8, OldIs DEF Copies
  <2>2. StageKeeps'
    BY <1>2, <1>3, <1>4, <1>8, <2>1 DEF StageKeeps, Right
  <2>3. RepairKeeps'
    BY <1>2, <1>3, <1>6, <2>1 DEF RepairKeeps, Behind
  <2>. QED BY <1>5, <2>2, <2>3
<1>9. Created \/ (UNCHANGED <<live, ours>> /\ worker'.source # next)
  BY <1>4, CreateCases
<1>. QED BY <1>7, <1>8, <1>9

(* Another book's source pushes copies back.                                 *)
LEMMA OtherAddedKeeps ==
  ASSUME Typed, StageKeeps, RepairKeeps, RecordStands, OtherAdded
  PROVE  StageKeeps' /\ RepairKeeps' /\ RecordStands'
<1>1. /\ live' = live \cup {next} /\ next \notin live /\ next \notin ours /\ next \in Id
      /\ UNCHANGED <<ours, links, row, worker, repair, repairs, faults>>
  BY Numbers DEF OtherAdded, bounds, Typed, ServiceTyped, Id
<1>2. Copies' = Copies /\ Old' = Old
  BY <1>1 DEF Copies, Old
<1>3. \A c : Above(live, c) <= Above(live', c) /\ Above(live, c) \in Nat /\ Above(live', c) \in Nat
  <2>. TAKE c
  <2>1. IsFiniteSet(live')
    BY <1>1, FiniteList, FS_AddElement
  <2>2. {j \in live : j > c} \in SUBSET {j \in live' : j > c}
    BY <1>1
  <2>. QED BY <2>1, <2>2, FiniteList, AboveCounts, FS_Subset DEF Above
<1>4. worker.page * PageSize \in Nat /\ repair.page * PageSize \in Nat
  BY Numbers, Places DEF Typed, WorkerTyped, RepairTyped, Workers, Repairs
<1>5. (Behind(worker) => Behind(worker)') /\ (Behind(repair) => Behind(repair)')
  <2>1. \A c \in Copies : worker.page * PageSize <= Above(live, c)
                            => worker.page * PageSize <= Above(live', c)
    BY <1>3, <1>4
  <2>2. \A c \in Copies : repair.page * PageSize <= Above(live, c)
                            => repair.page * PageSize <= Above(live', c)
    BY <1>3, <1>4
  <2>. QED BY <1>1, <1>2, <2>1, <2>2 DEF Behind
<1>6. \A c : Passed(c)' = Passed(c)
  BY <1>1 DEF Passed
<1>7. Missed => Missed'
  <2>. SUFFICES ASSUME Missed PROVE Missed'
    OBVIOUS
  <2>1. PICK d \in worker.found \ live : \A c \in Copies : c < d => c = Old \/ Passed(c)
    BY DEF Missed
  <2>2. d \in worker'.found \ live'
    BY <1>1, <2>1 DEF Typed, WorkerTyped
  <2>. QED BY <1>2, <1>6, <2>1, <2>2 DEF Missed
<1>8. Right(worker.source)' /\ Right(row.artifact)'
  <2>1. worker.source # next /\ row.artifact # next
    BY <1>1, Numbers DEF Typed, WorkerTyped, RowTyped, Id, NoId
  <2>. QED BY <1>1, <1>2, <2>1 DEF StageKeeps, Right, Passed
<1>9. StageKeeps'
  BY <1>1, <1>2, <1>5, <1>7, <1>8 DEF StageKeeps
<1>10. RepairKeeps'
  BY <1>1, <1>2, <1>5 DEF RepairKeeps
<1>11. RecordStands'
  BY <1>1 DEF RecordStands, Linked
<1>. QED BY <1>9, <1>10, <1>11

(* The repair.  It finds all copies, keeps the oldest, and clears the others *)
(* from the oldest on.                                                       *)
LEMMA BeginKeeps ==
  ASSUME Typed, Undisturbed', StageKeeps, RepairKeeps, RecordStands, BeginRepair
  PROVE  StageKeeps' /\ RepairKeeps' /\ RecordStands'
<1>1. /\ UNCHANGED <<live, ours, links, row, worker, faults>> /\ repairs' = repairs + 1
      /\ repair' = [Away EXCEPT !.pc = "walk"] /\ repair.pc = "idle"
      /\ repairs \in Nat /\ faults \in Nat
  BY Numbers DEF BeginRepair, service, Away, Typed, BoundsTyped
<1>2. repair'.pc = "walk" /\ repair'.page = 0 /\ repair'.found = {}
  BY <1>1 DEF Away
<1>3. \A c : ~Passed(c)
  BY <1>1 DEF Passed, Undisturbed
<1>4. StageKeeps'
  BY <1>1, <1>3, StageSame
<1>5. Behind(repair)'
  <2>1. 0 * PageSize = 0 /\ \A i : 0 <= Above(live, i)
    BY Numbers, FiniteList
  <2>. QED BY <1>1, <1>2, <2>1 DEF Behind, Copies
<1>6. RepairKeeps'
  BY <1>1, <1>2, <1>5 DEF RepairKeeps
<1>7. RecordStands'
  BY <1>1, RecordSame
<1>. QED BY <1>4, <1>6, <1>7

LEMMA RepairWalkKeeps ==
  ASSUME Typed, StageKeeps, RepairKeeps, RecordStands, RepairWalk
  PROVE  StageKeeps' /\ RepairKeeps' /\ RecordStands'
<1>. DEFINE n == repair.page
            found == repair.found \cup (PageAt(n) \cap ours)
<1>1. /\ UNCHANGED <<live, ours, links, row, worker, faults, repairs>>
      /\ repair.pc = "walk" /\ repair \in Repairs /\ n \in Nat
  BY Numbers DEF RepairWalk, Repairing, service, bounds, Typed, RepairTyped, Repairs
<1>2. /\ repair'.found = found
      /\ LastPage(repair) => repair'.pc = "keep"
      /\ ~LastPage(repair) => repair'.pc = "walk" /\ repair'.page = n + 1
  <2>1. repair' = [repair EXCEPT !.found = found,
                                 !.page = IF LastPage(repair) THEN @ ELSE @ + 1,
                                 !.pc = IF LastPage(repair) THEN "keep" ELSE @]
    BY DEF RepairWalk
  <2>. HIDE DEF found
  <2>. QED BY <1>1, <2>1 DEF Repairs
<1>3. \A c : ~Passed(c)
  BY <1>1 DEF Passed
<1>4. StageKeeps' /\ RecordStands'
  BY <1>1, <1>3, StageSame, RecordSame
<1>5. Copies' = Copies /\ Old' = Old /\ found \subseteq Copies
  BY <1>1 DEF RepairKeeps, Copies, PageAt, Old
<1>6. repairs' > 0
  BY <1>1 DEF RepairKeeps
<1>. HIDE DEF found
<1>7. CASE ~LastPage(repair)
  <2>1. Behind(repair) => Behind(repair')
    BY <1>1, <1>2, <1>7, BehindNext DEF found
  <2>2. Behind(repair)' \/ Copies' \subseteq {Old'}
    BY <1>1, <1>5, <2>1 DEF Behind, Copies, RepairKeeps
  <2>. QED BY <1>2, <1>4, <1>5, <1>6, <1>7, <2>2 DEF RepairKeeps
<1>8. CASE LastPage(repair)
  <2>1. ASSUME Behind(repair), NEW c \in Copies, c \notin found PROVE FALSE
    <3>1. c \in live /\ c \in ours /\ c \notin repair.found /\ c \notin PageAt(n)
      BY <2>1 DEF Copies, found
    <3>2. n * PageSize <= Above(live, c) /\ Above(live, c) \in Nat /\ (n + 1) * PageSize \in Nat
      BY <1>1, <2>1, <3>1, FiniteList, Places DEF Behind
    <3>3. (n + 1) * PageSize <= Above(live, c)
      BY <3>1, <3>2 DEF PageAt, Above
    <3>4. Above(live, c) < (n + 1) * PageSize
      BY <1>1, <1>8, <3>1, ListEnds
    <3>. QED BY <3>2, <3>3, <3>4
  <2>2. found = {} \/ found = Copies
    <3>1. CASE Behind(repair)
      BY <1>5, <2>1, <3>1
    <3>2. CASE Copies \subseteq {Old}
      BY <1>5, <3>2
    <3>. QED BY <1>1, <3>1, <3>2 DEF RepairKeeps
  <2>. QED BY <1>2, <1>4, <1>5, <1>6, <1>8, <2>2 DEF RepairKeeps
<1>. QED BY <1>7, <1>8

LEMMA KeepKeeps ==
  ASSUME Typed, StageKeeps, RepairKeeps, RecordStands, Keep
  PROVE  StageKeeps' /\ RepairKeeps' /\ RecordStands'
<1>1. /\ UNCHANGED <<live, ours, links, row, worker, faults, repairs>>
      /\ repair.pc = "keep" /\ repair \in Repairs
  BY DEF Keep, Repairing, service, bounds, Typed, RepairTyped
<1>2. \A c : ~Passed(c)
  BY <1>1 DEF Passed
<1>3. StageKeeps' /\ RecordStands'
  BY <1>1, <1>2, StageSame, RecordSame
<1>4. Copies' = Copies /\ Old' = Old /\ repairs' > 0
  BY <1>1 DEF Copies, Old, RepairKeeps
<1>5. CASE repair.found = {}
  <2>1. repair' = [repair EXCEPT !.pc = "retry"]
    BY <1>5 DEF Keep
  <2>2. repair'.pc = "retry" /\ repair'.found = {}
    BY <1>1, <1>5, <2>1 DEF Repairs
  <2>. QED BY <1>3, <1>4, <2>2 DEF RepairKeeps
<1>6. CASE repair.found # {}
  <2>. DEFINE kept == IF row.artifact \in repair.found THEN row.artifact ELSE Min(repair.found)
  <2>1. repair.found = Copies /\ repair.found \in SUBSET Id /\ ours # {}
    BY <1>1, <1>6 DEF RepairKeeps, Typed, RepairTyped, Repairs, Copies
  <2>2. Old \in Copies /\ \A i \in Copies : Old <= i
    BY <2>1, OldIs DEF StageKeeps, Copies
  <2>3. Min(repair.found) = Old
    <3>1. Min(repair.found) \in Copies /\ Min(repair.found) <= Old /\ Old <= Min(repair.found)
      BY <1>6, <2>1, <2>2, Oldest
    <3>. QED BY <2>2, <3>1, OldIs DEF Copies
  <2>4. row.artifact \in repair.found => row.artifact = Old
    BY <1>2, <2>1 DEF StageKeeps, Right, Copies
  <2>5. kept = Old
    BY <2>3, <2>4
  <2>6. repair' = [repair EXCEPT !.pc = "clear", !.source = kept, !.found = @ \ {kept}]
    BY <1>6 DEF Keep
  <2>. HIDE DEF kept
  <2>7. repair'.pc = "clear" /\ repair'.source = Old /\ repair'.found = repair.found \ {Old}
    BY <1>1, <2>5, <2>6 DEF Repairs
  <2>. QED BY <1>1, <1>3, <1>4, <2>1, <2>7 DEF RepairKeeps
<1>. QED BY <1>5, <1>6

(* What the repair does about the link.                                      *)
LEMMA LinkKeeps ==
  ASSUME Typed, StageKeeps, RepairKeeps, RecordStands,
         RepairCount \/ RepairDetach \/ RepairAttach \/ Retry \/ RepairStops
  PROVE  StageKeeps' /\ RepairKeeps' /\ RecordStands'
<1>. USE DEF Repairing, PassesOn, Fault, Turn
<1>1. /\ UNCHANGED <<live, ours, worker, repairs>> /\ faults \in Nat /\ repair \in Repairs
      /\ faults' = faults \/ faults' = faults + 1
      /\ row' = row \/ row' = NoRow
  BY Numbers DEF RepairCount, RepairDetach, RepairAttach, Retry, RepairStops,
     service, bounds, Typed, BoundsTyped, RepairTyped
<1>2. /\ repair'.pc \notin {"walk", "keep", "clear"} /\ repair'.found \subseteq repair.found
      /\ repair'.pc = "idle" => repair' = Away
      /\ repair'.pc # "idle" => /\ repair'.source = repair.source
                                /\ repair'.found = repair.found
                                /\ repair.pc \in {"count", "detach", "attach"}
  <2>1. CASE RepairCount \/ RepairDetach \/ RepairAttach
    <3>1. /\ repair.pc \in {"count", "detach", "attach"}
          /\ \E pc \in {"retry", "attach", "detach"} : repair' = [repair EXCEPT !.pc = pc]
      BY <2>1 DEF RepairCount, RepairDetach, RepairAttach
    <3>. QED BY <1>1, <3>1 DEF Repairs
  <2>2. CASE Retry \/ RepairStops
    BY <2>2 DEF Retry, RepairStops, Away
  <2>. QED BY <2>1, <2>2
<1>3. \A c : Passed(c) => Passed(c)'
  BY <1>1, <1>2 DEF Passed
<1>4. StageKeeps'
  <2>1. row'.artifact \in {row.artifact, NoId}
    BY <1>1 DEF NoRow
  <2>. QED BY <1>1, <1>3, <2>1, StageSame
<1>5. RepairKeeps'
  <2>1. Old' = Old /\ Copies' = Copies
    BY <1>1 DEF Old, Copies
  <2>2. CASE repair' = Away
    BY <1>1, <1>2, <2>2 DEF RepairKeeps, Away
  <2>3. CASE repair'.pc # "idle"
    BY <1>1, <1>2, <2>1, <2>3 DEF RepairKeeps
  <2>. QED BY <1>2, <2>2, <2>3
<1>6. RecordStands'
  <2>1. CASE RepairCount \/ Retry \/ RepairStops
    <3>1. links' = links /\ (faults' = 0 => faults = 0 /\ repair.pc # "attach")
      BY <1>1, <2>1 DEF RepairCount, Retry, RepairStops, service
    <3>2. row' = row \/ row'.status = "pending"
      BY <1>1 DEF NoRow
    <3>. QED BY <1>1, <3>1, <3>2, RecordSame
  <2>2. CASE RepairDetach
    <3>1. row' = row /\ (faults' = 0 => faults = 0 /\ repair'.pc = "attach")
      BY <1>1, <2>2 DEF RepairDetach, Repairs
    <3>. QED BY <1>1, <3>1 DEF RecordStands, Linked
  <2>3. CASE RepairAttach
    <3>1. row' = row /\ (faults' = 0 => faults = 0 /\ Attached(Old))
      BY <1>1, <2>3 DEF RepairAttach, RepairKeeps
    <3>2. faults = 0 => \A s : Right(s) /\ s \in live => s = Old
      BY DEF Right, Passed
    <3>3. Old \in live /\ Attached(Old) => links'[Old] > 0
      BY DEF Attached, Typed, ServiceTyped
    <3>. QED BY <1>1, <3>1, <3>2, <3>3 DEF RecordStands, StageKeeps, Linked
  <2>. QED BY <2>1, <2>2, <2>3
<1>. QED BY <1>4, <1>5, <1>6

(* No copy that is used is the next to be deleted.                           *)
LEMMA Spared ==
  ASSUME StageKeeps, RepairKeeps, repair.pc = "clear", NEW s \in repair.found,
         NEW used, used \in live, Right(used)
  PROVE  used # s
  BY DEF RepairKeeps, Right, Passed

LEMMA DeleteKeeps ==
  ASSUME Typed, Undisturbed, StageKeeps, RepairKeeps, RecordStands,
         repair.pc = "clear", NEW s \in repair.found, \A c \in repair.found : s <= c,
         s \in live, live' = live \ {s}, links' = [links EXCEPT ![s] = 0],
         repair' = [repair EXCEPT !.found = @ \ {s}],
         UNCHANGED <<ours, row, worker, repairs, faults>>
  PROVE  StageKeeps' /\ RepairKeeps' /\ RecordStands'
<1>1. /\ repair \in Repairs /\ s \in Copies /\ s \in Int /\ faults \in Nat /\ repairs \in Nat
      /\ links \in [Id -> Nat] /\ s \in Id
  <2>1. s \in ours /\ ours \subseteq Id /\ links \in [Id -> Nat] /\ repair \in Repairs
    BY DEF Typed, RepairTyped, ServiceTyped
  <2>2. faults \in Nat /\ repairs \in Nat
    BY Numbers DEF Typed, BoundsTyped
  <2>. QED BY <2>1, <2>2, Numbers DEF Copies, Id
<1>2. repair'.pc = "clear" /\ repair'.source = repair.source /\ repair'.found = repair.found \ {s}
  BY <1>1 DEF Repairs
<1>3. Old' = Old /\ Old # s /\ Old \in live /\ Old \in ours /\ \A i \in ours : Old <= i
  BY OldIs DEF Old, RepairKeeps, StageKeeps
<1>4. \A c : Passed(c) => Passed(c)'
  BY <1>2 DEF Passed
<1>5. Copies' = Copies \ {s}
  BY DEF Copies
<1>6. RepairKeeps'
  BY <1>2, <1>3, <1>5 DEF RepairKeeps
<1>7. /\ \A u : Right(u) => Right(u)'
      /\ Missed => Missed'
  BY <1>4, RightSame
<1>8. Right(worker.source)' /\ Right(row.artifact)'
  BY <1>3, <1>7 DEF StageKeeps, Right, Passed
<1>9. RecordStands'
  <2>1. ASSUME NEW u \in live, Right(u) PROVE u \in live' /\ (Linked(u) => Linked(u)')
    <3>1. u # s
      BY <2>1, Spared
    <3>. QED BY <1>1, <1>2, <3>1 DEF Linked
  <2>. QED BY <2>1 DEF RecordStands, StageKeeps, Linked
<1>10. ASSUME worker.pc = "walk", Behind(worker), Old \notin worker.found
       PROVE  Behind(worker)' \/ Missed'
  <2>. DEFINE place == worker.page * PageSize
  <2>0. place \in Nat /\ worker.found \subseteq ours
    BY Numbers, Places DEF Typed, WorkerTyped, Workers
  <2>. HIDE DEF place
  <2>1. CASE s \in worker.found
    <3>1. ASSUME NEW c \in Copies', c < s, c # Old PROVE Passed(c)'
      <4>1. c \in Copies /\ c \in Int /\ c \notin repair.found
        BY <1>1, <1>5, <3>1, OldIs DEF Copies
      <4>2. faults > 0
        BY <1>1, <3>1, <4>1 DEF RepairKeeps
      <4>3. repairs = 1
        BY <1>1, <4>2 DEF RepairKeeps, Undisturbed
      <4>. QED BY <1>2, <4>1, <4>2, <4>3 DEF Passed
    <3>2. s \in worker'.found \ live'
      BY <2>1
    <3>. QED BY <1>3, <3>1, <3>2 DEF Missed
  <2>2. CASE s \notin worker.found
    <3>1. place <= Above(live, s) /\ Above(live, s) \in Nat
      BY <1>1, <1>10, <2>2, FiniteList DEF Behind, place
    <3>2. ASSUME NEW c \in Copies', c \notin worker.found PROVE place <= Above(live', c)
      <4>1. c \in live /\ c \in Copies /\ c \in Int /\ s \in live /\ Above(live, c) \in Nat
        BY <1>1, <1>5, FiniteList DEF Copies
      <4>2. place <= Above(live, c)
        BY <1>10, <3>2, <4>1 DEF Behind, place
      <4>3. CASE s > c
        <5>1. Above(live, s) < Above(live, c)
          BY <4>1, <4>3, <1>1, FiniteList, Fewer
        <5>2. {j \in live' : j > c} = {j \in live : j > c} \ {s}
          OBVIOUS
        <5>3. s \in {j \in live : j > c} /\ IsFiniteSet({j \in live : j > c})
          BY <4>1, <4>3, FiniteList, AboveCounts
        <5>4. Above(live', c) = Above(live, c) - 1
          <6>. DEFINE newer == {j \in live : j > c}
          <6>1. s \in newer /\ IsFiniteSet(newer)
            BY <5>3
          <6>2. Cardinality(newer \ {s}) = Cardinality(newer) - 1
            <7>. HIDE DEF newer
            <7>. QED BY <6>1, FS_RemoveElement
          <6>. QED BY <5>2, <6>2 DEF Above
        <5>. QED BY <2>0, <3>1, <4>1, <5>1, <5>4
      <4>4. CASE ~(s > c)
        <5>1. {j \in live' : j > c} = {j \in live : j > c}
          BY <4>4
        <5>. QED BY <4>2, <5>1 DEF Above
      <4>. QED BY <4>3, <4>4
    <3>3. Behind(worker)'
      BY <3>2 DEF Behind, place
    <3>. QED BY <3>3
  <2>. QED BY <2>1, <2>2
<1>11. StageKeeps'
  BY <1>3, <1>7, <1>8, <1>10 DEF StageKeeps
<1>. QED BY <1>6, <1>9, <1>11

LEMMA ClearKeeps ==
  ASSUME Typed, Undisturbed, StageKeeps, RepairKeeps, RecordStands, Clear
  PROVE  StageKeeps' /\ RepairKeeps' /\ RecordStands'
<1>. DEFINE s == Min(repair.found)
<1>1. /\ UNCHANGED <<ours, row, worker, repairs>> /\ repair.pc = "clear"
      /\ repair \in Repairs /\ faults \in Nat
  BY Numbers DEF Clear, Repairing, Typed, RepairTyped, BoundsTyped
<1>2. ASSUME UNCHANGED <<live, links>>, faults' = faults \/ (faults' = faults + 1),
             repair'.pc \in {"clear", "count"}, repair'.source = repair.source,
             repair'.found \subseteq repair.found,
             repair'.pc = "count" => repair'.found = {},
             repair'.pc = "clear" => faults' = faults + 1
      PROVE  StageKeeps' /\ RepairKeeps' /\ RecordStands'
  <2>1. \A c : Passed(c) => Passed(c)'
    BY <1>1, <1>2 DEF Passed
  <2>2. StageKeeps' /\ RecordStands'
    BY <1>1, <1>2, <2>1, StageSame, RecordSame
  <2>3. Old' = Old
    BY <1>1 DEF Old
  <2>4. RepairKeeps'
    BY <1>1, <1>2, <2>3 DEF RepairKeeps, Copies
  <2>. QED BY <2>2, <2>4
<1>3. CASE repair.found = {}
  <2>1. repair' = [repair EXCEPT !.pc = "count"] /\ UNCHANGED <<live, links, faults>>
    BY <1>3 DEF Clear, Turn
  <2>2. repair'.pc = "count" /\ repair'.source = repair.source /\ repair'.found = repair.found
    BY <1>1, <2>1 DEF Repairs
  <2>. QED BY <1>2, <1>3, <2>1, <2>2
<1>4. CASE repair.found # {}
  <2>0. s \in repair.found /\ \A c \in repair.found : s <= c
    BY <1>1, <1>4, Oldest DEF Repairs
  <2>1. /\ repair' = [repair EXCEPT !.found = @ \ {s}]
        /\ \/ live' = live \ {s} /\ links' = [links EXCEPT ![s] = 0] /\ UNCHANGED faults
           \/ faults' = faults + 1 /\ UNCHANGED <<live, links>>
    BY <1>4 DEF Clear, Fault
  <2>. HIDE DEF s
  <2>2. repair'.pc = "clear" /\ repair'.source = repair.source
        /\ repair'.found = repair.found \ {s}
    BY <1>1, <2>1 DEF Repairs
  <2>3. CASE faults' = faults + 1 /\ UNCHANGED <<live, links>>
    BY <1>2, <2>2, <2>3
  <2>4. CASE /\ live' = live \ {s} /\ links' = [links EXCEPT ![s] = 0] /\ UNCHANGED faults
    <3>1. s \in live
      BY <1>1, <2>0 DEF RepairKeeps, Copies
    <3>. QED BY <1>1, <2>0, <2>1, <2>4, <3>1, DeleteKeeps
  <2>. QED BY <2>1, <2>3, <2>4
<1>. QED BY <1>3, <1>4

LEMMA InitKept == Init => Kept
<1>. SUFFICES ASSUME Init PROVE Kept
  OBVIOUS
<1>1. ours = live /\ Typed
  BY InitTyped DEF Init
<1>2. StageKeeps /\ RecordStands
  BY <1>1, OldIs DEF Init, Idle, NoRow, StageKeeps, RecordStands, Right
<1>3. RepairKeeps
  BY DEF Init, Away, RepairKeeps
<1>. QED BY <1>2, <1>3 DEF Kept

(* What disturbs does not cease to.                                          *)
LEMMA Sooner ==
  ASSUME Typed, [Next]_vars, Undisturbed'
  PROVE  Undisturbed /\ ~CreatedLate /\ \A s \in Id : ~Dropped(s)
<1>1. /\ faults \in Nat /\ drops \in Nat /\ lates \in Nat /\ repairs \in Nat
  BY Numbers DEF Typed, BoundsTyped
<1>2. CASE Run \/ Repair
  <2>1. UNCHANGED <<drops, lates, repairs>> /\ (faults' = faults \/ faults' = faults + 1)
    BY <1>2, WalkCases
    DEF Run, Repair, Start, AskRecorded, Create, CountLinks, Detach, Attach, Check,
        ReadBack, MarkDone, RepairWalk, Keep, Clear, RepairCount, RepairDetach,
        RepairAttach, Retry, Raises, PassesOn, Fault, bounds
  <2>. QED BY <1>1, <2>1 DEF Undisturbed, Dropped, CreatedLate
<1>3. CASE Environment \/ UNCHANGED vars
  BY <1>1, <1>3
  DEF Environment, BeginRepair, RepairStops, OtherAdded, Dropped, CreatedLate, Crash,
      Reset, Fault, bounds, vars, Undisturbed
<1>. QED BY <1>2, <1>3 DEF Next

LEMMA NextKept == Typed /\ Seen /\ Kept /\ [Next]_vars => Kept'
<1>. SUFFICES ASSUME Typed, Seen, Kept, [Next]_vars, Undisturbed'
              PROVE  StageKeeps' /\ RepairKeeps' /\ RecordStands'
  BY DEF Kept
<1>1. /\ Undisturbed /\ ~CreatedLate /\ \A s \in Id : ~Dropped(s)
      /\ StageKeeps /\ RepairKeeps /\ RecordStands /\ Calm
  BY Sooner DEF Kept, Undisturbed, Calm
<1>2. CASE Run
  BY <1>1, <1>2, StageOf, WalkKeeps, StartKeeps, CreateKeeps DEF Run
<1>3. CASE Repair
  BY <1>1, <1>3, RepairWalkKeeps, KeepKeeps, ClearKeeps, LinkKeeps DEF Repair
<1>4. CASE Environment
  BY <1>1, <1>4, BeginKeeps, LinkKeeps, OtherAddedKeeps, StartKeeps DEF Environment
<1>5. CASE UNCHANGED vars
  BY <1>1, <1>5
  DEF vars, service, bounds, StageKeeps, RepairKeeps, RecordStands, Old, Behind, Missed,
      Right, Passed, Linked, Copies
<1>. QED BY <1>2, <1>3, <1>4, <1>5 DEF Next

Certain == Typed /\ Seen /\ Kept

LEMMA CertainStep == Certain /\ [Next]_vars => Certain'
  BY NextTyped, NextSeen, NextKept DEF Certain

LEMMA CertainInit == Init => Certain
  BY InitTyped, InitKept DEF Certain, Init, Idle, Seen

(* What is recorded as added is on the list, and attached, beside a repair   *)
(* that deletes all copies but one, for any number of copies and pages.      *)
THEOREM RecordedIsThere == Spec => []RecordIsTrue
<1>1. Certain => RecordIsTrue
  BY DEF Certain, Kept, RecordStands, RecordIsTrue, Linked
<1>. QED BY <1>1, CertainStep, CertainInit, PTL DEF Spec

LEMMA OneIsSpared ==
  ASSUME Certain, [Next]_vars, drops' = drops, Undisturbed
  PROVE  /\ row.artifact \in live => row.artifact \in live'
         /\ worker.source \in live => worker.source \in live'
<1>1. StageKeeps /\ RepairKeeps /\ Typed /\ Right(worker.source) /\ Right(row.artifact)
  BY DEF Certain, Kept, StageKeeps
<1>2. CASE live \subseteq live'
  BY <1>2
<1>3. CASE Clear /\ ~(live \subseteq live')
  <2>. DEFINE s == Min(repair.found)
  <2>1. repair.found # {} /\ live' = live \ {s} /\ repair.pc = "clear"
    BY <1>3 DEF Clear, Repairing
  <2>2. s \in repair.found
    BY <1>1, <2>1, Oldest DEF Typed, RepairTyped, Repairs
  <2>. HIDE DEF s
  <2>. QED BY <1>1, <2>1, <2>2, Spared
<1>4. ASSUME NEW s \in Id, Dropped(s) PROVE FALSE
  BY <1>1, <1>4, Numbers DEF Dropped, Typed, BoundsTyped
<1>5. live \subseteq live' \/ Clear
  BY <1>4, WalkCases
  DEF Next, Run, Repair, Environment, Start, AskRecorded, Create, CountLinks, Detach,
      Attach, Check, ReadBack, MarkDone, BeginRepair, RepairWalk, Keep, RepairCount,
      RepairDetach, RepairAttach, Retry, RepairStops, OtherAdded, CreatedLate, Crash,
      Reset, Created, service, vars
<1>. QED BY <1>2, <1>3, <1>5

(* The repair, which knows nothing of the stage but what the row says,       *)
(* deletes no copy that the stage is using or has recorded.                  *)
THEOREM UsedIsSpared == Spec => SparesTheUsed
<1>1. Certain /\ [Next]_vars => (drops' = drops /\ Undisturbed =>
        /\ row.artifact \in live => row.artifact \in live'
        /\ worker.source \in live => worker.source \in live')
  BY OneIsSpared
<1>. QED BY <1>1, CertainStep, CertainInit, PTL DEF Spec, SparesTheUsed

-----------------------------------------------------------------------------
(* What the stage is to the others.  Whatever becomes of its requests, a row  *)
(* changes its status with the start, the end and the reset of the stage.    *)

LEMMA InitContract == Init => Contract!Init
<1>. SUFFICES ASSUME Init PROVE Contract!Init
  OBVIOUS
<1>1. Fate = "open" /\ worker.pc = "idle"
  BY DEF Init, Fate, Parked, Idle, NoRow
<1>. QED BY <1>1 DEF Contract!Init

(* A step of a run, or of others, that leaves the status of the row.          *)
LEMMA SameToOthers ==
  ASSUME row'.status = row.status, row'.attempts = row.attempts,
         worker'.pc = "idle" <=> worker.pc = "idle"
  PROVE  UNCHANGED Contract!vars
<1>1. Fate' = Fate
  BY DEF Fate, Parked
<1>. QED BY <1>1 DEF Contract!vars

LEMMA EndToOthers ==
  ASSUME worker.pc # "idle", worker'.pc = "idle"
  PROVE  Contract!Next
<1>1. Fate' \in {"open", "finished", "parked"}
  BY DEF Fate
<1>2. Contract!End("notebook")
  BY <1>1 DEF Contract!End
<1>. QED BY <1>2 DEF Contract!Next

LEMMA ResetToOthers ==
  ASSUME Fate' = "open", worker'.pc = "idle" <=> worker.pc = "idle"
  PROVE  Contract!Next
<1>1. Contract!Reset({"notebook"})
  BY DEF Contract!Reset
<1>. QED BY <1>1 DEF Contract!Next

LEMMA StepContract == Typed /\ [Next]_vars => [Contract!Next]_(Contract!vars)
<1>. SUFFICES ASSUME Typed, [Next]_vars PROVE [Contract!Next]_(Contract!vars)
  OBVIOUS
<1>1. row \in Rows /\ worker \in Workers /\ (worker.pc = "idle" => worker = Idle)
  BY DEF Typed, RowTyped, WorkerTyped, Running
<1>2. Idle.pc = "idle"
  BY DEF Idle
<1>3. CASE Start
  <2>1. /\ worker.pc = "idle" /\ Fate = "open"
        /\ row'.status = "running" /\ worker'.pc # "idle"
    BY <1>1, <1>2, <1>3 DEF Start, Fate, Rows, Idle
  <2>2. Fate' = "open"
    BY <2>1 DEF Fate, Parked
  <2>3. Contract!Begin("notebook")
    BY <2>1, <2>2 DEF Contract!Begin
  <2>. QED BY <2>3 DEF Contract!Next
<1>4. CASE \/ AskRecorded \/ Walk \/ Create \/ CountLinks \/ Detach \/ Attach
           \/ Check \/ ReadBack
  <2>1. worker.pc # "idle" /\ row' = row
    BY <1>4
    DEF AskRecorded, Walk, Create, CountLinks, Detach, Attach, Check, ReadBack, At, service
  <2>2. CASE (\E res : Ends(res)) \/ \E pc \in {"attach", "read", "missed", "detach", "check"} : GoTo(pc)
    <3>1. worker'.pc # "idle"
      BY <1>1, <2>2 DEF Ends, GoTo, Workers
    <3>. QED BY <2>1, <3>1, SameToOthers
  <2>3. CASE AskRecorded \/ Walk
    <3>1. worker'.pc # "idle"
      BY <1>1, <2>1, <2>3 DEF AskRecorded, Walk, Ends, Raises, Workers
    <3>. QED BY <2>1, <3>1, SameToOthers
  <2>4. CASE Create
    <3>1. worker'.pc # "idle"
      BY <1>1, <2>4 DEF Create, Ends, Raises, Workers
    <3>. QED BY <2>1, <3>1, SameToOthers
  <2>5. CASE CountLinks \/ Detach \/ Attach \/ Check \/ ReadBack
    BY <2>2, <2>5 DEF CountLinks, Detach, Attach, Check, ReadBack, Raises
  <2>. QED BY <1>4, <2>3, <2>4, <2>5
<1>5. CASE MarkDone
  BY <1>2, <1>5, EndToOthers DEF MarkDone, At
<1>6. CASE \/ BeginRepair \/ RepairWalk \/ Keep \/ Clear \/ RepairCount \/ RepairDetach
           \/ RepairAttach \/ RepairStops \/ OtherAdded \/ (\E s \in Id : Dropped(s))
           \/ CreatedLate \/ UNCHANGED vars
  BY <1>6, SameToOthers
  DEF BeginRepair, RepairWalk, Keep, Clear, RepairCount, RepairDetach, RepairAttach,
      RepairStops, OtherAdded, Dropped, CreatedLate, vars
<1>7. ASSUME row' = NoRow, worker' = worker PROVE Contract!Next
  <2>1. Fate' = "open"
    BY <1>7 DEF Fate, Parked, NoRow
  <2>. QED BY <1>7, <2>1, ResetToOthers
<1>8. CASE Retry \/ Reset
  <2>1. worker' = worker /\ (row' = NoRow \/ row' = row)
    BY <1>8 DEF Retry, Reset
  <2>. QED BY <1>7, <2>1, SameToOthers
<1>9. CASE Crash
  <2>1. worker'.pc = "idle" /\ row' = row
    BY <1>2, <1>9 DEF Crash
  <2>. QED BY <2>1, EndToOthers, SameToOthers
<1>. QED BY <1>3, <1>4, <1>5, <1>6, <1>8, <1>9 DEF Next, Run, Repair, Environment

(* To the other stages this one is what StageRows says, whatever is lost and  *)
(* whatever the repair resets: its row is finished or parked by the end of    *)
(* its own run only.                                                         *)
THEOREM ContractKept == Spec => KeepsContract
  BY InitTyped, NextTyped, InitContract, StepContract, PTL
  DEF Spec, KeepsContract, Contract!Spec

=============================================================================
