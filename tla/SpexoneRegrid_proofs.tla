------------------------- MODULE SpexoneRegrid_proofs -------------------------
(***************************************************************************)
(* What SpexoneRegrid promises of a month that can be read, proved for any *)
(* months, archives and number of array tasks.                             *)
(***************************************************************************)
EXTENDS SpexoneRegrid, TLAPS

-----------------------------------------------------------------------------
(* The inductive invariant. *)

TaskRecords ==
    [pc : {"idle", "remove", "read"}, month : Months \cup {NoGrid}, next : Nat,
     at : {"none", "path", "gone"}]

Shapes ==
    /\ l2 \in [Months -> Seq(Kinds)]
    /\ grid \in [Months -> Grids \cup {NoGrid}]
    /\ task \in [Tasks -> TaskRecords]

(* The gridded files of m before the n-th. *)
Before(m, n) == {i \in Gridded(m) : i < n}

(* A task has a file open only while it reads, and opens it at the first   *)
(* gridded file.                                                           *)
TaskPhase(k) ==
    /\ task[k].pc = "idle" => task[k] = TIdle
    /\ task[k].pc = "remove" => task[k].at = "none" /\ task[k].next = 1
    /\ task[k].pc # "idle" =>
          task[k].month \in Months /\ task[k].next \in 1 .. Len(l2[task[k].month]) + 1
    /\ task[k].pc = "read" /\ task[k].at = "none" => Before(task[k].month, task[k].next) = {}
    /\ task[k].at = "path" => task[k].pc = "read"

(* While one task alone writes a month, the month holds exactly what that  *)
(* task has passed, and cannot be read.                                    *)
OpenMonth(k) ==
    LET m == task[k].month IN
    task[k].at = "path" =>
        /\ grid[m] # NoGrid
        /\ ~grid[m].shared =>
              /\ ~grid[m].whole
              /\ grid[m].parts = Before(m, task[k].next)
              /\ \A j \in Writers(m) : j = k

ClosedMonth(m) ==
    grid[m] # NoGrid =>
        /\ grid[m].parts \subseteq Gridded(m)
        /\ grid[m].whole /\ ~grid[m].shared /\ ~grid[m].cut => grid[m].parts = Gridded(m)

MonthInv ==
    /\ Shapes
    /\ \A k \in Tasks : TaskPhase(k)
    /\ \A k \in Tasks : OpenMonth(k)
    /\ \A m \in Months : ClosedMonth(m)

-----------------------------------------------------------------------------
LEMMA MonthInvInit == ASSUME SpexoneInit PROVE MonthInv
<1>1. /\ TIdle \in TaskRecords
      /\ TIdle.pc = "idle" /\ TIdle.at = "none"
  BY DEF TIdle, TaskRecords
<1>2. l2 \in [Months -> Seq(Kinds)]
  BY SpexoneAssumption DEF SpexoneInit
<1>3. \A m \in Months : Gridded(m) \subseteq Nat
  BY <1>2 DEF Gridded
<1>4. task = [k \in Tasks |-> TIdle]
  BY DEF SpexoneInit
<1>5. \A m \in Months :
         grid[m] # NoGrid => /\ grid[m] \in Grids
                             /\ grid[m].parts = Gridded(m)
  <2> SUFFICES ASSUME NEW m \in Months, grid[m] # NoGrid
               PROVE  grid[m] \in Grids /\ grid[m].parts = Gridded(m)
    OBVIOUS
  <2> DEFINE full == [whole |-> TRUE, parts |-> Gridded(m), shared |-> FALSE, cut |-> FALSE]
  <2>1. grid[m] = full
    BY DEF SpexoneInit
  <2>2. full \in Grids /\ full.parts = Gridded(m)
    BY <1>3 DEF Grids
  <2> QED
    BY <2>1, <2>2
<1>6. grid \in [Months -> Grids \cup {NoGrid}]
  BY <1>5 DEF SpexoneInit
<1>7. Shapes
  BY <1>1, <1>2, <1>4, <1>6 DEF Shapes
<1>8. ASSUME NEW k \in Tasks PROVE TaskPhase(k) /\ OpenMonth(k)
  BY <1>1, <1>4 DEF TaskPhase, OpenMonth
<1>9. ASSUME NEW m \in Months PROVE ClosedMonth(m)
  BY <1>5 DEF ClosedMonth
<1> QED
  BY <1>7, <1>8, <1>9 DEF MonthInv

(* Another task's step on another month, or no step at all.                *)
LEMMA MonthInvStutters ==
    ASSUME MonthInv, UNCHANGED spexone
    PROVE  MonthInv'
BY DEF MonthInv, spexone, Shapes, TaskPhase, OpenMonth, ClosedMonth, Before, Writers, Gridded

(* A step of task k that touches at most month m keeps the invariant if k  *)
(* and m are well after it, and the other tasks that have m open find it   *)
(* as it was, or shared.                                                   *)
LEMMA StepOnMonth ==
    ASSUME MonthInv, NEW k \in Tasks, NEW m \in Months, NEW new \in TaskRecords,
           l2' = l2,
           task' = [task EXCEPT ![k] = new],
           grid' \in [Months -> Grids \cup {NoGrid}],
           \A x \in Months \ {m} : grid'[x] = grid[x],
           task[k].at = "path" => task[k].month = m,
           new.at = "path" => new.month = m,
           TaskPhase(k)', OpenMonth(k)', ClosedMonth(m)',
           \/ grid'[m] = grid[m] /\ (new.at = "path" => task[k].at = "path")
           \/ \A j \in Writers(m) \ {k} : grid'[m] # NoGrid /\ grid'[m].shared
    PROVE  MonthInv'
<1>1. task \in [Tasks -> TaskRecords]
  BY DEF MonthInv, Shapes
<1>2. task'[k] = new /\ \A j \in Tasks \ {k} : task'[j] = task[j]
  BY <1>1
<1>3. Shapes'
  BY <1>1 DEF MonthInv, Shapes
<1>4. \A x \in Months : Gridded(x)' = Gridded(x)
  BY DEF Gridded
<1>5. \A x \in Months \ {m} : Writers(x)' = Writers(x)
  BY <1>2 DEF Writers
<1>6. \A j \in Writers(m)' : j = k \/ j \in Writers(m)
  BY <1>2 DEF Writers
<1>7. ASSUME NEW j \in Tasks PROVE TaskPhase(j)'
  <2>1. CASE j = k
    BY <2>1
  <2>2. CASE j # k
    BY <1>2, <1>4, <2>2 DEF MonthInv, TaskPhase, Before
  <2> QED
    BY <2>1, <2>2
<1>8. ASSUME NEW j \in Tasks PROVE OpenMonth(j)'
  <2>1. CASE j = k
    BY <2>1
  <2>2. CASE j # k
    <3> SUFFICES ASSUME task[j].at = "path" PROVE OpenMonth(j)'
      BY <1>2, <2>2 DEF OpenMonth
    <3>1. OpenMonth(j) /\ TaskPhase(j) /\ task'[j] = task[j] /\ task[j].month \in Months
      BY <1>2, <2>2 DEF MonthInv, TaskPhase
    <3>2. CASE task[j].month # m
      BY <1>4, <1>5, <3>1, <3>2 DEF OpenMonth, Before
    <3>3. CASE task[j].month = m
      <4>1. j \in Writers(m)
        BY <3>3 DEF Writers
      <4>2. CASE grid'[m] = grid[m] /\ (new.at = "path" => task[k].at = "path")
        <5>1. Writers(m)' \subseteq Writers(m)
          BY <1>2, <4>2 DEF Writers
        <5> QED
          BY <1>4, <3>1, <3>3, <4>2, <5>1 DEF OpenMonth, Before
      <4>3. CASE \A i \in Writers(m) \ {k} : grid'[m] # NoGrid /\ grid'[m].shared
        BY <2>2, <3>1, <3>3, <4>1, <4>3 DEF OpenMonth
      <4> QED
        BY <4>2, <4>3
    <3> QED
      BY <3>2, <3>3
  <2> QED
    BY <2>1, <2>2
<1>9. ASSUME NEW x \in Months PROVE ClosedMonth(x)'
  <2>1. CASE x = m
    BY <2>1
  <2>2. CASE x # m
    BY <1>4, <2>2 DEF MonthInv, ClosedMonth
  <2> QED
    BY <2>1, <2>2
<1> QED
  BY <1>3, <1>7, <1>8, <1>9 DEF MonthInv

LEMMA MonthInvStart ==
    ASSUME MonthInv, NEW k \in Tasks, StartTask(k)
    PROVE  MonthInv'
<1>1. PICK m \in Months :
         task' = IF l2[m] = <<>> THEN task
                 ELSE [task EXCEPT ![k] = [TIdle EXCEPT !.pc = "remove", !.month = m]]
  BY DEF StartTask
<1>2. UNCHANGED <<l2, grid>> /\ task[k].pc = "idle"
  BY DEF StartTask
<1>3. CASE l2[m] = <<>>
  BY <1>1, <1>2, <1>3, MonthInvStutters DEF spexone
<1>4. CASE l2[m] # <<>>
  <2> DEFINE new == [pc |-> "remove", month |-> m, next |-> 1, at |-> "none"]
  <2>1. [TIdle EXCEPT !.pc = "remove", !.month = m] = new
    <3> DEFINE mid == [TIdle EXCEPT !.pc = "remove"]
    <3>1. mid = [pc |-> "remove", month |-> NoGrid, next |-> 1, at |-> "none"]
      BY DEF TIdle
    <3> HIDE DEF mid
    <3>2. [mid EXCEPT !.month = m] = new
      BY <3>1
    <3> QED
      BY <3>2 DEF mid
  <2>2. /\ new \in TaskRecords /\ new.pc = "remove" /\ new.month = m
        /\ new.next = 1 /\ new.at = "none"
    BY DEF TaskRecords
  <2> HIDE DEF new
  <2>3. task' = [task EXCEPT ![k] = new]
    BY <1>1, <1>4, <2>1
  <2>4. task'[k] = new /\ task[k].at # "path"
    BY <1>2, <2>3 DEF MonthInv, Shapes, TaskPhase, TIdle
  <2>5. 1 \in 1 .. Len(l2[m]) + 1
    BY DEF MonthInv, Shapes
  <2>6. TaskPhase(k)' /\ OpenMonth(k)' /\ ClosedMonth(m)'
    BY <1>2, <2>2, <2>4, <2>5 DEF MonthInv, TaskPhase, OpenMonth, ClosedMonth, Gridded
  <2>7. grid' \in [Months -> Grids \cup {NoGrid}]
    BY <1>2 DEF MonthInv, Shapes
  <2> QED
    BY <1>2, <2>2, <2>3, <2>4, <2>6, <2>7, StepOnMonth
<1> QED
  BY <1>3, <1>4

LEMMA MonthInvRemove ==
    ASSUME MonthInv, NEW k \in Tasks, RemoveOld(k)
    PROVE  MonthInv'
<1> DEFINE m == task[k].month
           new(j) == IF j = k THEN [task[k] EXCEPT !.pc = "read"]
                     ELSE IF j \in Writers(m) THEN [task[j] EXCEPT !.at = "gone"]
                     ELSE task[j]
<1>1. /\ task[k].pc = "remove" /\ task[k].at = "none" /\ task[k].next = 1
      /\ m \in Months
      /\ grid' = [grid EXCEPT ![m] = NoGrid]
      /\ task' = [j \in Tasks |-> new(j)]
      /\ l2' = l2
  BY DEF RemoveOld, MonthInv, TaskPhase
<1>2. task \in [Tasks -> TaskRecords] /\ grid \in [Months -> Grids \cup {NoGrid}]
  BY DEF MonthInv, Shapes
<1>3. grid'[m] = NoGrid /\ \A x \in Months \ {m} : grid'[x] = grid[x]
  BY <1>1, <1>2
<1>4. \A j \in Tasks : new(j) \in TaskRecords
  BY <1>2 DEF TaskRecords, Writers
<1>5. \A j \in Tasks : task'[j] = new(j)
  BY <1>1
<1>6. \A j \in Tasks : /\ task'[j].month = task[j].month /\ task'[j].next = task[j].next
                       /\ task'[j].at = "path" =>
                             task'[j] = task[j] /\ task[j].month # m
                       /\ j # k => task'[j].pc = task[j].pc
  BY <1>1, <1>2, <1>5 DEF TaskRecords, Writers
<1>7. Shapes'
  BY <1>1, <1>2, <1>4, <1>5 DEF MonthInv, Shapes
<1>8. \A x \in Months : Gridded(x)' = Gridded(x)
  BY <1>1 DEF Gridded
<1>9. \A x \in Months : Writers(x)' \subseteq Writers(x)
  BY <1>6 DEF Writers
<1>10. ASSUME NEW j \in Tasks PROVE TaskPhase(j)'
  <2>1. TaskPhase(j)
    BY DEF MonthInv
  <2>2. CASE j = k
    <3>1. task'[k] = [task[k] EXCEPT !.pc = "read"] /\ task[k] \in TaskRecords
      BY <1>2, <1>5
    <3>2. task'[k].pc = "read" /\ task'[k].at = "none" /\ task'[k].month = m /\ task'[k].next = 1
      BY <1>1, <3>1 DEF TaskRecords
    <3>3. \A x \in Months : \A i \in Gridded(x) : i \in Nat \ {0}
      BY DEF Gridded, MonthInv, Shapes
    <3>4. 1 \in 1 .. Len(l2[m]) + 1
      BY <1>1 DEF MonthInv, Shapes
    <3> QED
      BY <1>1, <1>8, <2>2, <3>2, <3>3, <3>4 DEF TaskPhase, Before
  <2>3. CASE j # k /\ j \in Writers(m)
    <3>1. task'[j] = [task[j] EXCEPT !.at = "gone"] /\ task[j] \in TaskRecords
      BY <1>2, <1>5, <2>3
    <3>2. task'[j].pc = "read" /\ task'[j].at = "gone"
      BY <2>1, <2>3, <3>1 DEF TaskPhase, Writers, TaskRecords
    <3> QED
      BY <1>1, <1>6, <2>1, <2>3, <3>2 DEF TaskPhase, Writers
  <2>4. CASE j # k /\ j \notin Writers(m)
    BY <1>1, <1>5, <1>8, <2>1, <2>4 DEF TaskPhase, Before
  <2> QED
    BY <2>2, <2>3, <2>4
<1>11. ASSUME NEW j \in Tasks PROVE OpenMonth(j)'
  <2> SUFFICES ASSUME task'[j].at = "path" PROVE OpenMonth(j)'
    BY DEF OpenMonth
  <2>1. task'[j] = task[j] /\ task[j].month \in Months \ {m}
    BY <1>6, <1>10 DEF TaskPhase, MonthInv
  <2> QED
    BY <1>3, <1>8, <1>9, <2>1 DEF MonthInv, OpenMonth, Before
<1>12. ASSUME NEW x \in Months PROVE ClosedMonth(x)'
  BY <1>3, <1>8 DEF MonthInv, ClosedMonth
<1> QED
  BY <1>7, <1>10, <1>11, <1>12 DEF MonthInv
-----------------------------------------------------------------------------
(* The loop over the L2 files. *)

LEMMA ReadingFacts ==
    ASSUME MonthInv, NEW k \in Tasks, NEW kind, Reading(k, kind)
    PROVE  /\ task[k] \in TaskRecords /\ task[k].pc = "read"
           /\ task[k].month \in Months
           /\ task[k].next \in 1 .. Len(l2[task[k].month])
           /\ l2[task[k].month][task[k].next] = kind
           /\ Len(l2[task[k].month]) \in Nat
           /\ task \in [Tasks -> TaskRecords]
           /\ grid \in [Months -> Grids \cup {NoGrid}]
BY DEF MonthInv, Shapes, TaskPhase, Reading

(* What has been passed after the file at hand. *)
LEMMA BeforeNext ==
    ASSUME MonthInv, NEW m \in Months, NEW n \in 1 .. Len(l2[m]), l2' = l2
    PROVE  /\ Gridded(m)' = Gridded(m) /\ Gridded(m) \subseteq Nat
           /\ l2[m][n] = "gridded" =>
                 Before(m, n + 1)' = Before(m, n) \cup {n} /\ n \in Gridded(m)
           /\ l2[m][n] # "gridded" => Before(m, n + 1)' = Before(m, n)
<1>1. l2[m] \in Seq(Kinds)
  BY DEF MonthInv, Shapes
<1>2. /\ Gridded(m)' = Gridded(m) /\ Gridded(m) \subseteq Nat
      /\ n \in Gridded(m) <=> l2[m][n] = "gridded"
  BY <1>1 DEF Gridded
<1> QED
  BY <1>2 DEF Before

(* A step of the loop: the file at hand has been passed. *)
Passed(m, n, at) == [pc |-> "read", month |-> m, next |-> n + 1, at |-> at]

LEMMA PassedFields ==
    ASSUME NEW m \in Months, NEW n \in Nat, NEW at \in {"none", "path", "gone"}
    PROVE  /\ Passed(m, n, at) \in TaskRecords
           /\ Passed(m, n, at).pc = "read" /\ Passed(m, n, at).month = m
           /\ Passed(m, n, at).next = n + 1 /\ Passed(m, n, at).at = at
BY DEF Passed, TaskRecords

LEMMA NextFile ==
    ASSUME MonthInv, NEW k \in Tasks, NEW m \in Months, NEW n \in 1 .. Len(l2[m]), l2' = l2,
           NEW at \in {"none", "path", "gone"},
           task[k].pc = "read", task[k].month = m, task[k].next = n,
           task' = [task EXCEPT ![k] = Passed(m, n, at)],
           at = "none" => l2[m][n] # "gridded" /\ task[k].at = "none"
    PROVE  TaskPhase(k)'
<1>1. /\ Len(l2[m]) \in Nat /\ n \in Nat
      /\ task \in [Tasks -> TaskRecords]
  BY DEF MonthInv, Shapes
<1>2. /\ task'[k].pc = "read" /\ task'[k].month = m
      /\ task'[k].next = n + 1 /\ task'[k].at = at
  BY <1>1, PassedFields
<1>3. at = "none" => Before(m, n + 1)' = {}
  BY BeforeNext DEF MonthInv, TaskPhase
<1> QED
  BY <1>1, <1>2, <1>3 DEF TaskPhase

LEMMA MonthInvSkip ==
    ASSUME MonthInv, NEW k \in Tasks, SkipSparse(k)
    PROVE  MonthInv'
<1>1. Reading(k, "sparse") /\ l2' = l2 /\ grid' = grid
  BY DEF SkipSparse
<1>2. PICK m \in Months, n \in Nat, at \in {"none", "path", "gone"} :
         /\ n \in 1 .. Len(l2[m]) /\ m = task[k].month /\ n = task[k].next
         /\ at = task[k].at /\ l2[m][n] = "sparse"
         /\ task \in [Tasks -> TaskRecords] /\ task[k] \in TaskRecords
         /\ grid \in [Months -> Grids \cup {NoGrid}]
  BY <1>1, ReadingFacts DEF TaskRecords
<1>3. task' = [task EXCEPT ![k] = Passed(m, n, at)]
  <2>1. [task[k] EXCEPT !.next = @ + 1] = Passed(m, n, at)
    BY <1>1, <1>2, ReadingFacts DEF TaskRecords, Passed
  <2> QED
    BY <2>1 DEF SkipSparse
<1>4. task[k].pc = "read"
  BY <1>1, ReadingFacts
<1>5. /\ Passed(m, n, at) \in TaskRecords
      /\ Passed(m, n, at).month = m /\ Passed(m, n, at).at = at
      /\ task'[k].month = m /\ task'[k].at = at /\ task'[k].next = n + 1
  <2>1. task'[k] = Passed(m, n, at)
    BY <1>2, <1>3
  <2> QED
    BY <2>1, PassedFields
<1>9. TaskPhase(k)'
  BY <1>1, <1>2, <1>3, <1>4, NextFile
<1>6. Before(m, n + 1)' = Before(m, n) /\ Gridded(m)' = Gridded(m)
  BY <1>1, <1>2, BeforeNext
<1>7. OpenMonth(k)'
  <2>1. \A j \in Writers(m)' : j \in Writers(m)
    BY <1>2, <1>3, <1>5 DEF Writers
  <2> QED
    BY <1>1, <1>2, <1>5, <1>6, <2>1 DEF MonthInv, OpenMonth
<1>8. ClosedMonth(m)'
  BY <1>1, <1>6 DEF MonthInv, ClosedMonth
<1> QED
  BY <1>1, <1>2, <1>3, <1>5, <1>7, <1>8, <1>9, StepOnMonth

LEMMA MonthInvOpen ==
    ASSUME MonthInv, NEW k \in Tasks, OpenGrid(k)
    PROVE  MonthInv'
<1>1. Reading(k, "gridded") /\ l2' = l2 /\ task[k].at = "none"
  BY DEF OpenGrid
<1>2. PICK m \in Months, n \in Nat :
         /\ n \in 1 .. Len(l2[m]) /\ m = task[k].month /\ n = task[k].next
         /\ l2[m][n] = "gridded" /\ task[k].pc = "read"
         /\ task \in [Tasks -> TaskRecords] /\ task[k] \in TaskRecords
         /\ grid \in [Months -> Grids \cup {NoGrid}]
  BY <1>1, ReadingFacts
<1> PICK others \in BOOLEAN : others = (Writers(m) # {})
  OBVIOUS
<1> DEFINE file == [whole |-> FALSE, parts |-> {n}, shared |-> others, cut |-> FALSE]
<1>3. task' = [task EXCEPT ![k] = Passed(m, n, "path")]
  <2>1. [task[k] EXCEPT !.at = "path", !.next = @ + 1] = Passed(m, n, "path")
    <3> DEFINE mid == [task[k] EXCEPT !.at = "path"]
    <3>1. mid = [pc |-> "read", month |-> m, next |-> n, at |-> "path"]
      BY <1>2 DEF TaskRecords
    <3> HIDE DEF mid
    <3>2. [mid EXCEPT !.next = @ + 1] = Passed(m, n, "path")
      BY <3>1 DEF Passed
    <3> QED
      BY <3>2 DEF mid
  <2>2. task' = [task EXCEPT ![k].at = "path", ![k].next = @ + 1]
    BY DEF OpenGrid
  <2> QED
    BY <1>2, <2>1, <2>2
<1>5. grid' = [grid EXCEPT ![m] = file]
  BY <1>2 DEF OpenGrid
<1>6. /\ file \in Grids /\ file.whole = FALSE /\ file.parts = {n} /\ file.shared = others
      /\ file # NoGrid
  <2>1. file.whole = FALSE /\ file.parts = {n} /\ file.shared = others
    OBVIOUS
  <2>2. file \in Grids
    BY DEF Grids
  <2> QED
    BY <2>1, <2>2, NoGridIsNoGrid
<1> HIDE DEF file
<1>7. /\ Passed(m, n, "path") \in TaskRecords
      /\ Passed(m, n, "path").month = m
      /\ task'[k].month = m /\ task'[k].at = "path" /\ task'[k].next = n + 1
  <2>1. task'[k] = Passed(m, n, "path")
    BY <1>2, <1>3
  <2> QED
    BY <2>1, PassedFields
<1>4. TaskPhase(k)'
  BY <1>1, <1>2, <1>3, NextFile
<1>8. /\ Before(m, n + 1)' = {n} /\ Gridded(m)' = Gridded(m) /\ n \in Gridded(m)
  <2>1. Before(m, n) = {}
    BY <1>1, <1>2 DEF MonthInv, TaskPhase
  <2> QED
    BY <1>1, <1>2, <2>1, BeforeNext
<1>9. grid'[m] = file /\ \A x \in Months \ {m} : grid'[x] = grid[x]
  BY <1>2, <1>5
<1>10. OpenMonth(k)'
  <2>1. ~others => \A j \in Writers(m)' : j = k
    BY <1>2, <1>3 DEF Writers
  <2> QED
    BY <1>6, <1>7, <1>8, <1>9, <2>1 DEF OpenMonth
<1>11. ClosedMonth(m)'
  BY <1>6, <1>8, <1>9 DEF ClosedMonth
<1>12. grid' \in [Months -> Grids \cup {NoGrid}]
  BY <1>2, <1>5, <1>6
<1>13. \A j \in Writers(m) \ {k} : grid'[m] # NoGrid /\ grid'[m].shared
  BY <1>6, <1>9
<1> QED
  BY <1>1, <1>3, <1>4, <1>7, <1>9, <1>10, <1>11, <1>12, <1>13, StepOnMonth
LEMMA MonthInvAppend ==
    ASSUME MonthInv, NEW k \in Tasks, AppendGrid(k)
    PROVE  MonthInv'
<1>1. Reading(k, "gridded") /\ l2' = l2 /\ task[k].at # "none"
  BY DEF AppendGrid
<1>2. PICK m \in Months, n \in Nat, at \in {"none", "path", "gone"} :
         /\ n \in 1 .. Len(l2[m]) /\ m = task[k].month /\ n = task[k].next
         /\ at = task[k].at /\ at # "none" /\ l2[m][n] = "gridded" /\ task[k].pc = "read"
         /\ task \in [Tasks -> TaskRecords] /\ task[k] \in TaskRecords
         /\ grid \in [Months -> Grids \cup {NoGrid}]
  BY <1>1, ReadingFacts DEF TaskRecords
<1>3. task' = [task EXCEPT ![k] = Passed(m, n, at)]
  <2>1. [task[k] EXCEPT !.next = @ + 1] = Passed(m, n, at)
    BY <1>2 DEF TaskRecords, Passed
  <2> QED
    BY <2>1 DEF AppendGrid
<1>4. /\ Passed(m, n, at) \in TaskRecords
      /\ Passed(m, n, at).month = m /\ Passed(m, n, at).at = at
      /\ task'[k].month = m /\ task'[k].at = at /\ task'[k].next = n + 1
  <2>1. task'[k] = Passed(m, n, at)
    BY <1>2, <1>3
  <2> QED
    BY <2>1, PassedFields
<1>5. TaskPhase(k)'
  BY <1>1, <1>2, <1>3, NextFile
<1>6. /\ Before(m, n + 1)' = Before(m, n) \cup {n}
      /\ Gridded(m)' = Gridded(m) /\ n \in Gridded(m)
  BY <1>1, <1>2, BeforeNext
<1>7. \A j \in Writers(m)' : j \in Writers(m)
  BY <1>2, <1>3, <1>4 DEF Writers
<1>8. OpenMonth(k) /\ ClosedMonth(m)
  BY DEF MonthInv
<1>9. CASE at = "gone"
  <2>1. grid' = grid
    BY <1>2, <1>9 DEF AppendGrid
  <2>2. OpenMonth(k)' /\ ClosedMonth(m)'
    BY <1>4, <1>6, <1>8, <1>9, <2>1 DEF OpenMonth, ClosedMonth
  <2> QED
    BY <1>1, <1>2, <1>3, <1>4, <1>5, <2>1, <2>2, StepOnMonth
<1>10. CASE at = "path"
  <2>1. PICK old \in Grids : grid[m] = old
    BY <1>2, <1>8, <1>10 DEF OpenMonth
  <2> DEFINE new == [old EXCEPT !.parts = @ \cup {n}]
  <2>2. grid' = [grid EXCEPT ![m] = new]
    BY <1>2, <1>10, <2>1 DEF AppendGrid
  <2>3. /\ new \in Grids /\ new # NoGrid
        /\ new.parts = old.parts \cup {n} /\ new.whole = old.whole
        /\ new.shared = old.shared /\ new.cut = old.cut
    BY <1>2, <2>1, NoGridIsNoGrid DEF Grids
  <2> HIDE DEF new
  <2>4. grid'[m] = new /\ \A x \in Months \ {m} : grid'[x] = grid[x]
    BY <1>2, <2>2
  <2>5. old # NoGrid
    BY <2>1, NoGridIsNoGrid
  <2>6. OpenMonth(k)'
    BY <1>2, <1>4, <1>6, <1>7, <1>8, <1>10, <2>1, <2>3, <2>4 DEF OpenMonth
  <2>7. ClosedMonth(m)'
    <3>1. old.parts \cup {n} \subseteq Gridded(m)
      BY <1>6, <1>8, <2>1, <2>5 DEF ClosedMonth
    <3>2. old.whole /\ ~old.shared /\ ~old.cut => old.parts = Gridded(m)
      BY <1>8, <2>1, <2>5 DEF ClosedMonth
    <3> QED
      BY <1>6, <2>3, <2>4, <3>1, <3>2 DEF ClosedMonth
  <2>8. grid' \in [Months -> Grids \cup {NoGrid}]
    BY <1>2, <2>2, <2>3
  <2>9. \A j \in Writers(m) \ {k} : grid'[m] # NoGrid /\ grid'[m].shared
    BY <1>2, <1>8, <1>10, <2>1, <2>3, <2>4 DEF OpenMonth
  <2> QED
    BY <1>1, <1>2, <1>3, <1>4, <1>5, <2>4, <2>6, <2>7, <2>8, <2>9, StepOnMonth
<1> QED
  BY <1>2, <1>9, <1>10

-----------------------------------------------------------------------------
(* The end of a task. *)

LEMMA IdleTask ==
    ASSUME MonthInv, NEW k \in Tasks, EndTask(k)
    PROVE  /\ task' = [task EXCEPT ![k] = TIdle]
           /\ TIdle \in TaskRecords /\ TIdle.at # "path"
           /\ TaskPhase(k)' /\ OpenMonth(k)'
           /\ \A m \in Months : Writers(m)' \subseteq Writers(m)
<1>1. TIdle \in TaskRecords /\ TIdle.at = "none" /\ TIdle.pc = "idle"
  BY DEF TIdle, TaskRecords
<1>2. task' = [task EXCEPT ![k] = TIdle] /\ task \in [Tasks -> TaskRecords]
  BY DEF EndTask, MonthInv, Shapes
<1>3. task'[k] = TIdle /\ \A j \in Tasks \ {k} : task'[j] = task[j]
  BY <1>2
<1>4. TaskPhase(k)' /\ OpenMonth(k)'
  BY <1>1, <1>3 DEF TaskPhase, OpenMonth
<1>5. \A m \in Months : Writers(m)' \subseteq Writers(m)
  BY <1>1, <1>3 DEF Writers
<1> QED
  BY <1>1, <1>2, <1>4, <1>5

LEMMA MonthInvKill ==
    ASSUME MonthInv, NEW k \in Tasks, KillTask(k)
    PROVE  MonthInv'
<1>1. EndTask(k) /\ l2' = l2 /\ grid' = grid /\ task[k].pc # "idle"
  BY DEF KillTask
<1>2. PICK m \in Months : task[k].month = m
  BY <1>1 DEF MonthInv, TaskPhase
<1>3. ClosedMonth(m)' /\ grid' \in [Months -> Grids \cup {NoGrid}]
  BY <1>1 DEF MonthInv, ClosedMonth, Gridded, Shapes
<1> QED
  BY <1>1, <1>2, <1>3, IdleTask, StepOnMonth

(* A footer leaves the month incomplete only if an exception wrote it.     *)
LEMMA MonthInvFooter ==
    ASSUME MonthInv, NEW k \in Tasks, NEW cut \in BOOLEAN,
           task[k].pc # "idle", l2' = l2, Footer(k, cut), EndTask(k),
           ~cut => task[k].next > Len(l2[task[k].month])
    PROVE  MonthInv'
<1>1. PICK m \in Months : task[k].month = m
  BY DEF MonthInv, TaskPhase
<1>2. OpenMonth(k) /\ ClosedMonth(m) /\ grid \in [Months -> Grids \cup {NoGrid}]
  BY DEF MonthInv, Shapes
<1>3. Gridded(m)' = Gridded(m)
  BY DEF Gridded
<1>4. CASE task[k].at # "path"
  <2>1. grid' = grid
    BY <1>4 DEF Footer
  <2>2. ClosedMonth(m)'
    BY <1>2, <1>3, <2>1 DEF ClosedMonth
  <2> QED
    BY <1>1, <1>2, <2>1, <2>2, IdleTask, StepOnMonth
<1>5. CASE task[k].at = "path"
  <2>1. PICK old \in Grids : grid[m] = old /\ old # NoGrid
    BY <1>1, <1>2, <1>5 DEF OpenMonth
  <2>2. PICK readable \in BOOLEAN :
           /\ ~old.shared /\ ~cut => readable
           /\ grid' = [grid EXCEPT ![m].whole = readable, ![m].cut = @ \/ cut]
    BY <1>1, <1>5, <2>1 DEF Footer
  <2> DEFINE new == [whole |-> readable, parts |-> old.parts, shared |-> old.shared,
                     cut |-> old.cut \/ cut]
  <2>3. grid' = [grid EXCEPT ![m] = new]
    <3> DEFINE mid == [grid EXCEPT ![m].whole = readable]
               one == [whole |-> readable, parts |-> old.parts, shared |-> old.shared,
                       cut |-> old.cut]
    <3>1. [old EXCEPT !.whole = readable] = one
      BY DEF Grids
    <3>2. mid = [grid EXCEPT ![m] = one]
      BY <1>2, <2>1, <3>1
    <3>3. one.cut = old.cut /\ [one EXCEPT !.cut = old.cut \/ cut] = new
      OBVIOUS
    <3> HIDE DEF one, new
    <3>4. mid[m] = one /\ DOMAIN mid = Months
      BY <1>2, <3>2
    <3> HIDE DEF mid
    <3>5. [mid EXCEPT ![m].cut = @ \/ cut] = [mid EXCEPT ![m] = new]
      BY <3>3, <3>4
    <3>6. [mid EXCEPT ![m] = new] = [grid EXCEPT ![m] = new]
      BY <1>2, <3>2
    <3>7. grid' = [mid EXCEPT ![m].cut = @ \/ cut]
      BY <2>2 DEF mid
    <3> QED
      BY <3>5, <3>6, <3>7
  <2>4. /\ new.whole = readable /\ new.parts = old.parts /\ new.shared = old.shared
        /\ cut => new.cut
    OBVIOUS
  <2>5. new \in Grids /\ new # NoGrid
    <3>1. new \in Grids
      BY DEF Grids
    <3> QED
      BY <3>1, NoGridIsNoGrid
  <2>6. old.cut => new.cut
    OBVIOUS
  <2> HIDE DEF new
  <2>7. grid'[m] = new /\ \A x \in Months \ {m} : grid'[x] = grid[x]
    BY <1>2, <2>3
  <2>8. old.parts \subseteq Gridded(m)
    BY <1>2, <2>1 DEF ClosedMonth
  <2>9. ~old.shared /\ ~cut => old.parts = Gridded(m)
    <3>1. ~old.shared => old.parts = Before(m, task[k].next)
      BY <1>1, <1>2, <1>5, <2>1 DEF OpenMonth
    <3>2. ~cut => task[k].next > Len(l2[m]) /\ task[k].next \in Nat
      BY <1>1 DEF MonthInv, Shapes, TaskRecords
    <3>3. Gridded(m) \subseteq 1 .. Len(l2[m]) /\ Len(l2[m]) \in Nat
      BY DEF Gridded, MonthInv, Shapes
    <3>4. ~cut => Before(m, task[k].next) = Gridded(m)
      BY <3>2, <3>3 DEF Before
    <3> QED
      BY <3>1, <3>4
  <2>10. ClosedMonth(m)'
    BY <1>3, <2>4, <2>7, <2>8, <2>9 DEF ClosedMonth
  <2>11. grid' \in [Months -> Grids \cup {NoGrid}]
    BY <1>2, <2>3, <2>5
  <2>12. \A j \in Writers(m) \ {k} : grid'[m] # NoGrid /\ grid'[m].shared
    BY <1>1, <1>2, <1>5, <2>1, <2>4, <2>5, <2>7 DEF OpenMonth
  <2> QED
    BY <1>1, <2>7, <2>10, <2>11, <2>12, IdleTask, StepOnMonth
<1> QED
  BY <1>4, <1>5

-----------------------------------------------------------------------------
LEMMA MonthInvNext ==
    ASSUME MonthInv, [SpexoneNext]_spexone
    PROVE  MonthInv'
<1>1. CASE UNCHANGED spexone
  BY <1>1, MonthInvStutters
<1>2. CASE SpexoneNext
  <2>1. PICK k \in Tasks : StartTask(k) \/ TaskStep(k) \/ KillTask(k)
    BY <1>2 DEF SpexoneNext
  <2>2. CASE StartTask(k)
    BY <2>2, MonthInvStart
  <2>3. CASE RemoveOld(k)
    BY <2>3, MonthInvRemove
  <2>4. CASE SkipSparse(k)
    BY <2>4, MonthInvSkip
  <2>5. CASE OpenGrid(k)
    BY <2>5, MonthInvOpen
  <2>6. CASE AppendGrid(k)
    BY <2>6, MonthInvAppend
  <2>7. CASE TaskRaises(k)
    BY <2>7, MonthInvFooter DEF TaskRaises
  <2>8. CASE CloseGrid(k)
    BY <2>8, MonthInvFooter DEF CloseGrid
  <2>9. CASE KillTask(k)
    BY <2>9, MonthInvKill
  <2> QED
    BY <2>1, <2>2, <2>3, <2>4, <2>5, <2>6, <2>7, <2>8, <2>9 DEF TaskStep
<1> QED
  BY <1>1, <1>2

LEMMA MonthInvImplies ==
    ASSUME MonthInv
    PROVE  ReadableMonthIsComplete
BY DEF MonthInv, ClosedMonth, ReadableMonthIsComplete

(* For any number of tasks, months and L2 files: a month that can be read  *)
(* holds every L2 file of it that has bins, unless an exception closed it  *)
(* or two tasks wrote it at once (main loop L306-355).                     *)
THEOREM MonthsComplete == SpexoneSpec => []ReadableMonthIsComplete
<1>1. SpexoneInit => MonthInv
  BY MonthInvInit
<1>2. MonthInv /\ [SpexoneNext]_<<spexone, started>> => MonthInv'
  BY MonthInvNext
<1>3. MonthInv => ReadableMonthIsComplete
  BY MonthInvImplies
<1> QED
  BY <1>1, <1>2, <1>3, PTL DEF SpexoneSpec

(* Months, files and tasks keep their kinds, a month only holds files of   *)
(* its own with bins, and a task's open file has a name.                   *)
THEOREM SpexoneTypeCorrect == SpexoneSpec => []SpexoneTypeOK
<1> DEFINE TypedInv == MonthInv /\ l2 \in Archives
<1>1. SpexoneInit => TypedInv
  BY MonthInvInit DEF SpexoneInit
<1>2. TypedInv /\ [SpexoneNext]_<<spexone, started>> => TypedInv'
  <2> SUFFICES ASSUME MonthInv, l2 \in Archives, [SpexoneNext]_<<spexone, started>>
               PROVE  MonthInv' /\ l2' = l2
    OBVIOUS
  <2> QED
    BY MonthInvNext DEF SpexoneNext, TaskStep, StartTask, RemoveOld, SkipSparse, OpenGrid,
                        AppendGrid, TaskRaises, CloseGrid, KillTask, spexone
<1>3. TypedInv => SpexoneTypeOK
  BY DEF MonthInv, Shapes, TaskPhase, OpenMonth, ClosedMonth, SpexoneTypeOK, TaskRecords
<1> HIDE DEF TypedInv
<1> QED
  BY <1>1, <1>2, <1>3, PTL DEF SpexoneSpec
=============================================================================
