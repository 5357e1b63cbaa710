---------------------------- MODULE SpexoneRegrid ----------------------------
(***************************************************************************)
(* py/SPEXone_regrid_model.py: one task per month of a SLURM array grids   *)
(* that month's L2 files and appends them, one row group per file, to the  *)
(* month's parquet file.  The file is written under its published name and *)
(* is readable only when the footer has been written.  Nothing keeps two   *)
(* tasks from having the same month.                                       *)
(***************************************************************************)
EXTENDS Launches, Sequences

CONSTANTS
    Months,     \* the months of the satellite record
    Archives,   \* what the L2 files of the months may be
    Tasks,      \* array tasks running at a time
    NoGrid      \* no file at a month's path

(* gridded: some bin has MIN_POINTS pixels; sparse: none has; corrupt: the *)
(* file cannot be read, or its columns differ from the first one's.        *)
Kinds == {"gridded", "sparse", "corrupt"}

ASSUME SpexoneAssumption ==
    /\ Archives \subseteq [Months -> Seq(Kinds)]
    /\ NoGrid \notin Months

VARIABLES
    l2,      \* l2[m]: the month's L2 files, in the order of their names
    grid,    \* grid[m]: the regridded month, or NoGrid
    task     \* the running tasks

spexone == <<l2, grid, task>>

(* parts: the L2 files in it.  shared: two tasks wrote it at the same      *)
(* time.  cut: an exception closed it.                                     *)
Grids == [whole : BOOLEAN, parts : SUBSET Nat, shared : BOOLEAN, cut : BOOLEAN]

ASSUME NoGridIsNoGrid == NoGrid \notin Grids

(* at: where the file a writer has open can be found.                      *)
TIdle == [pc |-> "idle", month |-> NoGrid, next |-> 1, at |-> "none"]

(* The tasks that have the file at m's path open for writing. *)
Writers(m) == {k \in Tasks : task[k].month = m /\ task[k].at = "path"}

(* What the task's month should hold. *)
Gridded(m) == {i \in DOMAIN l2[m] : l2[m][i] = "gridded"}

-----------------------------------------------------------------------------
(* No month gridded yet, or every month once. *)
SpexoneInit ==
    /\ l2 \in Archives
    /\ \/ grid = [m \in Months |-> NoGrid]
       \/ /\ \A m \in Months : \A i \in DOMAIN l2[m] : l2[m][i] # "corrupt"
          /\ grid = [m \in Months |-> IF Gridded(m) = {} THEN NoGrid
                        ELSE [whole |-> TRUE, parts |-> Gridded(m),
                              shared |-> FALSE, cut |-> FALSE]]
    /\ task = [k \in Tasks |-> TIdle]

(* The glob; a month without files ends the task, whatever an earlier task *)
(* left at the path.                                                       *)
StartTask(k) ==
    /\ task[k].pc = "idle" /\ StartProgram
    /\ \E m \in Months :
          task' = IF l2[m] = <<>> THEN task
                  ELSE [task EXCEPT ![k] = [TIdle EXCEPT !.pc = "remove", !.month = m]]
    /\ UNCHANGED <<l2, grid>>

(* An unlinked file keeps its writers but has no name any more. *)
RemoveOld(k) ==
    /\ task[k].pc = "remove"
    /\ grid' = [grid EXCEPT ![task[k].month] = NoGrid]
    /\ task' = [j \in Tasks |->
                  IF j = k THEN [task[k] EXCEPT !.pc = "read"]
                  ELSE IF j \in Writers(task[k].month) THEN [task[j] EXCEPT !.at = "gone"]
                  ELSE task[j]]
    /\ UNCHANGED <<l2, started>>

Reading(k, kind) ==
    LET r == task[k] IN
    /\ r.pc = "read"
    /\ r.next \in DOMAIN l2[r.month]
    /\ l2[r.month][r.next] = kind

(* Mutant of SkipSparse: the first file without bins ends the loop. *)
MutantSparseBreaks(k) ==
    /\ Reading(k, "sparse")
    /\ task' = [task EXCEPT ![k].next = Len(l2[task[k].month]) + 1]
    /\ UNCHANGED <<l2, grid, started>>

SkipSparse(k) ==
    /\ Reading(k, "sparse")
    /\ task' = [task EXCEPT ![k].next = @ + 1]
    /\ UNCHANGED <<l2, grid, started>>

(* The first file with bins creates the month's file, or truncates the one *)
(* another task is writing.                                                *)
OpenGrid(k) ==
    LET m == task[k].month IN
    /\ Reading(k, "gridded") /\ task[k].at = "none"
    /\ grid' = [grid EXCEPT ![m] = [whole |-> FALSE, parts |-> {task[k].next},
                                    shared |-> Writers(m) # {}, cut |-> FALSE]]
    /\ task' = [task EXCEPT ![k].at = "path", ![k].next = @ + 1]
    /\ UNCHANGED <<l2, started>>

AppendGrid(k) ==
    LET m == task[k].month IN
    /\ Reading(k, "gridded") /\ task[k].at # "none"
    /\ grid' = IF task[k].at = "gone" THEN grid
               ELSE [grid EXCEPT ![m].parts = @ \cup {task[k].next}]
    /\ task' = [task EXCEPT ![k].next = @ + 1]
    /\ UNCHANGED <<l2, started>>

(* The footer is written where the file is; what two writers or an         *)
(* exception (disk quota) leave may or may not be readable.                *)
Footer(k, cut) ==
    LET m == task[k].month IN
    IF task[k].at # "path" THEN UNCHANGED grid
    ELSE \E readable \in IF grid[m].shared \/ cut THEN BOOLEAN ELSE {TRUE} :
            grid' = [grid EXCEPT ![m].whole = readable, ![m].cut = @ \/ cut]

EndTask(k) == task' = [task EXCEPT ![k] = TIdle]

(* An exception ends the program wherever it comes from (a file that       *)
(* cannot be read, the old month gone between test and removal, memory,    *)
(* Ctrl-C), and the writer's finalizer closes the file: what was appended  *)
(* so far may become readable.                                             *)
TaskRaises(k) ==
    /\ task[k].pc # "idle"
    /\ Footer(k, TRUE)
    /\ EndTask(k)
    /\ UNCHANGED <<l2, started>>

CloseGrid(k) ==
    /\ task[k].pc = "read" /\ task[k].next > Len(l2[task[k].month])
    /\ Footer(k, FALSE)
    /\ EndTask(k)
    /\ UNCHANGED <<l2, started>>

(* Time limit, scancel, node failure: no finalizer runs. *)
KillTask(k) ==
    /\ task[k].pc # "idle"
    /\ EndTask(k)
    /\ UNCHANGED <<l2, grid, started>>

TaskStep(k) == RemoveOld(k) \/ SkipSparse(k) \/ OpenGrid(k) \/ AppendGrid(k)
                  \/ TaskRaises(k) \/ CloseGrid(k)

SpexoneNext == \E k \in Tasks : StartTask(k) \/ TaskStep(k) \/ KillTask(k)

SpexoneSpec == SpexoneInit /\ LaunchInit /\ [][SpexoneNext]_<<spexone, started>>

-----------------------------------------------------------------------------
(* Properties. *)

SpexoneTypeOK ==
    /\ l2 \in Archives
    /\ \A m \in Months : grid[m] # NoGrid =>
          grid[m] \in Grids /\ grid[m].parts \subseteq Gridded(m)
    /\ \A k \in Tasks :
          /\ task[k].pc \in {"idle", "remove", "read"}
          /\ task[k].at \in {"none", "path", "gone"}
          /\ task[k].pc # "idle" =>
                task[k].month \in Months /\ task[k].next \in 1 .. Len(l2[task[k].month]) + 1
          /\ task[k].at = "path" => grid[task[k].month] # NoGrid

(* However tasks of one month overlap, are killed, or find files without   *)
(* bins, a month that can be read has every L2 file with bins (main loop   *)
(* L306-355), unless an exception closed it or two tasks wrote it at once. *)
ReadableMonthIsComplete ==
    \A m \in Months :
        grid[m] # NoGrid /\ grid[m].whole /\ ~grid[m].shared /\ ~grid[m].cut =>
            grid[m].parts = Gridded(m)
=============================================================================
