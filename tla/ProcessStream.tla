--------------------------- MODULE ProcessStream ----------------------------
(***************************************************************************)
(* py/get_data.py and aerocom_data.process_and_save_model_data: every      *)
(* model of the two source trees, variable by variable, is found, tested   *)
(* for freshness, read, normalised and written in place to its processed   *)
(* file.  The writer truncates the processed file itself; a write that     *)
(* fails or is killed leaves a truncated file of the current time behind.  *)
(***************************************************************************)
EXTENDS Catalogue

CONSTANTS
    Unusable,   \* versions preprocess_for_save returns None for
    Renews      \* the values RENEW is set to (get_data L48)

ASSUME ProcessAssumption ==
    /\ Unusable \subseteq Versions
    /\ Renews \subseteq BOOLEAN

VARIABLES
    proc,       \* program counter and locals of get_data.py
    broken      \* history: pairs whose last writer failed or was killed

processVars == <<catalogue, proc, broken>>

NoCounts == [saved |-> 0, skipped |-> 0, missing |-> 0, errors |-> 0]
NoFile   == [dir |-> "primary", freq |-> "none"]

NotProcessing == [pc |-> "idle", exit |-> "none", renew |-> FALSE, todo |-> <<>>,
                  plan |-> <<>>, file |-> NoFile, body |-> None, named |-> FALSE,
                  summary |-> NoCounts, quiet |-> FALSE]

Processing == proc.pc # "idle"

(* get_data L141-142: a model belongs to the primary tree as soon as its   *)
(* directory exists there.                                                 *)
InOldTree(m) == \E v \in Vars, f \in Freqs : local["secondary"][m][v][f] # None

DirOf(m) == IF m \in made THEN "primary" ELSE "secondary"

Selected(sel) == SelectSeq(PairOrder, LAMBDA p : p \in sel)

(* What any selection from a sequence is, and that it leaves nothing out;  *)
(* the prover does not know it.                                            *)
ASSUME SelectionAssumption ==
    \A sel \in SUBSET Pairs :
        /\ Selected(sel) \in Seq(sel)
        /\ \A p \in sel : (\E i \in DOMAIN PairOrder : PairOrder[i] = p) =>
               \E i \in DOMAIN Selected(sel) : Selected(sel)[i] = p

(* base_dirs: the primary models' pairs, then those of the others that     *)
(* have a secondary directory.                                             *)
WorkList ==
    LET In(d, sel) == LET s == Selected(sel)
                      IN  [i \in DOMAIN s |-> [dir |-> d, pair |-> s[i]]]
    IN  In("primary", {p \in Pairs : p[1] \in made})
          \o In("secondary", {p \in Pairs : p[1] \notin made /\ InOldTree(p[1])})

WorkDir  == Head(proc.todo).dir
WorkPair == Head(proc.todo).pair

At(d, p, f) == local[d][p[1]][p[2]][f]

(* Mutant of FindFile: the 3-hourly stream is asked first. *)
MutantHourlyFirst(d, p) ==
    CASE At(d, p, "3hourly") # None -> [dir |-> d, freq |-> "3hourly"]
      [] At(d, p, "monthly") # None -> [dir |-> d, freq |-> "monthly"]
      [] OTHER -> NoFile

(* find_variable_file for the monthly stream, then for the 3-hourly one.   *)
FindFile(d, p) ==
    CASE At(d, p, "monthly") # None -> [dir |-> d, freq |-> "monthly"]
      [] At(d, p, "monthly") = None /\ At(d, p, "3hourly") # None ->
             [dir |-> d, freq |-> "3hourly"]
      [] OTHER -> NoFile

(* Mutant of IsFresh: an existing output is fresh whatever its age. *)
MutantExistsIsFresh(p, file) == processed[p] # None

IsFresh(p, file) ==
    /\ processed[p] # None
    /\ processed[p].mtime >= file.mtime

Quit(r, exit) == [NotProcessing EXCEPT !.exit = exit, !.summary = r.summary,
                      !.plan = r.plan, !.quiet = r.quiet, !.renew = r.renew]

(* Mutants of Counted: the loop runs one pair too far; it never advances;  *)
(* an error is not counted.                                                *)
MutantOneTooFar(r, outcome) ==
    LET n == [r EXCEPT !.summary[outcome] = @ + 1]
    IN  IF Len(r.todo) = 0 THEN Quit(n, "ok")
        ELSE [n EXCEPT !.pc = "find", !.todo = Tail(@), !.file = NoFile, !.body = None]

MutantSameWork(r, outcome) ==
    IF Len(r.todo) = 1 /\ outcome = "saved" THEN Quit(r, "ok")
    ELSE [r EXCEPT !.pc = "find", !.file = NoFile, !.body = None]

MutantErrorUncounted(r, outcome) ==
    LET n == IF outcome = "errors" THEN r
             ELSE [r EXCEPT !.summary[outcome] = @ + 1]
    IN  IF Len(r.todo) = 1 THEN Quit(n, "ok")
        ELSE [n EXCEPT !.pc = "find", !.todo = Tail(@), !.file = NoFile, !.body = None]

(* One pair is done: the summary's counter, and the loop's next turn.      *)
Counted(r, outcome) ==
    LET n == [r EXCEPT !.summary[outcome] = @ + 1]
    IN  IF Len(r.todo) = 1 THEN Quit(n, "ok")
        ELSE [n EXCEPT !.pc = "find", !.todo = Tail(@), !.file = NoFile, !.body = None]

-----------------------------------------------------------------------------
ProcessInit == proc = NotProcessing /\ broken = {}

ProcessStart ==
    /\ ~Processing
    /\ Start
    /\ \E renew \in Renews :
          proc' = LET r == [NotProcessing EXCEPT !.renew = renew, !.todo = WorkList,
                                                 !.plan = WorkList, !.quiet = TRUE]
                  IN  IF WorkList = <<>> THEN Quit(r, "ok") ELSE [r EXCEPT !.pc = "find"]
    /\ UNCHANGED <<clock, remote, local, made, processed, broken>>

Find ==
    /\ proc.pc = "find"
    /\ LET file == FindFile(WorkDir, WorkPair) IN
       proc' = IF file = NoFile THEN Counted(proc, "missing")
               ELSE [proc EXCEPT !.pc = "stat", !.file = file]
    /\ UNCHANGED <<catalogue, broken>>

(* L637-650: a file that has gone since raises, outside any handler; an    *)
(* empty one is missing; a processed file at least as new is kept.         *)
Stat ==
    LET file == At(WorkDir, WorkPair, proc.file.freq) IN
    /\ proc.pc = "stat"
    /\ proc' = IF file = None THEN Quit(proc, "crash")
               ELSE IF file.size = "empty" THEN Counted(proc, "missing")
               ELSE IF ~proc.renew /\ IsFresh(WorkPair, file) THEN Counted(proc, "skipped")
               ELSE [proc EXCEPT !.pc = "read"]
    /\ UNCHANGED <<catalogue, broken>>

(* Open, preprocess (and resample), load: a file that is not whole does    *)
(* not open, one that makes no sense counts as missing.                    *)
Read ==
    LET file == At(WorkDir, WorkPair, proc.file.freq) IN
    /\ proc.pc = "read"
    /\ \/ /\ UNCHANGED spent
          /\ proc' = IF file = None \/ file.size # "full" THEN Counted(proc, "errors")
                     ELSE IF file.ver \in Unusable THEN Counted(proc, "missing")
                     ELSE [proc EXCEPT !.pc = "open", !.body =
                              [dir |-> WorkDir, freq |-> proc.file.freq, ver |-> file.ver]]
       \/ /\ Fault
          /\ proc' = [Counted(proc, "errors") EXCEPT !.quiet = FALSE]
    /\ UNCHANGED <<clock, remote, local, made, processed, broken>>

SetOutput(f) == processed' = [processed EXCEPT ![WorkPair] = f]

(* to_netcdf truncates the processed file, writes, and closes it.          *)
OpenOutput ==
    /\ proc.pc = "open"
    /\ SetOutput([whole |-> FALSE, mtime |-> clock, body |-> proc.body])
    /\ proc' = [proc EXCEPT !.pc = "write", !.named = TRUE]
    /\ UNCHANGED <<clock, remote, local, made, spent, broken>>

(* Mutant of CloseOutput: the data set is never closed. *)
MutantNoClose ==
    /\ proc.pc = "write"
    /\ proc' = Counted([proc EXCEPT !.named = FALSE], "saved")
    /\ broken' = broken \ {WorkPair}
    /\ UNCHANGED <<clock, remote, local, made, spent, processed>>

(* A file unlinked meanwhile is written all the same, and counted.         *)
CloseOutput ==
    /\ proc.pc = "write"
    /\ IF proc.named
       THEN SetOutput([whole |-> TRUE, mtime |-> clock, body |-> proc.body])
       ELSE UNCHANGED processed
    /\ proc' = Counted([proc EXCEPT !.named = FALSE], "saved")
    /\ broken' = broken \ {WorkPair}
    /\ UNCHANGED <<clock, remote, local, made, spent>>

WriteFails ==
    /\ proc.pc \in {"open", "write"}
    /\ Fault
    /\ broken' = IF proc.pc = "write" THEN broken \cup {WorkPair} ELSE broken
    /\ proc' = Counted([proc EXCEPT !.quiet = FALSE, !.named = FALSE], "errors")
    /\ UNCHANGED <<clock, remote, local, made, processed>>

ProcessKill ==
    /\ Processing
    /\ proc' = Quit(proc, "killed")
    /\ broken' = IF proc.pc = "write" THEN broken \cup {WorkPair} ELSE broken
    /\ UNCHANGED catalogue

ProcessStep == Find \/ Stat \/ Read \/ OpenOutput \/ CloseOutput

ProcessNext == ProcessStart \/ ProcessStep \/ WriteFails \/ ProcessKill

-----------------------------------------------------------------------------
(* Properties of the processor; what holds of it next to a running fetch   *)
(* is in Pipeline.                                                         *)

Work == [dir : Dirs, pair : Pairs]

ProcState == [pc : {"idle", "find", "stat", "read", "open", "write"},
              exit : {"none", "ok", "crash", "killed"}, renew : BOOLEAN,
              todo : Seq(Work), plan : Seq(Work),
              file : [dir : Dirs, freq : Freqs \cup {"none"}],
              body : Origin \cup {None}, named : BOOLEAN,
              summary : [{"saved", "skipped", "missing", "errors"} -> Nat],
              quiet : BOOLEAN]

(* Type invariant; what is opened was read from the pair's own tree.       *)
ProcessTypeOK ==
    /\ CatalogueTypeOK
    /\ proc \in ProcState
    /\ broken \in SUBSET Pairs
    /\ Processing => proc.todo # <<>>
    /\ proc.pc \in {"stat", "read", "open", "write"} => proc.file.freq \in Freqs
    /\ proc.pc \in {"open", "write"} => proc.body \in Origin /\ proc.body.dir = WorkDir
    /\ proc.named => proc.pc = "write" /\ processed[WorkPair] # None

Tally == proc.summary.saved + proc.summary.skipped
           + proc.summary.missing + proc.summary.errors

(* The summary returned at L714-720 accounts for every pair exactly once,  *)
(* through every early exit of the loop; while it runs, for those behind.  *)
EveryPairCounted ==
    /\ Processing => Tally + Len(proc.todo) = Len(proc.plan)
    /\ proc.exit = "ok" => Tally = Len(proc.plan)

(* A processed file is whole unless it is being written or its last writer *)
(* failed or died: only L688-692 can leave a truncated one.                *)
WholeUnlessBroken ==
    \A p \in Pairs : processed[p] # None /\ ~processed[p].whole =>
        p \in broken \/ (proc.pc = "write" /\ WorkPair = p)
=============================================================================
