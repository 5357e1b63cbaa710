------------------------------ MODULE Pipeline ------------------------------
(***************************************************************************)
(* The download script and the processor on the same file trees.  Nothing  *)
(* orders them but the modification times the processor compares.          *)
(***************************************************************************)
EXTENDS FetchSource, ProcessStream

VARIABLE blind   \* history: pairs with a change the mtimes do not show

pipelineVars == <<catalogue, fetch, proc, broken, blind>>

(* A new state of p's file that the freshness test cannot tell from the    *)
(* old one: it is gone, it is not younger than the processed file, or the  *)
(* processor has settled on the old one, or on the other tree, and will    *)
(* date its output later.                                                  *)
Unseen(p, f) ==
    LET new == local'["primary"][p[1]][p[2]][f]
        out == processed'[p]
    IN  \/ new = None
        \/ out # None /\ new.mtime <= out.mtime
        \/ /\ Processing /\ WorkPair = p
           /\ \/ proc.pc \in {"open", "write"}
              \/ proc.pc \in {"stat", "read"} /\ proc.file.freq # f
        \/ \E i \in DOMAIN proc.todo :
              proc.todo[i] = [dir |-> "secondary", pair |-> p]

PipelineInit ==
    /\ FetchInit /\ ProcessInit
    /\ blind = {}

(* A step of the script, and what the processor notices of it: nothing,    *)
(* except that its open output may lose its name.                          *)
FetchBeside ==
    /\ FetchNext
    /\ proc' = [proc EXCEPT !.quiet = @ /\ UNCHANGED <<local, processed, made>>,
                            !.named = @ /\ processed'[WorkPair] # None]
    /\ blind' = blind \cup {p \in Pairs : \E f \in Freqs :
                      /\ local'["primary"][p[1]][p[2]][f] # local["primary"][p[1]][p[2]][f]
                      /\ Unseen(p, f)}
    /\ UNCHANGED broken

ProcessBeside == ProcessNext /\ UNCHANGED <<fetch, blind>>

PipelineNext ==
    \/ FetchBeside
    \/ ProcessBeside
    \/ World /\ UNCHANGED <<fetch, proc, broken, blind>>

PipelineSpec == PipelineInit /\ [][PipelineNext]_pipelineVars

(* A started processor is scheduled until it ends; of the download, which  *)
(* may hang or be killed at any time, nothing is assumed.                  *)
FairPipeline == PipelineSpec /\ WF_pipelineVars(ProcessBeside /\ ProcessStep)

-----------------------------------------------------------------------------
(* Properties. *)

(* What processing p now would write, or None. *)
Wanted(p) ==
    LET dir  == DirOf(p[1])
        file == FindFile(dir, p)
    IN  IF file = NoFile THEN None
        ELSE LET src == At(dir, p, file.freq) IN
             IF src.size = "full" /\ src.ver \notin Unusable
             THEN [dir |-> dir, freq |-> file.freq, ver |-> src.ver] ELSE None

Skippable(p) ==
    LET dir  == DirOf(p[1])
        file == FindFile(dir, p)
    IN  /\ file # NoFile
        /\ At(dir, p, file.freq).size # "empty"
        /\ IsFresh(p, At(dir, p, file.freq))

BeingWritten(p) == proc.pc = "write" /\ WorkPair = p

(* A processed file that the mtime test L644-650 would keep was made from  *)
(* the very version, stream and tree that processing would use now, but    *)
(* for the listed blind spots (Unseen) and interrupted writes.             *)
FreshIsCurrent ==
    \A p \in Pairs \ (blind \cup broken) :
        Skippable(p) /\ ~BeingWritten(p) =>
            LET dir  == DirOf(p[1])
                freq == FindFile(dir, p).freq
            IN  /\ processed[p].whole
                /\ processed[p].body = [dir |-> dir, freq |-> freq,
                                        ver |-> At(dir, p, freq).ver]

(* After a run that ended, met no failure and was not disturbed, every     *)
(* pair whose source can be used has a whole processed file of just that   *)
(* source: always under RENEW=True, else but for the blind spots.          *)
AfterRunCurrent ==
    proc.exit = "ok" /\ proc.quiet =>
        \A p \in {PairOrder[i] : i \in DOMAIN PairOrder} :
            /\ Wanted(p) # None
            /\ proc.renew \/ p \notin blind \cup broken
            => /\ processed[p] # None
               /\ processed[p].whole
               /\ processed[p].body = Wanted(p)

(* A run of get_data.py ends, beside any number of downloads.              *)
ProcessEnds == Processing ~> ~Processing

(* get_data L61-62: 'auto' loads every model of either tree that has at    *)
(* least one monthly variable.                                             *)
EveryMonthlyModelLoaded ==
    proc.exit = "ok" /\ proc.quiet /\ proc.renew =>
        \A p \in {PairOrder[i] : i \in DOMAIN PairOrder} :
            (\E d \in Dirs : LET src == At(d, p, "monthly")
                             IN  src # None /\ src.size = "full")
            => processed[p] # None
=============================================================================
