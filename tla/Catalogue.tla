----------------------------- MODULE Catalogue ------------------------------
(***************************************************************************)
(* The file trees that extract_data_ap3.sh fills and get_data.py reads:    *)
(* two releases on the server, the two local source trees (dir_primary is  *)
(* the download directory, dir_secondary an older copy nobody writes) and  *)
(* the processed monthly files.  Of a file only its size class, the        *)
(* version of its data and its modification time matter.                   *)
(***************************************************************************)
EXTENDS Integers, Sequences, FiniteSets

CONSTANTS
    Models,     \* model directories
    Vars,       \* AeroCom variable names
    PairOrder,  \* the <<model, variable>> pairs, in the loops' order
    Servers,    \* what the two releases may hold to begin with
    OldTrees,   \* what dir_secondary may hold
    None,       \* no file
    MaxClock, MaxUploads, MaxFaults, MaxStarts   \* bounds of the exploration

Freqs    == {"monthly", "3hourly"}
Releases == {"2019", "AP3"}
Dirs     == {"primary", "secondary"}
Pairs    == Models \X Vars
Versions == 0 .. MaxUploads + 2

RemoteFile == [full : BOOLEAN, ver : Versions]
LocalFile  == [size : {"empty", "part", "full"}, ver : Versions, mtime : 0 .. MaxClock]
Origin     == [dir : Dirs, freq : Freqs, ver : Versions]
Output     == [whole : BOOLEAN, mtime : 0 .. MaxClock, body : Origin]

Tree(F) == [Models -> [Vars -> [Freqs -> F \cup {None}]]]

ASSUME CatalogueAssumption ==
    /\ {MaxClock, MaxUploads, MaxFaults, MaxStarts} \subseteq Nat
    /\ PairOrder \in Seq(Pairs) /\ PairOrder # <<>>
    /\ Servers \subseteq [Releases -> Tree(RemoteFile)]
    /\ OldTrees \subseteq Tree(LocalFile)
    /\ None \notin RemoteFile \cup LocalFile \cup Output

VARIABLES
    clock,      \* the file system's time
    remote,     \* remote[rel][m][v][f]: the server's file, or None
    local,      \* local[d][m][v][f]: the local source file, or None
    made,       \* models whose directory exists under dir_primary
    processed,  \* processed[p]: the processed monthly file of pair p, or None
    spent       \* uploads, faults and starts so far

catalogue == <<clock, remote, local, made, processed, spent>>

NoTree == [m \in Models |-> [v \in Vars |-> [f \in Freqs |-> None]]]

CatalogueInit ==
    /\ clock = 0
    /\ remote \in Servers
    /\ \E old \in OldTrees :
          local = [d \in Dirs |-> IF d = "primary" THEN NoTree ELSE old]
    /\ made = {}
    /\ processed = [p \in Pairs |-> None]
    /\ spent = [uploads |-> 0, faults |-> 0, starts |-> 0]

CatalogueTypeOK ==
    /\ clock \in 0 .. MaxClock
    /\ remote \in [Releases -> Tree(RemoteFile)]
    /\ local \in [Dirs -> Tree(LocalFile)]
    /\ made \in SUBSET Models
    /\ processed \in [Pairs -> Output \cup {None}]
    /\ spent \in [uploads : 0 .. MaxUploads, faults : 0 .. MaxFaults,
                  starts : 0 .. MaxStarts]

Fault == /\ spent.faults < MaxFaults
         /\ spent' = [spent EXCEPT !.faults = @ + 1]

Start == /\ spent.starts < MaxStarts
         /\ spent' = [spent EXCEPT !.starts = @ + 1]

(* The server's owner replaces, empties or removes a file. *)
Upload(rel, m, v, f) ==
    /\ spent.uploads < MaxUploads
    /\ spent' = [spent EXCEPT !.uploads = @ + 1]
    /\ \E new \in [full : BOOLEAN, ver : {spent.uploads + 3}] \cup {None} :
          remote' = [remote EXCEPT ![rel][m][v][f] = new]
    /\ UNCHANGED <<clock, local, made, processed>>

Tick == /\ clock < MaxClock
        /\ clock' = clock + 1
        /\ UNCHANGED <<remote, local, made, processed, spent>>

World == \/ \E rel \in Releases, m \in Models, v \in Vars, f \in Freqs : Upload(rel, m, v, f)
         \/ Tick
=============================================================================
