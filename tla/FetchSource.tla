---------------------------- MODULE FetchSource -----------------------------
(***************************************************************************)
(* extract_data_ap3.sh: for every model and variable, drop 0-byte local    *)
(* files, decide whether to skip, scp the files of release 2019, fall back *)
(* to release AP3 if that scp failed, and drop 0-byte files again.  The    *)
(* shell globs *${var}* match other variables' files too.  scp writes in   *)
(* place, gives new files the current time, and goes on after a file that  *)
(* failed; its exit status is the only thing the script looks at.          *)
(***************************************************************************)
EXTENDS Catalogue

CONSTANTS
    Matches,   \* Matches[v]: the variables whose file names *v* matches
    Settings   \* the values RENEW is set to before a run (L26)

ASSUME FetchAssumption ==
    /\ Matches \in [Vars -> SUBSET Vars]
    /\ \A v \in Vars : v \in Matches[v]
    /\ Settings \subseteq {"FALSE", "false", "true"}

VARIABLE fetch   \* program counter and locals of the script

NotFetching == [pc |-> "idle", exit |-> "none", renew |-> "none", todo |-> <<>>,
                rel |-> "2019", queue |-> {}, file |-> None, gets |-> FALSE,
                failed |-> FALSE, kept |-> {}, since |-> <<0, 0>>]

Fetching == fetch.pc # "idle"

(* The files of the current pair's model that the shell's find would list. *)
FetchPair  == Head(fetch.todo)
FetchModel == FetchPair[1]
Globbed    == Matches[FetchPair[2]] \X Freqs

LocalAt(w)  == local["primary"][FetchModel][w[1]][w[2]]
RemoteAt(w) == remote[fetch.rel][FetchModel][w[1]][w[2]]
SetLocal(w, new) == local' = [local EXCEPT !["primary"][FetchModel][w[1]][w[2]] = new]

NonEmpty(f) == f # None /\ f.size # "empty"

(* rm -f of every globbed 0-byte file. *)
Swept == [local EXCEPT !["primary"][FetchModel] =
             [v \in Vars |-> [f \in Freqs |->
                 IF <<v, f>> \in Globbed /\ ~NonEmpty(@[v][f]) THEN None ELSE @[v][f]]]]

FetchDone(r, exit) == [NotFetching EXCEPT !.exit = exit, !.renew = r.renew,
                                          !.kept = r.kept, !.since = r.since]

(* Mutants of NextPair: the loop runs one pair too far; it never advances. *)
MutantPastTheEnd(r) == IF Len(r.todo) = 0 THEN FetchDone(r, "ok")
                       ELSE [r EXCEPT !.pc = "wipe", !.todo = Tail(@)]

MutantSamePair(r) == IF Len(r.todo) = 1 THEN FetchDone(r, "ok")
                     ELSE [r EXCEPT !.pc = "wipe"]

NextPair(r) == IF Len(r.todo) = 1 THEN FetchDone(r, "ok")
               ELSE [r EXCEPT !.pc = "wipe", !.todo = Tail(@)]

Copying(r, rel) ==
    LET found == {w \in Globbed : remote[rel][FetchModel][w[1]][w[2]] # None} IN
    [r EXCEPT !.pc = "scp", !.rel = rel, !.queue = found, !.failed = found = {}]

(* History: the files that are not empty, the server's changes and the     *)
(* faults, as the script finds them when it starts.                        *)
Valid == {x \in Models \X Vars \X Freqs : NonEmpty(local["primary"][x[1]][x[2]][x[3]])}
Weather == <<spent.uploads, spent.faults>>

-----------------------------------------------------------------------------
FetchInit == CatalogueInit /\ fetch = NotFetching

FetchStart ==
    /\ ~Fetching
    /\ Start
    /\ \E renew \in Settings :
          fetch' = [NotFetching EXCEPT !.pc = "wipe", !.renew = renew,
                                       !.todo = PairOrder, !.kept = Valid,
                                       !.since = Weather]
    /\ UNCHANGED <<clock, remote, local, made, processed>>

(* mkdir -p, and RENEW=true removes the pair's processed file. *)
Wipe ==
    /\ fetch.pc = "wipe"
    /\ made' = made \cup {FetchModel}
    /\ processed' = IF fetch.renew = "true" THEN [processed EXCEPT ![FetchPair] = None]
                    ELSE processed
    /\ fetch' = [fetch EXCEPT !.pc = "look"]
    /\ UNCHANGED <<clock, remote, local, spent>>

(* Mutant of Look: the skip asks for every globbed file, not for one.     *)
MutantSkipNeedsAll ==
    /\ fetch.pc = "look"
    /\ local' = Swept
    /\ fetch' = IF fetch.renew = "false" /\ \A w \in Globbed : NonEmpty(LocalAt(w))
                THEN NextPair(fetch) ELSE Copying(fetch, "2019")
    /\ UNCHANGED <<clock, remote, made, processed, spent>>

(* Existing files: placeholders go, and a valid one skips the pair - only  *)
(* under the setting "false", to the letter.                               *)
Look ==
    /\ fetch.pc = "look"
    /\ local' = Swept
    /\ fetch' = IF fetch.renew = "false" /\ \E w \in Globbed : NonEmpty(LocalAt(w))
                THEN NextPair(fetch) ELSE Copying(fetch, "2019")
    /\ UNCHANGED <<clock, remote, made, processed, spent>>

(* scp takes the next file: one removed since the glob is an error, any    *)
(* other is created, or truncated, under its local name.                   *)
ScpOpen ==
    /\ fetch.pc = "scp"
    /\ \E w \in fetch.queue :
          IF RemoteAt(w) = None
          THEN /\ fetch' = [fetch EXCEPT !.queue = @ \ {w}, !.failed = TRUE]
               /\ UNCHANGED local
          ELSE /\ fetch' = [fetch EXCEPT !.pc = "copy", !.queue = @ \ {w},
                                         !.file = w, !.gets = RemoteAt(w).full]
               /\ SetLocal(w, [size |-> "empty", ver |-> RemoteAt(w).ver, mtime |-> clock])
    /\ UNCHANGED <<clock, remote, made, processed, spent>>

(* A part of the file is there, under the name the others read. *)
ScpData ==
    /\ fetch.pc = "copy" /\ fetch.gets
    /\ SetLocal(fetch.file, [LocalAt(fetch.file) EXCEPT !.size = "part", !.mtime = clock])
    /\ UNCHANGED <<clock, remote, made, processed, spent, fetch>>

ScpDone ==
    /\ fetch.pc = "copy"
    /\ SetLocal(fetch.file, [LocalAt(fetch.file) EXCEPT
                    !.size = IF fetch.gets THEN "full" ELSE "empty", !.mtime = clock])
    /\ fetch' = [fetch EXCEPT !.pc = "scp"]
    /\ UNCHANGED <<clock, remote, made, processed, spent>>

(* A file, or the whole connection, is given up: what came of it stays. *)
ScpFail ==
    /\ fetch.pc \in {"scp", "copy"}
    /\ Fault
    /\ \E rest \in {{}, fetch.queue} :
          fetch' = [fetch EXCEPT !.pc = "scp", !.queue = rest, !.failed = TRUE]
    /\ UNCHANGED <<clock, remote, local, made, processed>>

(* Mutant of ScpEnd: the second release is copied over the first. *)
MutantAlwaysFallBack ==
    /\ fetch.pc = "scp" /\ fetch.queue = {}
    /\ fetch' = IF fetch.rel = "2019" THEN Copying(fetch, "AP3")
                ELSE [fetch EXCEPT !.pc = "sweep"]
    /\ UNCHANGED <<clock, remote, local, made, processed, spent>>

(* $? decides between the fallback release and the last clean-up. *)
ScpEnd ==
    /\ fetch.pc = "scp" /\ fetch.queue = {}
    /\ fetch' = IF fetch.rel = "2019" /\ fetch.failed THEN Copying(fetch, "AP3")
                ELSE [fetch EXCEPT !.pc = "sweep"]
    /\ UNCHANGED <<clock, remote, local, made, processed, spent>>

(* Mutant of Sweep: what scp brought is taken as it is. *)
MutantNoSweep ==
    /\ fetch.pc = "sweep"
    /\ fetch' = NextPair(fetch)
    /\ UNCHANGED <<clock, remote, local, made, processed, spent>>

Sweep ==
    /\ fetch.pc = "sweep"
    /\ local' = Swept
    /\ fetch' = NextPair(fetch)
    /\ UNCHANGED <<clock, remote, made, processed, spent>>

FetchKill ==
    /\ Fetching
    /\ fetch' = FetchDone(fetch, "killed")
    /\ UNCHANGED <<clock, remote, local, made, processed, spent>>

(* The script's own steps, and those it waits for inside an scp. *)
ShellStep == Wipe \/ Look \/ Sweep
ScpStep   == ScpOpen \/ ScpData \/ ScpDone \/ ScpEnd
FetchStep == ShellStep \/ ScpStep

FetchNext == FetchStart \/ FetchStep \/ ScpFail \/ FetchKill

fetchVars == <<catalogue, fetch>>

FetchSystem == FetchNext \/ (World /\ UNCHANGED fetch)

FetchSpec == FetchInit /\ [][FetchSystem]_fetchVars

(* The shell keeps running unless it is killed.  Nothing is assumed of scp, *)
(* which L136 and L142 call without a timeout: it may hang for ever.       *)
FairFetch == FetchSpec /\ WF_fetchVars(ShellStep)

-----------------------------------------------------------------------------
(* Properties. *)

FetchState == [pc : {"idle", "wipe", "look", "scp", "copy", "sweep"},
               exit : {"none", "ok", "killed"}, renew : {"none"} \cup Settings,
               todo : Seq(Pairs), rel : Releases, queue : SUBSET (Vars \X Freqs),
               file : (Vars \X Freqs) \cup {None}, gets : BOOLEAN, failed : BOOLEAN,
               kept : SUBSET (Models \X Vars \X Freqs),
               since : (0 .. MaxUploads) \X (0 .. MaxFaults)]

(* Type invariant; the file being copied exists and belongs to the pair.   *)
FetchTypeOK ==
    /\ CatalogueTypeOK
    /\ fetch \in FetchState
    /\ Fetching => fetch.todo # <<>> /\ fetch.queue \subseteq Globbed
    /\ fetch.pc = "copy" => fetch.file \in Globbed /\ LocalAt(fetch.file) # None

Toured == {PairOrder[i] : i \in DOMAIN PairOrder}

(* A run that came to its end leaves no 0-byte file under a name it looked *)
(* at, whatever failed, was killed before or lay on the server (L99-113,   *)
(* L145-153).                                                              *)
NoEmptyLeft ==
    fetch.exit = "ok" =>
        \A p \in Toured : \A v \in Matches[p[2]], f \in Freqs :
            LET file == local["primary"][p[1]][v][f]
            IN  file # None => file.size # "empty"

(* Under RENEW=false no file that held data when the script started is     *)
(* touched before it ends: neither truncated by scp, for this pair or for  *)
(* another whose glob lists it, nor removed (L124-127).                    *)
SafeModeKeepsData ==
    [][Fetching /\ fetch.renew = "false" =>
          \A x \in fetch.kept : local'["primary"][x[1]][x[2]][x[3]]
                                  = local["primary"][x[1]][x[2]][x[3]]]_fetchVars

(* The release a pair's files come from: the fallback only if the first    *)
(* release lists nothing at all.                                           *)
Source(m, v) == IF \E w \in Matches[v] \X Freqs : remote["2019"][m][w[1]][w[2]] # None
                THEN "2019" ELSE "AP3"

Undisturbed == fetch.exit = "ok" /\ fetch.since = Weather

(* After a run that copies (any setting but false) and met no failure and  *)
(* no change of the server, every file the pair's own release offers with  *)
(* data is there, whole and of that release (L136-149).                    *)
OfferedIsFetched ==
    Undisturbed /\ fetch.renew # "false" =>
        \A p \in Toured, f \in Freqs :
            LET offer == remote[Source(p[1], p[2])][p[1]][p[2]][f]
                file  == local["primary"][p[1]][p[2]][f]
            IN  offer # None /\ offer.full =>
                    file # None /\ file.size = "full" /\ file.ver = offer.ver

(* The server's part: no scp lasts for ever.  Nothing in the script makes  *)
(* it so (L136, L142); the fairness above does not assume it.              *)
ScpReturns == []<>(fetch.pc \notin {"scp", "copy"})

(* The script's part: if every scp returns, whatever it returns, a started *)
(* script ends.  The only thing it can hang on is an scp (L84-155).        *)
FetchEnds == ScpReturns => (Fetching ~> ~Fetching)

(* A pair that has a file is skipped: no file that held data is opened.    *)
SkipsWhatItHas ==
    fetch.renew \in {"FALSE", "false"} /\ fetch.pc = "copy" =>
        <<FetchModel, fetch.file[1], fetch.file[2]>> \notin fetch.kept

(* A pair that has none is not: what the release offers is fetched.        *)
SkipsOnlyWhatItHas ==
    Undisturbed /\ fetch.renew \in {"FALSE", "false"} =>
        \A p \in Toured :
            (\E f \in Freqs : LET offer == remote["2019"][p[1]][p[2]][f]
                              IN  offer # None /\ offer.full)
            => \E f \in Freqs : NonEmpty(local["primary"][p[1]][p[2]][f])

(* The comment at L18-19: by default (the setting L26 makes), which it     *)
(* says is RENEW=false, the script skips a model and variable whose        *)
(* non-empty source file exists, and for that reason only.                 *)
SkipsAsDocumented == SkipsWhatItHas /\ SkipsOnlyWhatItHas
=============================================================================
