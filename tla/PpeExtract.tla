----------------------------- MODULE PpeExtract -----------------------------
(***************************************************************************)
(* py/ppe_extract_monthly.py, as started by ppe_extract_monthly.sbatch:    *)
(* each job extracts the PPE members one after the other into scratch      *)
(* files (temporary file, then rename), logs the provenance of every       *)
(* variable, and concatenates the members into one durable file per group. *)
(* Nothing keeps two batch jobs from running at the same time, a job may   *)
(* be killed at any instruction (time limit, node failure), and the source *)
(* tree is filled by another user while jobs read it.                      *)
(*                                                                         *)
(* A file is its contents (which version of which source stream each       *)
(* variable was taken from), its modification time and whether it was      *)
(* written to the end.  A job's open handle follows the inode it opened:   *)
(* rename carries it to the published path, unlink and a second rename     *)
(* leave it without a name.                                                *)
(***************************************************************************)
EXTENDS Integers, Sequences, FiniteSets

CONSTANTS
    Members,     \* the PPE_ENS_* directories
    Vars,        \* keys of VAR_MAP
    Streams,     \* keys of FILE_GLOBS: the source streams of one member
    Hifreq,      \* the 3-hourly stream, last resort and ignored by freshness
    VarOrder,    \* VAR_MAP's iteration order
    SearchOrder, \* SearchOrder[v]: preferred stream first, then the fallbacks
    Carries,     \* Carries[g]: the variables stream g holds
    Groups,      \* keys of GROUP_VARS
    GroupOrder,  \* GROUP_VARS' iteration order
    GroupVars,   \* GroupVars[g]: the variables of group g
    Plans,       \* the member lists discover_ensembles can return (--only)
    Jobs,        \* batch jobs
    None,        \* no file, no target
    Missing,     \* a variable no stream provided
    MaxClock, MaxEdits, MaxFaults, MaxStarts   \* bounds of the exploration

ASSUME NamesAssumption ==
    /\ Members \cap Groups = {} /\ None \notin Members \cup Groups
    /\ Hifreq \in Streams
    /\ GroupOrder \in Seq(Groups) /\ GroupOrder # <<>>
    /\ VarOrder \in Seq(Vars) /\ VarOrder # <<>>
    /\ Plans \subseteq Seq(Members) /\ <<>> \notin Plans
    /\ SearchOrder \in [Vars -> Seq(Streams)]
    /\ Carries \in [Streams -> SUBSET Vars]
    /\ GroupVars \in [Groups -> SUBSET Vars]

(* VAR_MAP and GROUP_VARS are dicts, whose keys are what the loops go      *)
(* through, and a glob names a directory once.                             *)
ASSUME OrderAssumption ==
    /\ {VarOrder[i] : i \in DOMAIN VarOrder} = Vars
    /\ {GroupOrder[i] : i \in DOMAIN GroupOrder} = Groups
    /\ \A plan \in Plans : \A i, k \in DOMAIN plan : plan[i] = plan[k] => i = k

ASSUME BoundsAssumption ==
    {MaxClock, MaxEdits, MaxFaults, MaxStarts} \subseteq Nat

VARIABLES
    clock,      \* the file system's time
    src,        \* src[m][g]: version and mtime of member m's stream g, or None
    out,        \* out[t]: the published file of member or group t, or None
    tmp,        \* tmp[t]: the file at t's ".nc.tmp" path, or None
    job,        \* job[j]: program counter and locals of a batch job
    prov,       \* rows of provenance.csv
    contended,  \* history: targets whose temporary file two jobs shared
    excused,    \* history: members changed in a way mtimes do not show
    spent       \* edits, faults and job starts so far

vars == <<clock, src, out, tmp, job, prov, contended, excused, spent>>

Targets == Members \cup Groups
Value   == [stream : Streams, ver : 1 .. MaxEdits + 1] \cup {Missing}
Fields  == [Vars -> Value]
Body    == Fields \cup [Members -> Fields \cup {None}]
File    == [whole : BOOLEAN, mtime : 0 .. MaxClock, body : Body]
Row     == [mem : Members, var : Vars,
            status : {"monthly", "hifreq_resampled", "missing"}]

ASSUME NoneIsNoFile == None \notin File

NoFields == [v \in Vars |-> Missing]

-----------------------------------------------------------------------------
(* Reading one member directory. *)

(* resolve_variable: the first stream in search order whose file exists,   *)
(* opens (not in bad) and holds v.                                         *)
Resolve(m, v, bad) ==
    LET order  == SearchOrder[v]
        usable == {i \in DOMAIN order :
                      /\ src[m][order[i]] # None
                      /\ order[i] \notin bad
                      /\ v \in Carries[order[i]]}
        i      == CHOOSE i \in usable : \A k \in usable : i <= k
    IN  IF usable = {} THEN Missing
        ELSE [stream |-> order[i], ver |-> src[m][order[i]].ver]

(* What an undisturbed extraction of m would hold now. *)
Wanted(m) == [v \in Vars |-> Resolve(m, v, {})]

(* sources_for_member: the streams that gate renewal. *)
Gating(m) == {g \in Streams \ {Hifreq} : src[m][g] # None}

(* Mutant of MemberIsFresh: an existing file is fresh whatever its age. *)
MutantFreshIfExists(m, renew) == ~renew /\ out[m] # None

(* member_is_fresh *)
MemberIsFresh(m, renew) ==
    /\ ~renew
    /\ out[m] # None
    /\ Gating(m) # {}
    /\ \A g \in Gating(m) : src[m][g].mtime <= out[m].mtime

(* Mutant of Status: the stream's name is logged instead of a status. *)
MutantStreamAsStatus(value) ==
    IF value = Missing THEN "missing" ELSE value.stream

Status(value) ==
    IF value = Missing THEN "missing"
    ELSE IF value.stream = Hifreq THEN "hifreq_resampled" ELSE "monthly"

(* The rows build_member_dataset returns beside the data. *)
RowsOfBuild(m, fields) ==
    {[mem |-> m, var |-> v, status |-> Status(fields[v])] : v \in Vars}

(* Mutant of RowsOfExisting: the else branch for absent variables is gone. *)
MutantAllMonthly(m) ==
    {[mem |-> m, var |-> v, status |-> "monthly"] : v \in Vars}

(* provenance_from_existing_member: a file that cannot be opened gives no  *)
(* rows, and every variable present is logged as "monthly".                *)
RowsOfExisting(m) ==
    IF ~out[m].whole THEN {}
    ELSE {[mem |-> m, var |-> v,
           status |-> IF out[m].body[v] = Missing THEN "missing" ELSE "monthly"]
             : v \in Vars}

-----------------------------------------------------------------------------
(* A job's locals and where it goes next. *)

Idle == [pc |-> "idle", exit |-> "none", cur |-> None, plan |-> <<>>,
         todo |-> <<>>, unread |-> <<>>, body |-> NoFields, rows |-> {}, paths |-> {},
         at |-> "none", mixed |-> FALSE, ok |-> FALSE, alone |-> FALSE,
         renew |-> FALSE, skip |-> FALSE]

Active(j) == job[j].pc # "idle"

(* main returns, or the process dies: its handle is closed. *)
End(r, exit) == [Idle EXCEPT !.exit = exit, !.plan = r.plan, !.paths = r.paths,
                             !.alone = r.alone, !.skip = r.skip]

NextGroup(r) ==
    IF r.todo = <<>> THEN End(r, "ok")
    ELSE [r EXCEPT !.pc = "concat", !.cur = Head(r.todo), !.todo = Tail(r.todo),
                   !.body = NoFields, !.mixed = FALSE]

(* Mutant of NextMember: the loop never moves to the following member. *)
MutantSameMember(r) ==
    IF r.todo # <<>>
    THEN [r EXCEPT !.pc = "check", !.cur = Head(r.todo), !.body = NoFields,
                   !.rows = {}, !.mixed = FALSE, !.ok = FALSE]
    ELSE IF r.paths = {} THEN End(r, "fail")
    ELSE NextGroup([r EXCEPT !.todo = GroupOrder, !.rows = {}])

(* The member loop of main, and what follows it. *)
NextMember(r) ==
    IF r.todo # <<>>
    THEN [r EXCEPT !.pc = "check", !.cur = Head(r.todo), !.todo = Tail(r.todo),
                   !.body = NoFields, !.rows = {}, !.mixed = FALSE, !.ok = FALSE]
    ELSE IF r.paths = {} THEN End(r, "fail")
    ELSE IF r.skip THEN End(r, "ok")
    ELSE NextGroup([r EXCEPT !.todo = GroupOrder, !.rows = {}])

(* Mutants of Raise: a failed write is published all the same; a failed     *)
(* group is skipped like a failed member.                                   *)
MutantRaisePublishes(r) ==
    IF r.cur \in Groups THEN End(r, "fail")
    ELSE [r EXCEPT !.pc = "publish", !.at = "none", !.ok = FALSE]

MutantRaiseContinues(r) ==
    IF r.cur \in Groups THEN NextGroup([r EXCEPT !.at = "none"])
    ELSE [r EXCEPT !.pc = "cleanup", !.at = "none", !.ok = FALSE]

(* An exception while a target is handled: swallowed by the member loop    *)
(* (after write_member's finally), fatal in the group loop.                *)
Raise(r) == IF r.cur \in Groups THEN End(r, "fail")
            ELSE [r EXCEPT !.pc = "cleanup", !.at = "none", !.ok = FALSE]

Become(j, r) == job' = [job EXCEPT ![j] = r]

Fault == /\ spent.faults < MaxFaults
         /\ spent' = [spent EXCEPT !.faults = @ + 1]

-----------------------------------------------------------------------------
Init ==
    /\ clock = 0
    /\ src \in [Members -> [Streams -> {None, [ver |-> 1, mtime |-> 0]}]]
    /\ out = [t \in Targets |-> None]
    /\ tmp = [t \in Targets |-> None]
    /\ job = [j \in Jobs |-> Idle]
    /\ prov = {}
    /\ contended = {}
    /\ excused = {}
    /\ spent = [edits |-> 0, faults |-> 0, starts |-> 0]

(* main up to the member loop; every other job is no longer alone. *)
Start(j) ==
    /\ ~Active(j)
    /\ spent.starts < MaxStarts
    /\ spent' = [spent EXCEPT !.starts = @ + 1]
    /\ \E plan \in Plans, renew \in BOOLEAN, skip \in BOOLEAN :
          job' = [k \in Jobs |->
                    IF k = j
                    THEN NextMember([Idle EXCEPT !.plan = plan, !.todo = plan,
                                        !.renew = renew, !.skip = skip,
                                        !.alone = \A i \in Jobs : ~Active(i)])
                    ELSE [job[k] EXCEPT !.alone = FALSE]]
    /\ prov' = {}
    /\ UNCHANGED <<clock, src, out, tmp, contended, excused>>

(* Mutant of Check: the path of a skipped member is not kept. *)
MutantSkipForgets(j) ==
    LET r == job[j] IN
    /\ r.pc = "check"
    /\ Become(j, IF MemberIsFresh(r.cur, r.renew) THEN NextMember(r)
                 ELSE [r EXCEPT !.pc = "read", !.unread = VarOrder])
    /\ UNCHANGED <<clock, src, out, tmp, prov, contended, excused, spent>>

(* write_member's freshness test. *)
Check(j) ==
    LET r == job[j] IN
    /\ r.pc = "check"
    /\ Become(j, IF MemberIsFresh(r.cur, r.renew)
                 THEN [r EXCEPT !.pc = "skip"]
                 ELSE [r EXCEPT !.pc = "read", !.unread = VarOrder])
    /\ UNCHANGED <<clock, src, out, tmp, prov, contended, excused, spent>>

Skip(j) ==
    LET r == job[j] IN
    /\ r.pc = "skip"
    /\ Become(j, [r EXCEPT !.pc = "record", !.rows = RowsOfExisting(r.cur)])
    /\ UNCHANGED <<clock, src, out, tmp, prov, contended, excused, spent>>

(* One turn of build_member_dataset's loop over VAR_MAP.  A stream that    *)
(* does not open is passed over with a warning; a member without any       *)
(* variable raises before its temporary file exists.                       *)
ReadVar(j) ==
    LET r == job[j]
        v == Head(r.unread)
    IN
    /\ r.pc = "read"
    /\ \E bad \in {{}} \cup {{g} : g \in Streams} :
          LET got == [r.body EXCEPT ![v] = Resolve(r.cur, v, bad)] IN
          /\ IF bad = {} THEN UNCHANGED <<spent, excused>>
             ELSE Fault /\ excused' = excused \cup {r.cur}
          /\ Become(j, IF Tail(r.unread) # <<>>
                       THEN [r EXCEPT !.body = got, !.unread = Tail(r.unread)]
                       ELSE IF got = NoFields
                       THEN NextMember([r EXCEPT !.unread = <<>>])
                       ELSE [r EXCEPT !.pc = "open", !.body = got, !.unread = <<>>,
                                      !.rows = RowsOfBuild(r.cur, got)])
    /\ UNCHANGED <<clock, src, out, tmp, prov, contended>>

(* An I/O error, or lack of memory, in write_member before its try: in the *)
(* freshness test, in reading the member that is there, in loading or      *)
(* aligning a variable.  The member loop passes over the member.           *)
MemberRaises(j) ==
    LET r == job[j] IN
    /\ r.pc \in {"check", "skip", "read"}
    /\ Fault
    /\ Become(j, NextMember([r EXCEPT !.unread = <<>>]))
    /\ UNCHANGED <<clock, src, out, tmp, prov, contended, excused>>

(* A job that has opened t's temporary file and not yet renamed it. *)
Busy(j, t) == job[j].cur = t /\ job[j].pc \in {"write", "publish"}

(* Mutant of OpenTmp: the published file itself is opened for writing. *)
MutantOpenInPlace(j) ==
    LET r == job[j] IN
    /\ r.pc = "open"
    /\ out' = [out EXCEPT ![r.cur] =
                 [whole |-> FALSE, mtime |-> clock, body |-> r.body]]
    /\ Become(j, [r EXCEPT !.pc = "write", !.at = "out"])
    /\ UNCHANGED <<clock, src, tmp, prov, contended, excused, spent>>

(* to_netcdf creates, or truncates, the temporary file. *)
OpenTmp(j) ==
    LET r      == job[j]
        others == {k \in Jobs \ {j} : Busy(k, r.cur)}
        shared == {k \in others : job[k].at = "tmp"}
    IN
    /\ r.pc = "open"
    /\ tmp' = [tmp EXCEPT ![r.cur] =
                 [whole |-> FALSE, mtime |-> clock, body |-> r.body]]
    /\ job' = [k \in Jobs |->
                 IF k = j THEN [r EXCEPT !.pc = "write", !.at = "tmp",
                                         !.mixed = shared # {}]
                 ELSE IF k \in shared THEN [job[k] EXCEPT !.mixed = TRUE]
                 ELSE job[k]]
    /\ contended' = IF others = {} THEN contended ELSE contended \cup {r.cur}
    /\ UNCHANGED <<clock, src, out, prov, excused, spent>>

(* to_netcdf returns: the inode it wrote is closed, wherever it is now. If *)
(* two jobs wrote it at once its contents are undefined.                   *)
FinishWrite(j) ==
    LET r == job[j] IN
    /\ r.pc = "write"
    /\ \E w \in IF r.mixed THEN BOOLEAN ELSE {TRUE} :
          LET f == [whole |-> w, mtime |-> clock, body |-> r.body] IN
          /\ tmp' = IF r.at = "tmp" THEN [tmp EXCEPT ![r.cur] = f] ELSE tmp
          /\ out' = IF r.at = "out" THEN [out EXCEPT ![r.cur] = f] ELSE out
    /\ Become(j, [r EXCEPT !.pc = "publish", !.at = "none"])
    /\ UNCHANGED <<clock, src, prov, contended, excused, spent>>

(* to_netcdf raises: disk quota, I/O error. *)
WriteFails(j) ==
    LET r == job[j] IN
    /\ r.pc \in {"open", "write"}
    /\ Fault
    /\ Become(j, Raise(r))
    /\ UNCHANGED <<clock, src, out, tmp, prov, contended, excused>>

(* Where the handle of a writer of t points after t's temporary file is    *)
(* renamed over the published one.                                         *)
AfterRename(at) == IF at = "tmp" THEN "out" ELSE IF at = "out" THEN "gone" ELSE at

(* tmp.replace(out); FileNotFoundError when another job took the file. *)
Publish(j) ==
    LET r == job[j]
        t == r.cur
    IN
    /\ r.pc = "publish"
    /\ IF tmp[t] = None
       THEN Become(j, Raise(r)) /\ UNCHANGED <<out, tmp>>
       ELSE /\ out' = [out EXCEPT ![t] = tmp[t]]
            /\ tmp' = [tmp EXCEPT ![t] = None]
            /\ job' = [k \in Jobs |->
                  IF k = j THEN IF t \in Groups THEN NextGroup(r)
                                ELSE [r EXCEPT !.pc = "cleanup", !.ok = TRUE]
                  ELSE IF job[k].cur = t
                  THEN [job[k] EXCEPT !.at = AfterRename(@)] ELSE job[k]]
    /\ UNCHANGED <<clock, src, prov, contended, excused, spent>>

(* write_member's finally: whatever is at the temporary path goes. *)
Cleanup(j) ==
    LET r == job[j] IN
    /\ r.pc = "cleanup"
    /\ tmp' = [tmp EXCEPT ![r.cur] = None]
    /\ job' = [k \in Jobs |->
          IF k = j THEN IF r.ok THEN [r EXCEPT !.pc = "record"] ELSE NextMember(r)
          ELSE IF job[k].cur = r.cur /\ job[k].at = "tmp"
          THEN [job[k] EXCEPT !.at = "gone"] ELSE job[k]]
    /\ UNCHANGED <<clock, src, out, prov, contended, excused, spent>>

(* main: the path is kept before its provenance is appended, and the log   *)
(* may fail alone.                                                         *)
Record(j) ==
    LET r == [job[j] EXCEPT !.paths = @ \cup {job[j].cur}] IN
    /\ r.pc = "record"
    /\ Become(j, NextMember(r))
    /\ \/ prov' = prov \cup r.rows /\ UNCHANGED spent
       \/ Fault /\ UNCHANGED prov
    /\ UNCHANGED <<clock, src, out, tmp, contended, excused>>

(* write_group_ensemble up to the write: every kept member file is opened, *)
(* members without a variable of the group are left out.                   *)
HasGroup(m, g) == \E v \in GroupVars[g] : out[m].body[v] # Missing

Restricted(fields, g) ==
    [v \in Vars |-> IF v \in GroupVars[g] THEN fields[v] ELSE Missing]

Concat(j) ==
    LET r    == job[j]
        used == {m \in r.paths : HasGroup(m, r.cur)}
    IN
    /\ r.pc = "concat"
    /\ \/ /\ Become(j, IF (\E m \in r.paths : ~out[m].whole) \/ used = {}
                       THEN Raise(r)
                       ELSE [r EXCEPT !.pc = "open", !.body =
                               [m \in Members |-> IF m \in used
                                    THEN Restricted(out[m].body, r.cur) ELSE None]])
          /\ UNCHANGED spent
       \/ Fault /\ Become(j, Raise(r))
    /\ UNCHANGED <<clock, src, out, tmp, prov, contended, excused>>

(* SIGKILL: time limit, node failure, scancel. *)
Kill(j) ==
    /\ Active(j)
    /\ Become(j, End(job[j], "killed"))
    /\ UNCHANGED <<clock, src, out, tmp, prov, contended, excused, spent>>

-----------------------------------------------------------------------------
(* The world around the jobs. *)

(* A changed stream that member_is_fresh cannot see: it never looks at the *)
(* 3-hourly stream, a removed file has no mtime, and a timestamp is        *)
(* compared with that of a file which may still be being written.          *)
Invisible(m, g, new) ==
    \/ g = Hifreq
    \/ new = None
    \/ out[m] # None /\ new.mtime <= out[m].mtime
    \/ \E j \in Jobs : /\ job[j].cur = m
                       /\ \/ job[j].pc \in {"read", "open", "write"}
                          \/ /\ job[j].pc = "publish" /\ tmp[m] # None
                             /\ new.mtime <= tmp[m].mtime

(* The model group replaces, adds (possibly with an older, preserved       *)
(* timestamp) or removes a stream.                                         *)
EditSource(m, g) ==
    /\ spent.edits < MaxEdits
    /\ spent' = [spent EXCEPT !.edits = @ + 1]
    /\ \E new \in [ver : {spent.edits + 2}, mtime : 0 .. clock] \cup {None} :
          /\ new # src[m][g]
          /\ src' = [src EXCEPT ![m][g] = new]
          /\ excused' = IF Invisible(m, g, new) THEN excused \cup {m} ELSE excused
    /\ UNCHANGED <<clock, out, tmp, job, prov, contended>>

Tick ==
    /\ clock < MaxClock
    /\ clock' = clock + 1
    /\ UNCHANGED <<src, out, tmp, job, prov, contended, excused, spent>>

JobStep(j) ==
    \/ Check(j) \/ Skip(j) \/ ReadVar(j) \/ OpenTmp(j) \/ FinishWrite(j)
    \/ Publish(j) \/ Cleanup(j) \/ Record(j) \/ Concat(j)

Next ==
    \/ \E j \in Jobs : Start(j) \/ JobStep(j) \/ MemberRaises(j) \/ WriteFails(j) \/ Kill(j)
    \/ \E m \in Members, g \in Streams : EditSource(m, g)
    \/ Tick

Spec == Init /\ [][Next]_vars

(* The batch system keeps running a job that is neither finished nor       *)
(* killed; nothing promises that jobs are started or sources change.       *)
FairSpec == Spec /\ \A j \in Jobs : WF_vars(JobStep(j))

-----------------------------------------------------------------------------
(* Properties. *)

PCs == {"idle", "check", "skip", "read", "open", "write", "publish",
        "cleanup", "record", "concat"}

Local == [pc : PCs, exit : {"none", "ok", "fail", "killed"},
          cur : Targets \cup {None}, plan : Seq(Members), todo : Seq(Targets),
          unread : Seq(Vars), body : Body, rows : SUBSET Row,
          paths : SUBSET Members, at : {"none", "tmp", "out", "gone"},
          mixed : BOOLEAN, ok : BOOLEAN, alone : BOOLEAN, renew : BOOLEAN,
          skip : BOOLEAN]

GroupBody == [Members -> Fields \cup {None}]

(* Members are handled before groups, a variable is pending while a member *)
(* is read, and what is written fits the target.                           *)
PhaseOK(r) ==
    /\ r.pc \in {"check", "skip", "read", "cleanup", "record"} => r.cur \in Members
    /\ r.pc = "concat" => r.cur \in Groups
    /\ r.pc \in {"open", "write", "publish"} => r.cur \in Targets
    /\ r.pc = "read" => r.unread # <<>>
    /\ r.cur \in Members => r.body \in Fields /\ r.todo \in Seq(Members)
    /\ r.cur \in Groups => r.todo \in Seq(Groups)
    /\ r.cur \in Groups /\ r.pc \in {"open", "write", "publish"} => r.body \in GroupBody

(* A kept path, or one about to be kept, is that of an existing file. *)
PathsExist(r) ==
    /\ \A m \in r.paths : out[m] # None
    /\ r.pc \in {"skip", "record"} => out[r.cur] # None
    /\ r.pc = "cleanup" /\ r.ok => out[r.cur] # None

(* Type invariant: files hold what their path is for, a job's locals have  *)
(* their types, and a path main L596 kept is never without a file.         *)
TypeOK ==
    /\ clock \in 0 .. MaxClock
    /\ src \in [Members -> [Streams -> {None} \cup
                 [ver : 1 .. MaxEdits + 1, mtime : 0 .. MaxClock]]]
    /\ out \in [Targets -> File \cup {None}]
    /\ tmp \in [Targets -> File \cup {None}]
    /\ \A m \in Members : /\ out[m] # None => out[m].body \in Fields
                          /\ tmp[m] # None => tmp[m].body \in Fields
    /\ job \in [Jobs -> Local]
    /\ \A j \in Jobs : PhaseOK(job[j]) /\ PathsExist(job[j])
    /\ prov \in SUBSET Row
    /\ contended \in SUBSET Targets
    /\ excused \in SUBSET Members
    /\ spent \in [edits : 0 .. MaxEdits, faults : 0 .. MaxFaults,
                  starts : 0 .. MaxStarts]

(* However jobs crash, fail and overlap, a published member or group file  *)
(* (write_member L448-461, write_group_ensemble L499-507) is whole, unless *)
(* two jobs had that very temporary file in hand at the same time.         *)
WholeUnlessContended ==
    \A t \in Targets \ contended : out[t] # None => out[t].whole

(* A member the freshness test L342-352 would skip holds what extracting   *)
(* it now would give, with only the listed blind spots (Invisible, a       *)
(* stream that failed to open, a shared temporary file).                   *)
FreshIsCurrent ==
    \A m \in Members \ (excused \cup contended) :
        MemberIsFresh(m, FALSE) => out[m].whole /\ out[m].body = Wanted(m)

Finished(j) == job[j].pc = "idle" /\ job[j].exit = "ok" /\ job[j].alone

(* After a job that ran alone returned 0, provenance.csv calls a variable  *)
(* of a member missing exactly when that member's file lacks it, whether   *)
(* the member was built or skipped (main L590-597).                        *)
ProvenanceMatchesMembers ==
    \A j \in Jobs : Finished(j) =>
        \A row \in prov :
            (row.status = "missing") <=> (out[row.mem].body[row.var] = Missing)

(* After a job that ran alone returned 0 without --skip-ensemble, every    *)
(* group file is its own: whole, and holding of each member it kept        *)
(* exactly the group's variables of that member's file (main L609-614).    *)
GroupsReflectMembers ==
    \A j \in Jobs : Finished(j) /\ ~job[j].skip =>
        \A g \in Groups :
            /\ out[g] # None
            /\ out[g].whole
            /\ out[g].body = [m \in Members |->
                    IF m \in job[j].paths /\ HasGroup(m, g)
                    THEN Restricted(out[m].body, g) ELSE None]

(* main swallows a member's failure (L598) and still returns 0: with no    *)
(* failure and no change of the sources, a job that ran alone never leaves *)
(* out a planned member for which some variable exists.                    *)
NoMemberLost ==
    \A j \in Jobs :
        Finished(j) /\ spent.faults = 0 /\ spent.edits = 0 =>
            \A i \in DOMAIN job[j].plan :
                job[j].plan[i] \in job[j].paths \/ Wanted(job[j].plan[i]) = NoFields

(* Every started job ends: no step of main waits for another job.          *)
JobsEnd == \A j \in Jobs : Active(j) ~> ~Active(j)

(* The rename protocol keeps the promise of AtomicStore: readers of a path *)
(* that two jobs never wrote at once see whole files only, each at least   *)
(* as young as the one before.                                             *)
Store == INSTANCE AtomicStore WITH
             Paths <- Targets, Bodies <- Body, store <- out, spoiled <- contended
ImplementsAtomicStore == Store!Spec

(* Why: while no two jobs share t's temporary file, the one job that has   *)
(* it either still writes it or has closed it whole, and no handle reaches *)
(* the published file.                                                     *)
Exclusive(t) ==
    /\ out[t] # None => out[t].whole /\ out[t].mtime <= clock
    /\ tmp[t] # None => /\ tmp[t].mtime <= clock
                        /\ out[t] # None => out[t].mtime <= tmp[t].mtime
    /\ \A j, k \in Jobs : Busy(j, t) /\ Busy(k, t) => j = k
    /\ \A j \in Jobs : job[j].cur = t =>
          /\ job[j].pc = "write" => job[j].at # "out" /\ ~job[j].mixed
          /\ job[j].pc = "write" /\ job[j].at # "tmp" => tmp[t] = None
          /\ job[j].pc = "publish" /\ tmp[t] # None => tmp[t].whole

(* The inductive invariant behind WholeUnlessContended. *)
IInv == /\ TypeOK
        /\ \A t \in Targets \ contended : Exclusive(t)

(* resolve_variable's docstring (L211) and provenance_from_existing_member's *)
(* (L374, "Rebuild provenance rows"): the status of a row says whether the   *)
(* variable was taken from monthly or resampled data.                        *)
ProvenanceStatusTruthful ==
    \A j \in Jobs : Finished(j) =>
        \A row \in prov : row.status = Status(out[row.mem].body[row.var])
=============================================================================
