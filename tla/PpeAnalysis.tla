----------------------------- MODULE PpeAnalysis -----------------------------
(***************************************************************************)
(* notebooks/AAOD_error_attribution_PPE.py: a session loads the group      *)
(* files, computes a monthly and a seasonal table of the members, writes   *)
(* both, reads the regridded satellite months and lists what was missing.  *)
(* With USE_AGG_CACHE it takes the tables from an earlier session.         *)
(* Meanwhile an extraction may replace the group files, array tasks may    *)
(* grid months again, and another session may write the same tables.       *)
(*                                                                         *)
(* A number is followed by where it comes from: the extraction and the     *)
(* member.  The cells that load data are 2, 3 and 4.                       *)
(***************************************************************************)
EXTENDS GroupFiles, SpexoneRegrid, FiniteSets

CONSTANTS
    Sessions,    \* sessions running at a time
    Burden,      \* the group whose members the analysis is about
    CellOf,      \* CellOf[g]: the cell that first computes with g's values
    MonthOrder   \* SPEXONE_YEARS_MONTHS

ASSUME AnalysisAssumption ==
    /\ Burden \in Groups
    /\ CellOf \in [Groups -> 2 .. 4]
    /\ MonthOrder \in Seq(Months)
    /\ {MonthOrder[i] : i \in DOMAIN MonthOrder} = Months

VARIABLES
    sess,      \* the sessions
    table,     \* MONTHLY_PARQUET and AGG_PARQUET
    report,    \* potential_issues.md, with the fit the session made
    complete,  \* history: the sessions that wrote both tables
    crossed    \* history: the sessions that wrote tables while another did

tables == <<table, complete, crossed>>
analysisVars == <<started, groupVars, spexone, sess, tables, report>>

Labels(file) == {file.members[i] : i \in DOMAIN file.members}

(* What target_models asks for (cells 2 and 3). *)
NeededGroups == {g \in Groups : CellOf[g] < 4}

NoRows   == <<>>
NoValues == [g \in Groups |-> None]
NothingRead == [m \in Months |-> NoGrid]

SIdle == [pc |-> "idle", n |-> 0, cached |-> FALSE, saw |-> {}, quiet |-> TRUE,
          todo |-> <<>>, opened |-> NoValues, models |-> <<>>, i |-> 1,
          target |-> FALSE, derived |-> FALSE, rows |-> NoRows, grids |-> NoRows,
          at |-> "none", from |-> 0, left |-> {}, used |-> NothingRead, missing |-> {}, failed |-> FALSE]

(* asked: the members of the burden file the session opened.  quiet and    *)
(* flipped say how its session went.                                       *)
Table(state, r, shared) ==
    [state |-> state, n |-> r.n, rows |-> r.rows, shared |-> shared,
     asked |-> IF r.opened[Burden] = None THEN {} ELSE Labels(r.opened[Burden]),
     quiet |-> r.quiet, flipped |-> r.saw = BOOLEAN]

NoTable == Table("none", SIdle, FALSE)
NoReport == [n |-> 0, fitted |-> FALSE, quiet |-> FALSE, failed |-> FALSE, grids |-> {},
             means |-> {}, missing |-> {}, used |-> NothingRead]

(* The extractions the values of some rows are from. *)
Extractions(rows) ==
    {rows[v[1]][v[2]].gen :
        v \in {w \in (DOMAIN rows) \X Groups : rows[w[1]][w[2]] # None}}

Become(s, r) == sess' = [sess EXCEPT ![s] = r]
Stop(s) == Become(s, SIdle)      \* an exception no cell catches

(* The order in which the tables are written. *)
MutantSeasonalFirst == <<"seasonal", "monthly">>
TableOrder == <<"monthly", "seasonal">>

-----------------------------------------------------------------------------
(* The session that ran undisturbed on the files that are there. *)
Earlier ==
    [SIdle EXCEPT !.opened = groups, !.derived = TRUE,
        !.rows = [m \in Labels(groups[Burden]) |->
                     [g \in Groups |-> [gen |-> 0, member |-> m]]]]

AnalysisInit ==
    /\ LaunchInit /\ GroupFilesInit /\ SpexoneInit
    /\ sess = [s \in Sessions |-> SIdle]
    /\ \/ /\ table = [t \in {"monthly", "seasonal"} |-> NoTable]
          /\ complete = {}
       \/ /\ \A g \in Groups : groups[g] # None
          /\ \A g \in Groups : groups[g].fit /\ groups[g].members = groups[Burden].members
          /\ table = [t \in {"monthly", "seasonal"} |-> Table("whole", Earlier, FALSE)]
          /\ complete = {0}
    /\ report = NoReport
    /\ crossed = {}

StartSession(s) ==
    /\ sess[s] = SIdle /\ StartProgram
    /\ \E cached \in BOOLEAN :
          Become(s, [SIdle EXCEPT !.pc = "cell1", !.n = started', !.cached = cached])
    /\ UNCHANGED <<tables, report>>

(* The guard every one of the first four cells evaluates again. *)
CacheHit(s) == sess[s].cached /\ table["seasonal"].state # "none"

Saw(s) == [sess[s] EXCEPT !.saw = @ \cup {CacheHit(s)}]

CellOne(s) ==
    /\ sess[s].pc = "cell1"
    /\ IF CacheHit(s) THEN Become(s, [Saw(s) EXCEPT !.pc = "cell2"])
       ELSE IF \E g \in Groups : groups[g] = None THEN Stop(s)
       ELSE Become(s, [Saw(s) EXCEPT !.pc = "open", !.todo = GroupOrder,
                             !.quiet = (ext = NoExtraction /\ ~halfway)])
    /\ UNCHANGED <<tables, report>>

(* open_dataset reads the dimensions and the coordinates only. *)
OpenGroup(s) ==
    LET r == sess[s] IN
    /\ r.pc = "open" /\ r.todo # <<>>
    /\ Become(s, [r EXCEPT !.opened[Head(r.todo)] = groups[Head(r.todo)],
                           !.todo = Tail(r.todo)])
    /\ UNCHANGED <<tables, report>>

(* Mutant of SelectMembers: a member some group lacks is left out. *)
MutantMissingSkipped(s) ==
    LET r == sess[s]
        Everywhere(m) == \A g \in Groups : m \in Labels(r.opened[g])
    IN
    /\ r.pc = "open" /\ r.todo = <<>>
    /\ Become(s, [r EXCEPT !.pc = "cell2", !.models =
                              SelectSeq(r.opened[Burden].members, Everywhere)])
    /\ UNCHANGED <<tables, report>>

(* Mutant of SelectMembers: isel by the place in the burden file. *)
MutantByPlace(s) ==
    LET r == sess[s] IN
    /\ r.pc = "open" /\ r.todo = <<>>
    /\ Become(s, [r EXCEPT !.pc = "cell2", !.models = r.opened[Burden].members])
    /\ UNCHANGED <<tables, report>>

(* sel(ens=eid) of every group raises for a member one of them lacks.      *)
SelectMembers(s) ==
    LET r == sess[s] IN
    /\ r.pc = "open" /\ r.todo = <<>>
    /\ IF \E g \in Groups : ~ Labels(r.opened[Burden]) \subseteq Labels(r.opened[g])
       THEN Stop(s)
       ELSE Become(s, [r EXCEPT !.pc = "cell2", !.models = r.opened[Burden].members])
    /\ UNCHANGED <<tables, report>>

(* Without members there is nothing to normalise and no target. *)
CellTwo(s) ==
    /\ sess[s].pc = "cell2"
    /\ Become(s, [Saw(s) EXCEPT !.i = 1,
                     !.pc = IF CacheHit(s) \/ sess[s].models = <<>> THEN "cell3"
                            ELSE "load2"])
    /\ UNCHANGED <<tables, report>>

CellThree(s) ==
    /\ sess[s].pc = "cell3"
    /\ Become(s, [Saw(s) EXCEPT !.i = 1,
                     !.pc = IF CacheHit(s) \/ ~sess[s].target THEN "cell4" ELSE "load3"])
    /\ UNCHANGED <<tables, report>>

(* Mutant of CellFour: a session that has its grids takes any table there is. *)
MutantTakesAnyTable(s) ==
    /\ sess[s].pc = "cell4"
    /\ IF table["seasonal"].state # "none" THEN Become(s, [Saw(s) EXCEPT !.pc = "read"])
       ELSE IF ~sess[s].target THEN Stop(s)
       ELSE Become(s, [Saw(s) EXCEPT !.i = 1, !.todo = TableOrder,
                          !.pc = IF sess[s].derived THEN "load4" ELSE "open table"])
    /\ UNCHANGED <<tables, report>>

(* Without a target there is no grid to make a mask of; with targets but   *)
(* no derived fields, nothing is aggregated.                               *)
CellFour(s) ==
    /\ sess[s].pc = "cell4"
    /\ IF CacheHit(s) THEN Become(s, [Saw(s) EXCEPT !.pc = "read"])
       ELSE IF ~sess[s].target THEN Stop(s)
       ELSE Become(s, [Saw(s) EXCEPT !.i = 1, !.todo = TableOrder,
                          !.pc = IF sess[s].derived THEN "load4" ELSE "open table"])
    /\ UNCHANGED <<tables, report>>

(* The file at g's path is opened again, and read where the member was     *)
(* when the coordinates were read.                                         *)
Position(r, g, m) == CHOOSE p \in DOMAIN r.opened[g].members : r.opened[g].members[p] = m

Readable(r, g, m) == groups[g].fit /\ Position(r, g, m) \in DOMAIN groups[g].members

Value(r, g, m) ==
    [gen |-> groups[g].gen, member |-> groups[g].members[Position(r, g, m)]]

(* One member's values of the groups a cell computes with.  Variables that *)
(* were not there at opening are not asked for; cell 4 passes over a       *)
(* member it cannot aggregate.                                             *)
Load(s, cell) ==
    LET r    == sess[s]
        m    == r.models[r.i]
        here == {g \in Groups : CellOf[g] = cell /\ r.opened[g].fit}
        old  == IF m \in DOMAIN r.rows THEN r.rows[m] ELSE NoValues
        got  == [g \in Groups |->
                    IF g \in here /\ Readable(r, g, m) THEN Value(r, g, m) ELSE old[g]]
        rows == [k \in {m} \cup DOMAIN r.rows |-> IF k = m THEN got ELSE r.rows[k]]
        more == [r EXCEPT !.rows = rows, !.i = @ + 1]
    IN  IF cell < 4 /\ \E g \in here : ~Readable(r, g, m) THEN Stop(s)
        ELSE IF r.i < Len(r.models) THEN Become(s, more)
        ELSE Become(s, CASE cell = 2 -> [more EXCEPT !.pc = "cell3",
                                   !.target = \A g \in NeededGroups : r.opened[g].fit]
                         [] cell = 3 -> [more EXCEPT !.pc = "cell4", !.derived = TRUE]
                         [] cell = 4 -> [more EXCEPT !.pc = "open table"])

Compute(s) ==
    /\ \/ sess[s].pc = "load2" /\ Load(s, 2)
       \/ sess[s].pc = "load3" /\ Load(s, 3)
       \/ sess[s].pc = "load4" /\ Load(s, 4)
    /\ UNCHANGED <<tables, report>>

-----------------------------------------------------------------------------
(* The two tables, each written in place. *)

Writing(s) == sess[s].pc \in {"open table", "close table"}

(* The sessions that have the table at t's path open for writing. *)
Holders(t) == {s \in Sessions : /\ sess[s].pc = "close table" /\ sess[s].at = "path"
                                /\ Head(sess[s].todo) = t}

(* Derived fields that were skipped leave the tables without rows. *)
Tabled(r) == IF r.derived THEN r ELSE [r EXCEPT !.rows = NoRows]

OpenTable(s) ==
    LET r      == Tabled(sess[s])
        t      == Head(r.todo)
        others == {o \in Sessions \ {s} : Writing(o)}
    IN
    /\ r.pc = "open table"
    /\ table' = [table EXCEPT ![t] = Table("torn", r, Holders(t) # {})]
    /\ Become(s, [r EXCEPT !.pc = "close table", !.at = "path"])
    /\ crossed' = IF others = {} THEN crossed
                  ELSE crossed \cup {r.n} \cup {sess[o].n : o \in others}
    /\ UNCHANGED <<complete, report>>

(* What two sessions leave of one file may or may not be readable.  After  *)
(* the second table the session goes on with the one it computed, beside   *)
(* the grids it was computed from; a later cell groups it by a column that *)
(* a table without rows has not.                                           *)
CloseTable(s) ==
    LET r == sess[s]
        t == Head(r.todo)
    IN
    /\ r.pc = "close table"
    /\ IF r.at # "path" THEN UNCHANGED table
       ELSE \E state \in IF table[t].shared THEN {"torn", "whole"} ELSE {"whole"} :
              table' = [table EXCEPT ![t] = Table(state, r, @.shared)]
    /\ IF Tail(r.todo) # <<>>
       THEN /\ Become(s, [r EXCEPT !.pc = "open table", !.at = "none", !.todo = Tail(@)])
            /\ UNCHANGED complete
       ELSE /\ complete' = complete \cup {r.n}
            /\ IF r.rows = NoRows THEN Stop(s)
               ELSE Become(s, [r EXCEPT !.pc = "months", !.at = "none", !.todo = <<>>,
                                        !.opened = NoValues, !.from = r.n, !.grids = r.rows])
    /\ UNCHANGED <<crossed, report>>

(* to_parquet raises (disk quota): the file is removed if that succeeds. *)
TableFails(s) ==
    LET t == Head(sess[s].todo) IN
    /\ sess[s].pc = "close table"
    /\ \/ Stop(s) /\ UNCHANGED table
       \/ /\ table' = [table EXCEPT ![t] = NoTable]
          /\ sess' = [o \in Sessions |->
                         IF o = s THEN SIdle
                         ELSE IF o \in Holders(t) THEN [sess[o] EXCEPT !.at = "gone"]
                         ELSE sess[o]]
    /\ UNCHANGED <<complete, crossed, report>>

(* read_parquet of the monthly table, which may be absent. *)
ReadMonthly(s) ==
    /\ sess[s].pc = "read"
    /\ IF table["monthly"].state = "torn" THEN Stop(s)
       ELSE Become(s, [sess[s] EXCEPT !.pc = "read seasonal"])
    /\ UNCHANGED <<tables, report>>

(* The grids the session may have in memory stay there. *)
ReadSeasonal(s) ==
    LET r == sess[s]
        f == table["seasonal"]
    IN
    /\ r.pc = "read seasonal"
    /\ IF f.state # "whole" \/ f.rows = NoRows THEN Stop(s)
       ELSE Become(s, [r EXCEPT !.pc = "months", !.opened = NoValues, !.todo = <<>>,
                                !.grids = r.rows, !.rows = f.rows, !.from = f.n,
                                !.quiet = @ /\ f.quiet])
    /\ UNCHANGED <<tables, report>>

-----------------------------------------------------------------------------
(* The satellite, and the end of the session. *)

(* Mutant of Listed: a missing month is printed, not listed. *)
MutantOnlyPrinted(found) == {}

(* The months potential_issues.md will list. *)
Listed(found) == Months \ found

LookForMonths(s) ==
    LET found == {m \in Months : grid[m] # NoGrid} IN
    /\ sess[s].pc = "months"
    /\ Become(s, [sess[s] EXCEPT !.left = found, !.failed = (found = {}),
                       !.missing = Listed(found),
                       !.pc = IF found = {} THEN "report" ELSE "read months"])
    /\ UNCHANGED <<tables, report>>

First(months) ==
    LET at == {i \in DOMAIN MonthOrder : MonthOrder[i] \in months}
    IN  MonthOrder[CHOOSE i \in at : \A k \in at : i <= k]

(* A month that cannot be read leaves the session without satellite data,  *)
(* and is listed.                                                          *)
ReadMonth(s) ==
    LET r == sess[s]
        m == First(r.left)
        x == grid[m]
    IN
    /\ r.pc = "read months"
    /\ Become(s, IF x = NoGrid \/ ~x.whole
                 THEN [r EXCEPT !.pc = "report", !.failed = TRUE, !.left = {},
                                !.used = NothingRead]
                 ELSE [r EXCEPT !.left = @ \ {m}, !.used[m] = x,
                                !.pc = IF r.left = {m} THEN "report" ELSE @])
    /\ UNCHANGED <<tables, report>>

(* The homogenization fits the values of the grids in memory against the   *)
(* regional means of the seasonal table, whoever wrote it.                 *)
WriteReport(s) ==
    LET r == sess[s] IN
    /\ r.pc = "report"
    /\ report' = [n |-> r.n, fitted |-> r.derived /\ ~r.failed, quiet |-> r.quiet,
                  failed |-> r.failed, grids |-> Extractions(r.grids),
                  means |-> Extractions(r.rows), missing |-> r.missing, used |-> r.used]
    /\ Stop(s)
    /\ UNCHANGED tables

(* Ctrl-C, a closed kernel, the time limit. *)
KillSession(s) ==
    /\ sess[s].pc # "idle"
    /\ Stop(s)
    /\ UNCHANGED <<tables, report>>

SessionStep(s) ==
    \/ CellOne(s) \/ OpenGroup(s) \/ SelectMembers(s) \/ CellTwo(s) \/ CellThree(s)
    \/ CellFour(s) \/ Compute(s) \/ OpenTable(s) \/ CloseTable(s) \/ TableFails(s)
    \/ ReadMonthly(s) \/ ReadSeasonal(s) \/ LookForMonths(s) \/ ReadMonth(s)
    \/ WriteReport(s)

(* A group file that is replaced disturbs the sessions that run. *)
Disturb ==
    sess' = IF groups' = groups THEN sess
            ELSE [s \in Sessions |-> IF sess[s].pc = "idle" THEN sess[s]
                                     ELSE [sess[s] EXCEPT !.quiet = FALSE]]

AnalysisNext ==
    \/ \E s \in Sessions :
          \/ StartSession(s) /\ UNCHANGED <<groupVars, spexone>>
          \/ (SessionStep(s) \/ KillSession(s))
                /\ UNCHANGED <<started, groupVars, spexone>>
    \/ GroupFilesNext /\ Disturb /\ UNCHANGED <<spexone, tables, report>>
    \/ SpexoneNext /\ UNCHANGED <<groupVars, sess, tables, report>>

AnalysisSpec == AnalysisInit /\ [][AnalysisNext]_analysisVars

-----------------------------------------------------------------------------
(* Properties. *)

SessionOK(r) ==
    /\ r.pc \in {"load2", "load3", "load4"} =>
          /\ r.i \in DOMAIN r.models
          /\ \A g \in Groups : r.opened[g] # None /\ Labels(r.opened[Burden]) \subseteq
                                                     Labels(r.opened[g])
    /\ r.pc \in {"open table", "close table"} => r.todo # <<>> /\ r.target
    /\ r.derived => r.target
    /\ r.pc = "read months" => r.left # {}
    /\ r.pc \in {"months", "read months", "report"} => r.rows # NoRows /\ r.from \in complete

(* Type invariant: files are what their paths are for, a session loads     *)
(* only members that every group it opened has, a table is written only    *)
(* for targets, and a task's open file has a name (AAOD_error_attribution_ *)
(* PPE.py L309-347, L635-731; SPEXone_regrid_model.py L306).               *)
AnalysisTypeOK ==
    /\ started \in 0 .. MaxStarts
    /\ GroupFilesTypeOK /\ SpexoneTypeOK
    /\ \A s \in Sessions : SessionOK(sess[s])
    /\ \A t \in DOMAIN table : /\ table[t].state \in {"none", "torn", "whole"}
                               /\ table[t].n \in 0 .. started
    /\ complete \cup crossed \subseteq 0 .. started

(* A session during which no group file was replaced, begun while no       *)
(* extraction was at its groups and none had ended between two of them,    *)
(* puts into its tables numbers of one extraction only, each under the     *)
(* name of the member it belongs to (the lazy values of L314-347; main of  *)
(* ppe_extract_monthly.py L609-614 ends at the first group that fails).    *)
TableIsOfOneExtraction ==
    \A t \in DOMAIN table :
        table[t].state = "whole" /\ table[t].quiet /\ ~table[t].flipped =>
            LET values == {<<m, table[t].rows[m][g]>> :
                              m \in DOMAIN table[t].rows, g \in Groups}
                known  == {v \in values : v[2] # None}
            IN  \A v, w \in known : v[2].gen = w[2].gen /\ v[2].member = v[1]

(* Whatever was replaced meanwhile, a readable table has a row of every    *)
(* member of the burden file its session opened: a member other groups     *)
(* lack ends the session (L326-328), it is never left out.  Not so when    *)
(* the cache appeared or vanished between two cells of the session.        *)
TableHasItsMembers ==
    \A t \in DOMAIN table :
        table[t].state = "whole" /\ ~table[t].shared /\ ~table[t].flipped =>
            DOMAIN table[t].rows = table[t].asked

(* The monthly table a cached session reads beside the seasonal one        *)
(* (L640-643) is of the same session, unless the session that wrote it     *)
(* ended before it wrote the other, or both wrote at the same time         *)
(* (L727-728).                                                             *)
TablesAgree ==
    LET m == table["monthly"]
        a == table["seasonal"]
    IN  m.state = "whole" /\ a.state = "whole" /\ m.n # a.n =>
            m.n \notin complete \/ {m.n, a.n} \subseteq crossed

(* A fit of sampled against regional means (homogenize_spexone_variable)   *)
(* takes both from one extraction.  The cache guard is evaluated again     *)
(* before the tables are read (L635), so the means may be those of a table *)
(* that another session wrote since this one loaded its grids; what keeps  *)
(* them together is that the two sessions then ran at the same time, and   *)
(* no group file was replaced during either.                               *)
FitIsOfOneExtraction ==
    report.fitted /\ report.quiet =>
        \A x \in report.grids, y \in report.means : x = y

(* potential_issues.md lists every month that the satellite means lack:    *)
(* whatever tasks did to the monthly files between the existence test and  *)
(* the read (L1172-1182), a month not listed was read with all the L2      *)
(* files of that month that have bins, unless an exception had closed it   *)
(* or two tasks had written it at once.                                    *)
NothingMissingSilently ==
    report.n > 0 /\ ~report.failed =>
        \A m \in Months \ report.missing :
            /\ report.used[m] # NoGrid
            /\ \/ report.used[m].shared \/ report.used[m].cut
               \/ report.used[m].parts = Gridded(m)
=============================================================================
