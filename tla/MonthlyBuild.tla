---------------------------- MODULE MonthlyBuild ----------------------------
(***************************************************************************)
(* build_monthly_regional_aggregates.py: dask workers take the models in   *)
(* any order; each loads the monthly files, sums species, screens optical  *)
(* depths, derives fields and takes regional means of every month.  When   *)
(* all are there, one table and a meta file are written, in place.  The    *)
(* regions differ only in their cells; one of them stands for all.         *)
(***************************************************************************)
EXTENDS MonthlyFields

CONSTANTS
    MonthlyExclude,  \* EXCLUDE_MODELS_DEFAULT of this program
    MaxLost          \* bound: tasks a lost worker makes dask repeat

ASSUME MonthlyBuildAssumption == MaxLost \in Nat

VARIABLES
    mbuild,   \* the running build
    mtable,   \* regional_monthly_aggregates_ss.parquet
    mmeta,    \* its meta file
    mdone     \* history: the builds whose table was completed

monthlyBuild == <<mbuild, mtable, mmeta, mdone>>

MIdle == [pc |-> "idle", n |-> 0, models |-> {}, waiting |-> {}, lost |-> 0,
          got |-> [m \in Models |-> NotLoaded], rows |-> {}, disturbed |-> {}]

NoMTable == [state |-> "none", n |-> 0, rows |-> {}, models |-> {}, disturbed |-> {}]
NoMMeta  == [state |-> "none", n |-> 0, models |-> {}]

-----------------------------------------------------------------------------
(* One model: _derive_pre_agg, process_one_model. *)

(* A field here is also screened or not by apply_aerosol_quality_filter.   *)
Plain(from) == [from |-> from, screened |-> FALSE]

MonthlySums(g) ==
    [load_total |-> Plain(SumDatasets(g, LoadVars, TRUE)),
     emi_total  |-> Plain(SumDatasets(g, EmiVars, TRUE)),
     dep_total  |-> Plain(SumDatasets(g, DepVars, TRUE))]

(* Without absorption nothing can be screened.  The absorption is read     *)
(* again, unscreened, before the coefficients are computed.                *)
MonthlyDerived(g) ==
    LET screen == "abs550aer" \in Have(g)
        aod    == {"od550aer"} \cup ({"abs550aer"} \cap Have(g))
        loads  == LoadVars \cap Have(g)
        If(all, from, screened) ==
            [from |-> IF all THEN from ELSE {}, screened |-> screened]
        other  == OtherWavelength(g)
    IN  [MEC |-> If(loads # {}, aod \cup loads, screen),
         MAC |-> If(screen /\ loads # {}, {"abs550aer"} \cup loads, FALSE),
         SSA |-> If(screen, aod, screen),
         AE  |-> If(other # {}, aod \cup other, screen),
         MEC_ss |-> If({"od550ss", "loadss"} \subseteq Have(g), {"od550ss", "loadss"}, FALSE)]

RawVars == {"od550aer", "od550so4", "depso4", "emiso2", "od550ss", "loadss",
            "depss", "emiss", "precip", "abs550aer", "loadso4"}

MonthlyField(g) ==
    Also(Also([v \in RawVars \cap Variables |-> Plain({v} \cap Have(g))], MonthlySums(g)),
         MonthlyDerived(g))

(* Arithmetic keeps the months all operands have. *)
Months(g, f) ==
    LET off == {v \in f : g[v] = "offyear"}
    IN  IF f = {} THEN {} ELSE IF off = {} THEN {"season"}
        ELSE IF off = f THEN {"other"} ELSE {}

MonthlyRows(m, g) ==
    LET field == MonthlyField(g)
    IN  IF "od550aer" \notin Have(g) THEN {}
        ELSE UNION {{[model |-> m, month |-> month, var |-> v,
                      from |-> field[v].from, screened |-> field[v].screened] :
                        month \in Months(g, field[v].from)} : v \in DOMAIN field}

MTableRows(b) == UNION {MonthlyRows(m, b.got[m]) : m \in b.models}

-----------------------------------------------------------------------------
(* The build. *)

MonthlyBuildInit ==
    /\ mbuild = MIdle /\ mtable = NoMTable /\ mmeta = NoMMeta
    /\ mdone = {}

MonthlyEnd == mbuild' = MIdle

(* --models is not filtered by the default exclusions. *)
MutantExcludesNone ==
    /\ mbuild = MIdle /\ NewBuild
    /\ \E request \in Requests :
          LET asked  == Asked(request)
              all    == Discovered
              models == IF asked = {} THEN all ELSE asked \cap all
          IN  mbuild' = [MIdle EXCEPT !.pc = "compute", !.n = started',
                                      !.models = models, !.waiting = models]
    /\ UNCHANGED <<mtable, mmeta, mdone>>

StartMonthly ==
    /\ mbuild = MIdle /\ NewBuild
    /\ \E request \in Requests :
          LET asked  == Asked(request)
              all    == Discovered \ MonthlyExclude
              models == IF asked = {} THEN all ELSE asked \cap all
          IN  mbuild' = [MIdle EXCEPT !.pc = "compute", !.n = started',
                                      !.models = models, !.waiting = models]
    /\ UNCHANGED <<mtable, mmeta, mdone>>

(* dask.compute: a worker does a model's task. *)
DoTask ==
    /\ mbuild.pc = "compute"
    /\ \E m \in mbuild.waiting : \E g \in Loads(m) :
          mbuild' = [mbuild EXCEPT !.waiting = @ \ {m}, !.got[m] = g,
              !.disturbed = IF g = archive[m].files THEN @ \ {m} ELSE @ \cup {m}]
    /\ UNCHANGED <<mtable, mmeta, mdone, monthly>>

(* What a lost worker had done is done again. *)
LoseWorker ==
    /\ mbuild.pc = "compute" /\ mbuild.waiting # {} /\ mbuild.lost < MaxLost
    /\ \E m \in mbuild.models \ mbuild.waiting :
          mbuild' = [mbuild EXCEPT !.waiting = @ \cup {m}, !.got[m] = NotLoaded,
                                   !.lost = @ + 1]
    /\ UNCHANGED <<mtable, mmeta, mdone, monthly>>

NothingAggregated ==
    /\ mbuild.pc = "compute" /\ mbuild.waiting = {} /\ MTableRows(mbuild) = {}
    /\ MonthlyEnd
    /\ UNCHANGED <<mtable, mmeta, mdone, monthly>>

(* The meta file is written before the table. *)
MutantMonthlyMetaFirst ==
    /\ mbuild.pc = "compute" /\ mbuild.waiting = {} /\ MTableRows(mbuild) # {}
    /\ mmeta' = [state |-> "whole", n |-> mbuild.n, models |-> mbuild.models]
    /\ mtable' = [NoMTable EXCEPT !.state = "torn"]
    /\ mbuild' = [mbuild EXCEPT !.pc = "table", !.rows = MTableRows(mbuild),
                                !.got = MIdle.got]
    /\ UNCHANGED <<mdone, monthly>>

(* The table is written before all tasks are done. *)
MutantOpensEarly ==
    /\ mbuild.pc = "compute" /\ MTableRows(mbuild) # {}
    /\ mtable' = [NoMTable EXCEPT !.state = "torn"]
    /\ mbuild' = [mbuild EXCEPT !.pc = "table", !.rows = MTableRows(mbuild),
                                !.got = MIdle.got]
    /\ UNCHANGED <<mmeta, mdone, monthly>>

OpenMonthly ==
    /\ mbuild.pc = "compute" /\ mbuild.waiting = {} /\ MTableRows(mbuild) # {}
    /\ mtable' = [NoMTable EXCEPT !.state = "torn"]
    /\ mbuild' = [mbuild EXCEPT !.pc = "table", !.rows = MTableRows(mbuild),
                                !.got = MIdle.got]
    /\ UNCHANGED <<mmeta, mdone, monthly>>

CloseMonthly ==
    /\ mbuild.pc = "table"
    /\ mtable' = [state |-> "whole", n |-> mbuild.n, rows |-> mbuild.rows,
                  models |-> mbuild.models, disturbed |-> mbuild.disturbed]
    /\ mdone' = mdone \cup {mbuild.n}
    /\ mbuild' = [mbuild EXCEPT !.pc = "meta", !.rows = {}]
    /\ UNCHANGED <<mmeta, monthly>>

MonthlyTableFails ==
    /\ mbuild.pc = "table"
    /\ mtable' \in {mtable, NoMTable}
    /\ MonthlyEnd
    /\ UNCHANGED <<mmeta, mdone, monthly>>

OpenMonthlyMeta ==
    /\ mbuild.pc = "meta"
    /\ mmeta' = [NoMMeta EXCEPT !.state = "torn"]
    /\ mbuild' = [mbuild EXCEPT !.pc = "metatext"]
    /\ UNCHANGED <<mtable, mdone, monthly>>

CloseMonthlyMeta ==
    /\ mbuild.pc = "metatext"
    /\ mmeta' = [state |-> "whole", n |-> mbuild.n, models |-> mbuild.models]
    /\ MonthlyEnd
    /\ UNCHANGED <<mtable, mdone, monthly>>

(* Also a task that raises: dask.compute raises it and the build ends.     *)
KillMonthly ==
    /\ mbuild # MIdle
    /\ MonthlyEnd
    /\ UNCHANGED <<mtable, mmeta, mdone, monthly>>

MonthlyStep ==
    \/ DoTask \/ LoseWorker \/ NothingAggregated \/ OpenMonthly \/ CloseMonthly
    \/ MonthlyTableFails \/ OpenMonthlyMeta \/ CloseMonthlyMeta

MonthlyNext == StartMonthly \/ MonthlyStep \/ KillMonthly

-----------------------------------------------------------------------------
(* Properties. *)

MonthlyTypeOK ==
    /\ mbuild.pc \in {"idle", "compute", "table", "meta", "metatext"}
    /\ mbuild.n \in 0 .. started /\ mbuild.lost \in 0 .. MaxLost
    /\ mbuild.waiting \cup mbuild.disturbed \subseteq mbuild.models
    /\ mbuild.models \subseteq Models \ MonthlyExclude
    /\ mbuild.got \in [Models -> Files]
    /\ mtable.state \in {"none", "torn", "whole"} /\ mtable.n \in 0 .. started
    /\ mmeta.state \in {"none", "torn", "whole"} /\ mmeta.n \in 0 .. started
    /\ mdone \subseteq 1 .. started

(* A total in the table is of all its species (require_all=True), whatever *)
(* was missing or being written when the task read the model's files.      *)
TotalsAreComplete ==
    \A x \in mtable.rows :
        /\ x.var = "load_total" => LoadVars \subseteq x.from
        /\ x.var = "emi_total"  => EmiVars \subseteq x.from
        /\ x.var = "dep_total"  => DepVars \subseteq x.from

(* In whatever order the tasks were done, and whichever were done again,   *)
(* a model whose od550aer can be read and that nothing was writing         *)
(* meanwhile is in the table, with every total its files allow             *)
(* (build_monthly, dask.compute and the empty frames it drops).            *)
EveryTaskIsInTheTable ==
    mtable.state = "whole" =>
        \A m \in mtable.models \ mtable.disturbed :
            LET Good(v) == archive[m].files[v] \in Usable
                Has(v)  == \E x \in mtable.rows : x.model = m /\ x.var = v
            IN  Good("od550aer") =>
                    /\ Has("od550aer")
                    /\ (\A v \in LoadVars : Good(v) /\ archive[m].files[v] # "offyear")
                          => Has("load_total")

(* As MetaFollowsTable of the seasonal table, for this one (build_monthly  *)
(* L500, L527).                                                            *)
MonthlyMetaFollowsTable ==
    mmeta.state = "whole" =>
        /\ mmeta.n \in mdone
        /\ mtable.state = "whole" /\ mtable.n = mmeta.n =>
              {x.model : x \in mtable.rows} \subseteq mmeta.models

(* The coefficients derived in the comments' words from "filtered values   *)
(* for ALL derived parameters (MEC, MAC, SSA, AE)": where the model has    *)
(* absorption, each is screened.                                           *)
AllDerivedScreened ==
    \A x \in mtable.rows :
        x.var \in {"MEC", "MAC", "SSA", "AE"} /\ "abs550aer" \in x.from => x.screened
=============================================================================
