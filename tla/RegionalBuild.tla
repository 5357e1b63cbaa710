--------------------------- MODULE RegionalBuild ----------------------------
(***************************************************************************)
(* build_regional_aggregates.py: one model at a time it loads the monthly  *)
(* files, sums species, derives fields, takes seasonal regional means and  *)
(* samples at POLDER's places; then it fits the observations to the models *)
(* and writes one table for the notebooks, and a meta file, in place.      *)
(***************************************************************************)
EXTENDS MonthlyFields

CONSTANTS
    ExcludeModels,           \* EXCLUDE_MODELS_DEFAULT
    Regions, SourceRegions,  \* the regions; those whose observations are fitted
    Observations             \* what the observation files may hold

(* What is computed is no variable (ALL_VARIABLES), the satellites are no   *)
(* models, and a variable without a directory is one without a file.       *)
ASSUME RegionalBuildAssumption ==
    /\ {"SSA", "lifetime_BC_OA", "lifetime_BC_OA_emission"} \cap Variables = {}
    /\ {"abs550aer", "loadbc", "loadoa", "depbc", "depoa"} \subseteq Variables
    /\ {"POLDER", "GPCP"} \cap Models = {}
    /\ SourceRegions \subseteq Regions
    /\ Observations \subseteq [polder : BOOLEAN, gpcp : BOOLEAN,
                               points : [Regions -> {"none", "few", "many"}]]

VARIABLES
    obs,     \* the POLDER and GPCP files; few points are less than 3
    build,   \* the running build
    table,   \* regional_seasonal_aggregates.parquet
    meta,    \* its meta file
    completed  \* history: the builds whose table was completed

regional == <<obs, build, table, meta, completed>>

(* A model's turns: a name given twice is taken, and counted, twice.       *)
Turns(models, twice) == models \X {1} \cup (models \cap twice) \X {2}
AllTurns == Models \X {1, 2}

Idle == [pc |-> "idle", n |-> 0, homogenize |-> FALSE, asked |-> {}, twice |-> {},
         models |-> {}, todo |-> {}, got |-> [t \in AllTurns |-> NotLoaded],
         rows |-> {}, disturbed |-> {}]

NoTable == [state |-> "none", n |-> 0, rows |-> {}, asked |-> {}, twice |-> {},
            disturbed |-> {}]
NoMeta  == [state |-> "none", n |-> 0, models |-> {}]

-----------------------------------------------------------------------------
(* One model: _normalize_model, _derive_pre_agg, process_one_model. *)

Combined(g) ==
    [load_total |-> SumDatasets(g, LoadVars, FALSE),
     emi_total  |-> SumDatasets(g, EmiVars, FALSE),
     dep_total  |-> SumDatasets(g, DepVars, FALSE),
     load_BC_OA |-> SumDatasets(g, {"loadbc", "loadoa"}, TRUE),
     emi_BC_OA  |-> SumDatasets(g, {"emibc", "emioa"}, TRUE),
     dep_BC_OA  |-> SumDatasets(g, {"depbc", "depoa"}, TRUE)]

(* calculate_derived_var: the extinction takes whatever loads there are.   *)
Derived(g) ==
    LET With(keys, more) == IF keys \subseteq Have(g) /\ more # {} THEN keys \cup more ELSE {}
    IN  [MEC |-> With({"od550aer"}, LoadVars \cap Have(g)),
         MAC |-> With({"abs550aer", "loadbc"}, {"loadoa"} \cap Have(g)),
         SSA |-> With({"abs550aer"}, {"od550aer"} \cap Have(g)),
         AE  |-> With({"od550aer"}, OtherWavelength(g))]

RegionalField(g) ==
    Also(Also([v \in Variables |-> {v} \cap Have(g)], Combined(g)), Derived(g))

(* A mean over a season the field has no months of is not finite.          *)
(* regional_aggregate(skipna=False) sums over the cells there are and      *)
(* divides by the weight of all.                                           *)
HasMean(g, f) == f # {} /\ \A v \in f : g[v] # "offyear"
Mean(g, f)    == IF \E v \in f : g[v] = "holes" THEN "diluted" ELSE "mean"

Row(region, dataset, var, source, from, value) ==
    [region |-> region, dataset |-> dataset, var |-> var, source |-> source,
     from |-> from, value |-> value]

MeanRows(m, r, g) ==
    LET field == RegionalField(g)
    IN  {Row(r, m, v, IF v \in Variables THEN "aggregated" ELSE "derived",
             field[v], Mean(g, field[v])) :
            v \in {w \in DOMAIN field : HasMean(g, field[w])}}

(* The lifetime filter looks at the wrong bound. *)
MutantKeepsAllLifetimes(value) == value

LifetimeDays(value) == IF value = "out" THEN "nan" ELSE value

LifetimeRows(m, r, g) ==
    LET field == Combined(g)
        load  == field.load_BC_OA
        Can(flux, days) == HasMean(g, load) /\ HasMean(g, flux) /\ days # "zero"
        dep == archive[m].dep
        emi == archive[m].emi
        Lifetime(var, flux, value) == Row(r, m, var, "derived", load \cup flux, value)
    IN  (IF Can(field.dep_BC_OA, dep)
         THEN {Lifetime("lifetime_BC_OA_raw", field.dep_BC_OA, dep),
               Lifetime("lifetime_BC_OA", field.dep_BC_OA, LifetimeDays(dep))}
         ELSE {})
        \cup (IF Can(field.emi_BC_OA, emi)
              THEN {Lifetime("lifetime_BC_OA_emission", field.emi_BC_OA, emi)}
              ELSE {})

(* _sample_at_polder: finite where three of POLDER's points are. *)
HasSample(g, r, f) ==
    /\ f # {} /\ obs.points[r] = "many"
    /\ \A v \in f : g[v] \notin {"offyear", "edge"}

SampledVars == {"abs550aer", "SSA"}

SampleRows(m, r, g) ==
    LET field == RegionalField(g)
    IN  {Row(r, m, v, "sampled", field[v], "sample") :
            v \in {w \in SampledVars \cap DOMAIN field : HasSample(g, r, field[w])}}

(* A model without od550aer is skipped. *)
MutantOneTemplate == {"od550aer"}

TemplateVars == {"od550aer", "abs550aer", "loadbc", "emibc", "precip"}

ProcessOneModel(m, r, g, homogenize) ==
    IF TemplateVars \cap Have(g) = {} THEN {}
    ELSE MeanRows(m, r, g) \cup LifetimeRows(m, r, g)
         \cup (IF homogenize THEN SampleRows(m, r, g) ELSE {})

-----------------------------------------------------------------------------
(* Observations. *)

(* Pairs without a sampled value are not filtered out. *)
MutantUnfilteredPairs(b, r, v) ==
    {t \in b.models \X {1, 2} :
        LET g == b.got[t]
        IN  TemplateVars \cap Have(g) # {} /\ HasMean(g, RegionalField(g)[v])}

(* The pairs of a regional and a sampled value that homogenize_from_pairs  *)
(* keeps, by a model's turn.                                               *)
Pairs(b, r, v) ==
    {t \in b.models \X {1, 2} :
        LET g == b.got[t]
            f == RegionalField(g)[v]
        IN  TemplateVars \cap Have(g) # {} /\ HasMean(g, f) /\ HasSample(g, r, f)}

ObsVar(v) == IF v = "abs550aer" THEN "AAOD_550" ELSE "SSA"

(* Two pairs are enough for a fit. *)
MutantFitsTwo(b, r, v) ==
    LET fitted == Pairs(b, r, v)
    IN  IF r \in SourceRegions /\ Cardinality(fitted) >= 2
        THEN Row(r, "POLDER", ObsVar(v), "homogenized", {t[1] : t \in fitted}, "fit")
        ELSE Row(r, "POLDER", ObsVar(v), "homogenized", {}, "copy")

(* The source regions' observations are fitted to three pairs or more, and *)
(* copied otherwise; the other regions' are copied.                        *)
Homogenized(b, r, v) ==
    LET fitted == Pairs(b, r, v)
    IN  IF r \in SourceRegions /\ Cardinality(fitted) >= 3
        THEN Row(r, "POLDER", ObsVar(v), "homogenized", {t[1] : t \in fitted}, "fit")
        ELSE Row(r, "POLDER", ObsVar(v), "homogenized", {}, "copy")

ObservedRows(b, r) ==
    (IF obs.points[r] = "many"
     THEN {Row(r, "POLDER", v, "sampled", {}, "sample") :
              v \in {"AAOD_550", "AOD_550", "SSA", "AE"}}
          \cup (IF b.homogenize THEN {Homogenized(b, r, v) : v \in SampledVars} ELSE {})
     ELSE {})
    \cup (IF obs.gpcp THEN {Row(r, "GPCP", "precip", "aggregated", {}, "mean")} ELSE {})

TableRows(b) ==
    UNION {ObservedRows(b, r)
           \cup UNION {ProcessOneModel(t[1], r, b.got[t], b.homogenize) :
                           t \in b.models \X {1, 2}} :
              r \in Regions}

-----------------------------------------------------------------------------
(* The build. *)

RegionalInit ==
    /\ obs \in Observations
    /\ build = Idle /\ table = NoTable /\ meta = NoMeta
    /\ completed = {}

RegionalEnd == build' = Idle

(* main, build: with --models only those. *)
StartBuild ==
    /\ build = Idle /\ NewBuild
    /\ \E request \in Requests, homogenize \in BOOLEAN :
          LET asked  == Asked(request)
              twice  == Twice(request)
              models == (IF asked = {} THEN Discovered ELSE asked \cap Discovered)
                        \ ExcludeModels
          IN  build' = [Idle EXCEPT !.pc = "load", !.n = started',
                            !.homogenize = homogenize, !.asked = asked, !.twice = twice,
                            !.models = models, !.todo = Turns(models, twice)]
    /\ UNCHANGED <<obs, table, meta, completed>>

(* load_polder_df raises where there is no file. *)
NoPolder ==
    /\ build.pc = "load" /\ ~ obs.polder
    /\ RegionalEnd
    /\ UNCHANGED <<obs, table, meta, completed, monthly>>

(* The models are taken in the order of their names. *)
IsNext(t) ==
    /\ t \in build.todo
    /\ t[2] = 2 => <<t[1], 1>> \notin build.todo
    /\ \E i \in DOMAIN ModelOrder :
          /\ ModelOrder[i] = t[1]
          /\ \A j \in 1 .. (i - 1) : {<<ModelOrder[j], 1>>, <<ModelOrder[j], 2>>}
                                       \cap build.todo = {}

LoadModel ==
    /\ build.pc = "load" /\ obs.polder
    /\ \E t \in AllTurns : IsNext(t) /\ \E g \in Loads(t[1]) :
          build' = [build EXCEPT !.todo = @ \ {t}, !.got[t] = g,
              !.disturbed = @ \cup (IF g = archive[t[1]].files THEN {} ELSE {t[1]})]
    /\ UNCHANGED <<obs, table, meta, completed, monthly>>

(* A table without rows has no column to filter by: KeyError.              *)
NoRows ==
    /\ build.pc = "load" /\ obs.polder /\ build.todo = {}
    /\ TableRows(build) = {}
    /\ RegionalEnd
    /\ UNCHANGED <<obs, table, meta, completed, monthly>>

(* The meta file is written before the table. *)
MutantMetaFirst ==
    /\ build.pc = "load" /\ obs.polder /\ build.todo = {}
    /\ TableRows(build) # {}
    /\ meta' = [state |-> "whole", n |-> build.n, models |-> build.models]
    /\ table' = [NoTable EXCEPT !.state = "torn"]
    /\ build' = [build EXCEPT !.pc = "table", !.rows = TableRows(build),
                              !.got = Idle.got]
    /\ UNCHANGED <<obs, completed, monthly>>

OpenTable ==
    /\ build.pc = "load" /\ obs.polder /\ build.todo = {}
    /\ TableRows(build) # {}
    /\ table' = [NoTable EXCEPT !.state = "torn"]
    /\ build' = [build EXCEPT !.pc = "table", !.rows = TableRows(build),
                              !.got = Idle.got]
    /\ UNCHANGED <<obs, meta, completed, monthly>>

CloseTable ==
    /\ build.pc = "table"
    /\ table' = [state |-> "whole", n |-> build.n, rows |-> build.rows,
                 asked |-> build.asked, twice |-> build.twice,
                 disturbed |-> build.disturbed]
    /\ completed' = completed \cup {build.n}
    /\ build' = [build EXCEPT !.pc = "meta", !.rows = {}]
    /\ UNCHANGED <<obs, meta, monthly>>

(* The parquet writer may or may not remove what it could not finish. *)
TableFails ==
    /\ build.pc = "table"
    /\ table' \in {table, NoTable}
    /\ RegionalEnd
    /\ UNCHANGED <<obs, meta, completed, monthly>>

OpenMeta ==
    /\ build.pc = "meta"
    /\ meta' = [NoMeta EXCEPT !.state = "torn"]
    /\ build' = [build EXCEPT !.pc = "metatext"]
    /\ UNCHANGED <<obs, table, completed, monthly>>

CloseMeta ==
    /\ build.pc = "metatext"
    /\ meta' = [state |-> "whole", n |-> build.n, models |-> build.models]
    /\ RegionalEnd
    /\ UNCHANGED <<obs, table, completed, monthly>>

KillBuild ==
    /\ build # Idle
    /\ RegionalEnd
    /\ UNCHANGED <<obs, table, meta, completed, monthly>>

RegionalStep ==
    \/ NoPolder \/ LoadModel \/ NoRows \/ OpenTable \/ CloseTable \/ TableFails
    \/ OpenMeta \/ CloseMeta

RegionalNext == StartBuild \/ RegionalStep \/ KillBuild

-----------------------------------------------------------------------------
(* What the notebooks make of the table. *)

(* load_aerocom_seasonal: the lifetimes of the overlay. *)
OverlayLifetimes(rows) ==
    {x \in rows :
        /\ x.region \in SourceRegions /\ x.dataset \in Models
        /\ x.source \in {"aggregated", "derived"}
        /\ \/ x.var = "lifetime_BC_OA" /\ x.value # "nan"
           \/ x.var = "lifetime_BC_OA_emission" /\ x.value = "in"}

(* rows_to_obs_dicts: homogenized rows before sampled ones. *)
ObservationUsed(rows, r, v) ==
    LET of(s) == {x \in rows : x.region = r /\ x.dataset = "POLDER"
                                  /\ x.var = v /\ x.source = s}
    IN  IF of("homogenized") # {} THEN of("homogenized") ELSE of("sampled")

-----------------------------------------------------------------------------
(* Properties. *)

RegionalTypeOK ==
    /\ obs \in Observations
    /\ build.pc \in {"idle", "load", "table", "meta", "metatext"}
    /\ build.asked \subseteq Models /\ build.twice \subseteq build.asked
    /\ build.disturbed \subseteq build.models /\ build.models \subseteq Models \ ExcludeModels
    /\ build.todo \subseteq Turns(build.models, build.twice)
    /\ build.got \in [AllTurns -> Files]
    /\ table.state \in {"none", "torn", "whole"} /\ table.n \in 0 .. started
    /\ meta.state \in {"none", "torn", "whole"} /\ meta.n \in 0 .. started
    /\ build.n \in 0 .. started /\ completed \subseteq 1 .. started

HasRow(r, m, v) == \E x \in table.rows : x.region = r /\ x.dataset = m /\ x.var = v

(* Every lifetime the notebooks overlay is between 0.3 and 50 days and is  *)
(* computed from a load and a flux of both species, black carbon and       *)
(* organic aerosol: no partial sum (sum_datasets, sum_deposition_datasets),*)
(* whichever of the model's files were missing, broken or being rewritten. *)
OverlayIsComplete ==
    \A x \in OverlayLifetimes(table.rows) :
        /\ x.value = "in"
        /\ {"loadbc", "loadoa"} \subseteq x.from
        /\ {"depbc", "depoa"} \subseteq x.from \/ {"emibc", "emioa"} \subseteq x.from

(* An observation the notebooks use was fitted only in a source region, to *)
(* at least three models, one whose name was given twice counting twice,   *)
(* and to exactly those whose regional and sampled values both stand in    *)
(* the same table (process_one_model L505-525 against                      *)
(* homogenize_from_pairs, build L743).                                     *)
FitIsInTheTable ==
    \A r \in Regions, v \in SampledVars :
        \A x \in ObservationUsed(table.rows, r, ObsVar(v)) : x.value = "fit" =>
            /\ r \in SourceRegions
            /\ Cardinality(x.from) + Cardinality(x.from \cap table.twice) >= 3
            /\ x.from = {m \in Models :
                            \A s \in {"sampled", IF v = "SSA" THEN "derived" ELSE "aggregated"} :
                               \E y \in table.rows : y.region = r /\ y.dataset = m
                                                        /\ y.var = v /\ y.source = s}

(* A model the build was to cover, and that nothing was writing meanwhile, *)
(* has its row for each of the three files models are discovered by that   *)
(* can be read and has the season's months, and its lifetime if the four   *)
(* files it needs are such: no other file of the model, missing or broken, *)
(* and no other model, takes them out of the table (build L727-746, the    *)
(* skips of process_one_model).                                            *)
ReadableIsInTheTable ==
    table.state = "whole" =>
        LET Good(m, v) == archive[m].files[v] \in Usable \ {"offyear"}
            covered == (IF table.asked = {} THEN Models ELSE table.asked)
                       \ (ExcludeModels \cup table.disturbed)
        IN  \A m \in covered, r \in Regions :
                /\ \A v \in {"od550aer", "abs550aer", "loadbc"} :
                       Good(m, v) => HasRow(r, m, v)
                /\ (\A v \in {"loadbc", "loadoa", "depbc", "depoa"} : Good(m, v))
                      /\ archive[m].dep # "zero" => HasRow(r, m, "lifetime_BC_OA")

(* The meta file never speaks of a table that was not finished, and when   *)
(* it is the table's it names every model in it, however builds fail or    *)
(* are killed (build L813, L835).                                          *)
MetaFollowsTable ==
    meta.state = "whole" =>
        /\ meta.n \in completed
        /\ table.state = "whole" /\ table.n = meta.n =>
              {x.dataset : x \in table.rows} \ {"POLDER", "GPCP"} \subseteq meta.models

(* regional_aggregate, on skipna: "If True, NaN values are omitted from    *)
(* the aggregation"; build_regional_aggregates.py passes False, so no mean *)
(* in the table may have been taken over part of its cells.                *)
NoCellOmitted == \A x \in table.rows : x.value # "diluted"
=============================================================================
