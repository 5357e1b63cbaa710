----------------------- MODULE RegionalBuild_proofs ------------------------
(***************************************************************************)
(* What the seasonal table promises, proved for any models, regions,       *)
(* variables, monthly files and observations.                              *)
(***************************************************************************)
EXTENDS MonthlyBuild_proofs, FiniteSetTheorems

-----------------------------------------------------------------------------
(* Rows. *)

LifetimeVars == {"lifetime_BC_OA", "lifetime_BC_OA_emission"}

(* A lifetime is of both species, and finite or filtered.                  *)
LifetimeOK(x) ==
    /\ x.value \in (IF x.var = "lifetime_BC_OA" THEN {"in", "nan"} ELSE {"in", "out"})
    /\ {"loadbc", "loadoa"} \subseteq x.from
    /\ {"depbc", "depoa"} \subseteq x.from \/ {"emibc", "emioa"} \subseteq x.from

RowOK(x) == x.var \in LifetimeVars => LifetimeOK(x)

LEMMA MeanRowOK ==
    ASSUME NEW m, NEW r, NEW g, NEW x \in MeanRows(m, r, g)
    PROVE  RowOK(x) /\ x.dataset = m
<1> DEFINE raw == [v \in Variables |-> {v} \cap Have(g)]
           combined == Combined(g)
           derived == Derived(g)
<1>1. RegionalField(g) = Also(Also(raw, combined), derived)
  BY DEF RegionalField
<1>2. /\ DOMAIN raw \cap LifetimeVars = {}
      /\ DOMAIN combined \cap LifetimeVars = {}
      /\ DOMAIN derived \cap LifetimeVars = {}
  BY RegionalBuildAssumption DEF Combined, Derived, LifetimeVars
<1> HIDE DEF raw, combined, derived
<1>3. DOMAIN RegionalField(g) \cap LifetimeVars = {}
  BY <1>1, <1>2 DEF Also
<1> DEFINE field == RegionalField(g)
<1> HIDE DEF field
<1>4. PICK v \in DOMAIN field :
          x = Row(r, m, v, IF v \in Variables THEN "aggregated" ELSE "derived",
                  field[v], Mean(g, field[v]))
  BY DEF MeanRows, field
<1>5. x.var = v /\ x.dataset = m
  BY <1>4 DEF Row
<1> QED
  BY <1>3, <1>4, <1>5 DEF RowOK, field

LEMMA LifetimeRowOK ==
    ASSUME NEW m \in Models, NEW r, NEW g, archive \in Archive,
           NEW x \in LifetimeRows(m, r, g)
    PROVE  RowOK(x) /\ x.dataset = m
<1> DEFINE field == Combined(g)
           load == field.load_BC_OA
           dep == archive[m].dep
           emi == archive[m].emi
           Can(flux, days) == HasMean(g, load) /\ HasMean(g, flux) /\ days # "zero"
           Lifetime(var, flux, value) == Row(r, m, var, "derived", load \cup flux, value)
<1>1. dep \in {"in", "out", "zero"} /\ emi \in {"in", "out", "zero"}
  BY DEF Archive, Lifetimes
<1>2. /\ load = SumDatasets(g, {"loadbc", "loadoa"}, TRUE)
      /\ field.dep_BC_OA = SumDatasets(g, {"depbc", "depoa"}, TRUE)
      /\ field.emi_BC_OA = SumDatasets(g, {"emibc", "emioa"}, TRUE)
  BY DEF Combined
<1>3. x \in (IF Can(field.dep_BC_OA, dep)
             THEN {Lifetime("lifetime_BC_OA_raw", field.dep_BC_OA, dep),
                   Lifetime("lifetime_BC_OA", field.dep_BC_OA, LifetimeDays(dep))}
             ELSE {})
        \cup (IF Can(field.emi_BC_OA, emi)
              THEN {Lifetime("lifetime_BC_OA_emission", field.emi_BC_OA, emi)} ELSE {})
  BY DEF LifetimeRows
<1>4. PICK l, d, e : l = load /\ d = field.dep_BC_OA /\ e = field.emi_BC_OA
  OBVIOUS
<1>5. /\ HasMean(g, l) => {"loadbc", "loadoa"} \subseteq l
      /\ HasMean(g, d) => {"depbc", "depoa"} \subseteq d
      /\ HasMean(g, e) => {"emibc", "emioa"} \subseteq e
  <2>1. ASSUME NEW keys, NEW f, f = SumDatasets(g, keys, TRUE), HasMean(g, f)
        PROVE  keys \subseteq f
    BY <2>1, SumIsComplete DEF HasMean
  <2> QED
    BY <1>2, <1>4, <2>1
<1> HIDE DEF load, field, dep, emi
<1>6. CASE Can(d, dep) /\ x = Lifetime("lifetime_BC_OA_raw", d, dep)
  <2>1. x.var = "lifetime_BC_OA_raw" /\ x.dataset = m
    BY <1>6 DEF Row
  <2> QED
    BY <2>1 DEF RowOK, LifetimeVars
<1>7. CASE Can(d, dep) /\ x = Lifetime("lifetime_BC_OA", d, LifetimeDays(dep))
  <2>1. /\ x.var = "lifetime_BC_OA" /\ x.dataset = m
        /\ x.from = l \cup d /\ x.value = LifetimeDays(dep)
    BY <1>4, <1>7 DEF Row
  <2>2. x.value \in {"in", "nan"}
    BY <1>1, <1>7, <2>1 DEF LifetimeDays
  <2> QED
    BY <1>4, <1>5, <1>7, <2>1, <2>2 DEF RowOK, LifetimeOK
<1>8. CASE Can(e, emi) /\ x = Lifetime("lifetime_BC_OA_emission", e, emi)
  <2>1. /\ x.var = "lifetime_BC_OA_emission" /\ x.dataset = m
        /\ x.from = l \cup e /\ x.value = emi
    BY <1>4, <1>8 DEF Row
  <2>2. x.value \in {"in", "out"}
    BY <1>1, <1>8, <2>1
  <2> QED
    BY <1>4, <1>5, <1>8, <2>1, <2>2 DEF RowOK, LifetimeOK
<1> HIDE DEF Can, Lifetime
<1> QED
  BY <1>3, <1>4, <1>6, <1>7, <1>8

LEMMA SampleRowOK ==
    ASSUME NEW m, NEW r, NEW g, NEW x \in SampleRows(m, r, g)
    PROVE  RowOK(x) /\ x.dataset = m
<1> DEFINE field == RegionalField(g)
<1> HIDE DEF field
<1>1. PICK v \in SampledVars : x = Row(r, m, v, "sampled", field[v], "sample")
  BY DEF SampleRows, field
<1>2. x.var = v /\ x.dataset = m
  BY <1>1 DEF Row
<1> QED
  BY <1>2 DEF RowOK, SampledVars, LifetimeVars

LEMMA ObservedRowOK ==
    ASSUME NEW b, NEW r, NEW x \in ObservedRows(b, r)
    PROVE  RowOK(x) /\ x.dataset \in {"POLDER", "GPCP"}
<1>1. CASE \E v \in {"AAOD_550", "AOD_550", "SSA", "AE"} :
              x = Row(r, "POLDER", v, "sampled", {}, "sample")
  BY <1>1 DEF Row, RowOK, LifetimeVars
<1>2. CASE \E v \in SampledVars : x = Homogenized(b, r, v)
  <2>1. PICK v \in SampledVars : x = Homogenized(b, r, v)
    BY <1>2
  <2>2. PICK f, a : x = Row(r, "POLDER", ObsVar(v), "homogenized", f, a)
    BY <2>1 DEF Homogenized
  <2> QED
    BY <2>2 DEF Row, ObsVar, RowOK, LifetimeVars
<1>3. CASE x = Row(r, "GPCP", "precip", "aggregated", {}, "mean")
  BY <1>3 DEF Row, RowOK, LifetimeVars
<1> QED
  BY <1>1, <1>2, <1>3 DEF ObservedRows

DatasetsOf(models) == models \cup {"POLDER", "GPCP"}

LEMMA TableRowsOK ==
    ASSUME NEW b, archive \in Archive, b.models \subseteq Models, NEW x \in TableRows(b)
    PROVE  RowOK(x) /\ x.dataset \in DatasetsOf(b.models)
<1>1. PICK r \in Regions :
         x \in ObservedRows(b, r)
              \cup UNION {ProcessOneModel(t[1], r, b.got[t], b.homogenize) :
                              t \in b.models \X {1, 2}}
  BY DEF TableRows
<1>2. CASE x \in ObservedRows(b, r)
  BY <1>2, ObservedRowOK DEF DatasetsOf
<1>3. CASE x \in UNION {ProcessOneModel(t[1], r, b.got[t], b.homogenize) :
                            t \in b.models \X {1, 2}}
  <2>1. PICK m \in b.models, t \in b.models \X {1, 2} :
           m = t[1] /\ x \in ProcessOneModel(m, r, b.got[t], b.homogenize)
    BY <1>3
  <2>2. PICK g : g = b.got[t]
    OBVIOUS
  <2>3. x \in MeanRows(m, r, g) \/ x \in LifetimeRows(m, r, g) \/ x \in SampleRows(m, r, g)
    BY <2>1, <2>2 DEF ProcessOneModel
  <2>4. m \in Models
    OBVIOUS
  <2>5. RowOK(x) /\ x.dataset = m
    BY <2>3, <2>4, MeanRowOK, LifetimeRowOK, SampleRowOK
  <2> QED
    BY <2>5 DEF DatasetsOf
<1> QED
  BY <1>1, <1>2, <1>3

-----------------------------------------------------------------------------
(* A running build's number is new; its table is its own until it ends.    *)

RFields == {"pc", "n", "homogenize", "asked", "twice", "models", "todo", "got", "rows",
            "disturbed"}

AllOf(rows, models) == \A x \in rows : x.dataset \in DatasetsOf(models)

BuildInv ==
    /\ build = [f \in RFields |-> build[f]]
    /\ build.models \subseteq Models
    /\ build.pc # "idle" => build.n \in 1 .. started
    /\ build.pc \in {"load", "table"} => build.n \notin completed
    /\ build.pc = "table" =>
          AllOf(build.rows, build.models) /\ \A x \in build.rows : RowOK(x)
    /\ build.pc \in {"meta", "metatext"} =>
          build.n \in completed /\ table.n = build.n /\ AllOf(table.rows, build.models)

TableInv ==
    /\ archive \in Archive
    /\ started \in Nat /\ completed \subseteq 1 .. started
    /\ \A x \in table.rows : RowOK(x)
    /\ MetaFollowsTable

RegionalInv == BuildInv /\ TableInv

LEMMA EndInv ==
    ASSUME TableInv', RegionalEnd
    PROVE  RegionalInv'
<1>1. build' = Idle
  BY DEF RegionalEnd
<1>2. Idle = [f \in RFields |-> Idle[f]] /\ Idle.pc = "idle" /\ Idle.models = {}
  BY DEF Idle, RFields
<1> QED
  BY <1>1, <1>2 DEF RegionalInv, BuildInv

LEMMA RegionalInvInit == ASSUME TablesInit PROVE RegionalInv
<1>1. /\ build = Idle /\ table = NoTable /\ meta = NoMeta /\ completed = {}
      /\ started = 0 /\ archive \in Archive
  BY MonthlyFieldsAssumption DEF TablesInit, RegionalInit, MonthlyInit
<1>2. Idle = [f \in RFields |-> Idle[f]] /\ Idle.pc = "idle" /\ Idle.models = {}
  BY DEF Idle, RFields
<1>3. table.rows = {} /\ meta.state = "none"
  BY <1>1 DEF NoTable, NoMeta
<1> QED
  BY <1>1, <1>2, <1>3 DEF RegionalInv, BuildInv, TableInv, MetaFollowsTable

(* The step of a build that reads on. *)
LEMMA GoesOn ==
    ASSUME RegionalInv, UNCHANGED <<archive, table, meta, completed>>,
           started' \in {started, started + 1},
           build' = [f \in RFields |-> build'[f]], build'.pc = "load",
           build'.models \subseteq Models,
           \/ build.pc = "load" /\ build'.n = build.n
           \/ build'.n = started' /\ started' = started + 1
    PROVE  RegionalInv'
<1>1. /\ started \in Nat /\ started' \in Nat /\ started <= started' /\ completed \subseteq 1 .. started
  BY DEF RegionalInv, TableInv
<1>2. build'.n \in 1 .. started' /\ build'.n \notin completed
  BY <1>1 DEF RegionalInv, BuildInv
<1>3. completed' \subseteq 1 .. started'
  BY <1>1
<1>4. TableInv'
  BY <1>1, <1>3 DEF RegionalInv, TableInv, MetaFollowsTable
<1> QED
  BY <1>2, <1>4 DEF RegionalInv, BuildInv

LEMMA ReadingInv ==
    ASSUME RegionalInv, StartBuild \/ LoadModel
    PROVE  RegionalInv'
<1>1. CASE StartBuild
  <2>1. PICK asked, twice, homogenize, models, todo, n :
           /\ build' = [Idle EXCEPT !.pc = "load", !.n = n, !.homogenize = homogenize,
                                    !.asked = asked, !.twice = twice, !.models = models,
                                    !.todo = todo]
           /\ n = started' /\ models \subseteq Models
    <3>1. PICK asked, twice, homogenize, models, todo :
             /\ build' = [Idle EXCEPT !.pc = "load", !.n = started',
                               !.homogenize = homogenize, !.asked = asked, !.twice = twice,
                               !.models = models, !.todo = todo]
             /\ models = (IF asked = {} THEN Discovered ELSE asked \cap Discovered)
                         \ ExcludeModels
      BY <1>1 DEF StartBuild
    <3>2. models \subseteq Models
      BY <3>1 DEF Discovered
    <3> QED
      BY <3>1, <3>2
  <2>2. /\ build' = [f \in RFields |-> build'[f]] /\ build'.pc = "load" /\ build'.n = n
        /\ build'.models = models
    BY <2>1 DEF Idle, RFields
  <2> QED
    BY <1>1, <2>1, <2>2, GoesOn DEF StartBuild, NewBuild, StartOne
<1>2. CASE LoadModel
  <2>1. PICK b : b = build
    OBVIOUS
  <2>2. b = [f \in RFields |-> b[f]] /\ b.pc = "load" /\ b.models \subseteq Models
    BY <1>2, <2>1 DEF RegionalInv, BuildInv, LoadModel
  <2>3. PICK t, g, more : build' = [b EXCEPT !.todo = @ \ {t}, !.got[t] = g,
                                             !.disturbed = @ \cup more]
    <3>1. PICK t, g : build' = [build EXCEPT !.todo = @ \ {t}, !.got[t] = g,
              !.disturbed = @ \cup (IF g = archive[t[1]].files THEN {} ELSE {t[1]})]
      BY <1>2 DEF LoadModel
    <3> WITNESS t, g, IF g = archive[t[1]].files THEN {} ELSE {t[1]}
    <3> QED
      BY <2>1, <3>1
  <2>4. PICK todo, got, disturbed :
           build' = [b EXCEPT !.todo = todo, !.got = got, !.disturbed = disturbed]
    <3> WITNESS b.todo \ {t}, [b.got EXCEPT ![t] = g], b.disturbed \cup more
    <3> QED
      BY <2>2, <2>3 DEF RFields
  <2>5. /\ build' = [f \in RFields |-> build'[f]] /\ build'.pc = "load" /\ build'.n = b.n
        /\ build'.models = b.models
    BY <2>2, <2>4 DEF RFields
  <2> QED
    BY <1>2, <2>1, <2>2, <2>5, GoesOn DEF LoadModel, monthly
<1> QED
  BY <1>1, <1>2

LEMMA EndsInv ==
    ASSUME RegionalInv, NoPolder \/ NoRows \/ KillBuild \/ TableFails
    PROVE  RegionalInv'
<1>1. /\ RegionalEnd /\ meta' = meta /\ completed' = completed /\ started' = started
      /\ archive' = archive
  BY DEF NoPolder, NoRows, KillBuild, TableFails, monthly
<1>2. table' = table \/ (table'.state = "none" /\ table'.rows = {})
  BY DEF NoPolder, NoRows, KillBuild, TableFails, NoTable
<1>3. TableInv'
  BY <1>1, <1>2 DEF RegionalInv, TableInv, MetaFollowsTable
<1> QED
  BY <1>1, <1>3, EndInv

LEMMA OpenInv ==
    ASSUME RegionalInv, OpenTable
    PROVE  RegionalInv'
<1>1. PICK b, rows, got, n, s, done :
         /\ b = build /\ rows = TableRows(build) /\ got = Idle.got
         /\ n = build.n /\ s = started /\ done = completed
  OBVIOUS
<1>2. /\ build' = [b EXCEPT !.pc = "table", !.rows = rows, !.got = got]
      /\ b.pc = "load" /\ table' = [NoTable EXCEPT !.state = "torn"]
      /\ meta' = meta /\ completed' = done /\ started' = s /\ archive' = archive
  BY <1>1 DEF OpenTable, monthly
<1>3. b = [f \in RFields |-> b[f]] /\ b.models \subseteq Models /\ n \in 1 .. s /\ n \notin done
  BY <1>1, <1>2 DEF RegionalInv, BuildInv
<1>4. /\ build' = [f \in RFields |-> build'[f]] /\ build'.pc = "table" /\ build'.n = n
      /\ build'.rows = rows /\ build'.models = b.models
  BY <1>1, <1>2, <1>3 DEF RFields
<1>5. table'.state = "torn" /\ table'.rows = {}
  BY <1>2 DEF NoTable
<1>6. \A x \in rows : RowOK(x) /\ x.dataset \in DatasetsOf(b.models)
  BY <1>1, <1>3, TableRowsOK DEF RegionalInv, TableInv
<1>7. TableInv'
  BY <1>1, <1>2, <1>5 DEF RegionalInv, TableInv, MetaFollowsTable
<1>8. \A x \in build'.rows : RowOK(x) /\ x.dataset \in DatasetsOf(build'.models)
  BY <1>4, <1>6
<1>9. build'.n \in 1 .. started' /\ build'.n \notin completed'
  BY <1>2, <1>3, <1>4
<1>10. build'.models \subseteq Models
  BY <1>3, <1>4
<1>11. BuildInv'
  BY <1>4, <1>8, <1>9, <1>10 DEF BuildInv, AllOf
<1> QED
  BY <1>7, <1>11 DEF RegionalInv

LEMMA CloseInv ==
    ASSUME RegionalInv, CloseTable
    PROVE  RegionalInv'
<1>1. PICK b, n, s, done : b = build /\ n = build.n /\ s = started /\ done = completed
  OBVIOUS
<1>2. /\ build' = [b EXCEPT !.pc = "meta", !.rows = {}] /\ b.pc = "table"
      /\ table'.state = "whole" /\ table'.n = n /\ table'.rows = b.rows
      /\ completed' = done \cup {n} /\ meta' = meta /\ started' = s /\ archive' = archive
  BY <1>1 DEF CloseTable, monthly
<1>3. /\ b = [f \in RFields |-> b[f]] /\ b.models \subseteq Models
      /\ n \in 1 .. s /\ n \notin done
      /\ \A x \in b.rows : RowOK(x) /\ x.dataset \in DatasetsOf(b.models)
  BY <1>1, <1>2 DEF RegionalInv, BuildInv, AllOf
<1>4. /\ build' = [f \in RFields |-> build'[f]] /\ build'.pc = "meta" /\ build'.n = n
      /\ build'.models = b.models
  BY <1>1, <1>2, <1>3 DEF RFields
<1>5. meta.state = "whole" => meta.n \in done /\ meta.n # n
  BY <1>1, <1>3 DEF RegionalInv, TableInv, MetaFollowsTable
<1>6. MetaFollowsTable'
  BY <1>2, <1>5 DEF MetaFollowsTable
<1>7. completed' \subseteq 1 .. started' /\ started' \in Nat
  BY <1>1, <1>2, <1>3 DEF RegionalInv, TableInv
<1>8. TableInv'
  BY <1>2, <1>3, <1>6, <1>7 DEF RegionalInv, TableInv
<1>9. table'.n = build'.n /\ \A x \in table'.rows : x.dataset \in DatasetsOf(build'.models)
  BY <1>2, <1>3, <1>4
<1>10. build'.n \in 1 .. started' /\ build'.n \in completed'
  <2>1. build'.n = n /\ started' = s /\ completed' = done \cup {n}
    BY <1>2, <1>4
  <2>2. n \in 1 .. s
    BY <1>3
  <2> QED
    BY <2>1, <2>2
<1>11. build'.models \subseteq Models
  BY <1>3, <1>4
<1>12. BuildInv'
  BY <1>4, <1>9, <1>10, <1>11 DEF BuildInv, AllOf
<1> QED
  BY <1>8, <1>12 DEF RegionalInv

LEMMA MetaInv ==
    ASSUME RegionalInv, OpenMeta \/ CloseMeta
    PROVE  RegionalInv'
<1>1. PICK b, n, s, done, rows :
         b = build /\ n = build.n /\ s = started /\ done = completed /\ rows = table.rows
  OBVIOUS
<1>2. /\ table' = table /\ completed' = done /\ started' = s /\ archive' = archive
      /\ b.pc \in {"meta", "metatext"}
  BY <1>1 DEF OpenMeta, CloseMeta, monthly
<1>3. /\ b = [f \in RFields |-> b[f]] /\ b.models \subseteq Models
      /\ n \in 1 .. s /\ n \in done /\ table.n = n
      /\ \A x \in rows : x.dataset \in DatasetsOf(b.models)
  BY <1>1, <1>2 DEF RegionalInv, BuildInv, AllOf
<1>4. CASE OpenMeta
  <2>1. build' = [b EXCEPT !.pc = "metatext"] /\ meta' = [NoMeta EXCEPT !.state = "torn"]
    BY <1>1, <1>4 DEF OpenMeta
  <2>2. /\ build' = [f \in RFields |-> build'[f]] /\ build'.pc = "metatext"
        /\ build'.n = n /\ build'.models = b.models
    BY <1>1, <1>3, <2>1 DEF RFields
  <2>3. meta'.state = "torn"
    BY <2>1 DEF NoMeta
  <2>4. TableInv'
    BY <1>1, <1>2, <2>3 DEF RegionalInv, TableInv, MetaFollowsTable
  <2>5. \A x \in table'.rows : x.dataset \in DatasetsOf(build'.models)
    BY <1>1, <1>2, <1>3, <2>2
  <2>6. build'.n \in 1 .. started' /\ build'.n \in completed' /\ table'.n = build'.n
    BY <1>2, <1>3, <2>2
  <2>7. build'.models \subseteq Models
    BY <1>3, <2>2
  <2>8. BuildInv'
    BY <2>2, <2>5, <2>6, <2>7 DEF BuildInv, AllOf
  <2> QED
    BY <2>4, <2>8 DEF RegionalInv
<1>5. CASE CloseMeta
  <2>1. meta'.n = n /\ meta'.models = b.models /\ RegionalEnd
    BY <1>1, <1>5 DEF CloseMeta
  <2>2. {x.dataset : x \in table'.rows} \ {"POLDER", "GPCP"} \subseteq b.models
    BY <1>1, <1>2, <1>3 DEF DatasetsOf
  <2>3. MetaFollowsTable'
    BY <1>2, <1>3, <2>1, <2>2 DEF MetaFollowsTable
  <2>4. TableInv'
    BY <1>1, <1>2, <2>3 DEF RegionalInv, TableInv
  <2> QED
    BY <2>1, <2>4, EndInv
<1> QED
  BY <1>4, <1>5

(* What the other builder and get_data.py do. *)
LEMMA Aside ==
    ASSUME RegionalInv, UNCHANGED <<regional, archive>>, started' \in {started, started + 1}
    PROVE  RegionalInv'
<1>1. /\ build' = build /\ table' = table /\ meta' = meta /\ completed' = completed
      /\ archive' = archive
      /\ started \in Nat /\ started' \in Nat /\ started <= started'
      /\ completed \subseteq 1 .. started
  BY DEF regional, RegionalInv, TableInv
<1>2. completed' \subseteq 1 .. started'
  BY <1>1
<1>3. TableInv'
  BY <1>1, <1>2 DEF RegionalInv, TableInv, MetaFollowsTable
<1>4. build.n \in 1 .. started => build.n \in 1 .. started'
  BY <1>1
<1>5. BuildInv'
  BY <1>1, <1>4 DEF RegionalInv, BuildInv, AllOf
<1> QED
  BY <1>3, <1>5 DEF RegionalInv

LEMMA RegionalInvNext ==
    ASSUME RegionalInv, [TablesNext]_tablesVars
    PROVE  RegionalInv'
<1>1. CASE UNCHANGED regional
  BY <1>1, StartedGrows, Aside
<1>2. CASE RegionalNext
  BY <1>2, ReadingInv, EndsInv, OpenInv, CloseInv, MetaInv DEF RegionalNext, RegionalStep
<1> QED
  BY <1>1, <1>2 DEF TablesNext, tablesVars

(* A lifetime the notebooks overlay lies between 0.3 and 50 days and is of *)
(* both species, whatever files were missing, broken or being written when *)
(* its model was loaded (process_one_model, load_aerocom_seasonal).        *)
THEOREM OverlayComplete == TablesSpec => []OverlayIsComplete
<1>1. TablesInit => RegionalInv
  BY RegionalInvInit
<1>2. RegionalInv /\ [TablesNext]_tablesVars => RegionalInv'
  BY RegionalInvNext
<1>3. RegionalInv => OverlayIsComplete
  BY DEF RegionalInv, TableInv, RowOK, LifetimeOK, LifetimeVars, OverlayIsComplete, OverlayLifetimes
<1> QED
  BY <1>1, <1>2, <1>3, PTL DEF TablesSpec

(* However builds fail or are killed, the meta file of the seasonal table  *)
(* is of a table that was finished, and covers its models (L813, L835).    *)
THEOREM MetaFollows == TablesSpec => []MetaFollowsTable
<1>1. TablesInit => RegionalInv
  BY RegionalInvInit
<1>2. RegionalInv /\ [TablesNext]_tablesVars => RegionalInv'
  BY RegionalInvNext
<1>3. RegionalInv => MetaFollowsTable
  BY DEF RegionalInv, TableInv
<1> QED
  BY <1>1, <1>2, <1>3, PTL DEF TablesSpec


-----------------------------------------------------------------------------
(* Types. *)

LEMMA LoadsAreFiles ==
    ASSUME archive \in Archive, NEW m \in Models, NEW g \in Loads(m)
    PROVE  g \in Files
<1>1. PICK now : now = archive[m].files /\ now \in Files
  BY DEF Archive
<1>2. PICK unfinished : g = [v \in Variables |-> IF v \in unfinished THEN "broken" ELSE now[v]]
  BY <1>1 DEF Loads
<1> QED
  BY <1>1, <1>2 DEF Files, Unusable

LEMMA NotLoadedIsFiles == NotLoaded \in Files
BY DEF NotLoaded, Files, Unusable

LEMMA NothingLoaded ==
    /\ [m \in Models |-> NotLoaded] \in [Models -> Files]
    /\ [t \in AllTurns |-> NotLoaded] \in [AllTurns -> Files]
BY NotLoadedIsFiles

LEMMA RequestsAreModels ==
    ASSUME NEW request \in Requests
    PROVE  Asked(request) \subseteq Models /\ Twice(request) \subseteq Asked(request)
<1>1. request \in [Models -> 0 .. 2]
  BY MonthlyFieldsAssumption
<1> QED
  BY <1>1 DEF Asked, Twice

LEMMA DiscoveredAreModels == Discovered \subseteq Models
BY DEF Discovered

LEMMA FieldsTypeInit == ASSUME TablesInit PROVE FieldsTypeOK
<1>1. archive \in Archive /\ rewriting = {} /\ started = 0
  BY MonthlyFieldsAssumption DEF TablesInit, MonthlyInit
<1>2. Cardinality(rewriting) = 0
  BY <1>1, FS_EmptySet
<1> QED
  BY <1>1, <1>2, MonthlyFieldsAssumption DEF FieldsTypeOK

LEMMA FieldsTypeNext ==
    ASSUME FieldsTypeOK, [TablesNext]_tablesVars
    PROVE  FieldsTypeOK'
<1>1. archive' = archive
  BY StartedGrows
<1>2. started' \in 0 .. MaxStarts
  <2>1. started' = started \/ StartOne
    BY DEF TablesNext, tablesVars, monthly, NewBuild, RegionalNext, RegionalStep, StartBuild,
           NoPolder, LoadModel, NoRows, OpenTable, CloseTable, TableFails, OpenMeta, CloseMeta,
           KillBuild, MonthlyNext, StartMonthly, MonthlyStep, KillMonthly, DoTask, LoseWorker,
           NothingAggregated, OpenMonthly, CloseMonthly, MonthlyTableFails, OpenMonthlyMeta,
           CloseMonthlyMeta, BeginRewrite, EndRewrite
  <2> QED
    BY <2>1, MonthlyFieldsAssumption DEF FieldsTypeOK, StartOne
<1>3. rewriting' = rewriting \/ rewriting' = {} \/ \E m \in Models : rewriting' = {m}
  BY DEF TablesNext, tablesVars, monthly, NewBuild, RegionalNext, RegionalStep, StartBuild,
         NoPolder, LoadModel, NoRows, OpenTable, CloseTable, TableFails, OpenMeta, CloseMeta,
         KillBuild, MonthlyNext, StartMonthly, MonthlyStep, KillMonthly, DoTask, LoseWorker,
         NothingAggregated, OpenMonthly, CloseMonthly, MonthlyTableFails, OpenMonthlyMeta,
         CloseMonthlyMeta, BeginRewrite, EndRewrite
<1>4. rewriting' \subseteq Models /\ Cardinality(rewriting') <= 1
  <2>1. CASE rewriting' = rewriting
    BY <2>1 DEF FieldsTypeOK
  <2>2. CASE rewriting' = {}
    BY <2>2, FS_EmptySet
  <2>3. CASE \E m \in Models : rewriting' = {m}
    <3>1. PICK m \in Models : rewriting' = {m}
      BY <2>3
    <3>2. Cardinality(rewriting') = 1
      BY <3>1, FS_Singleton
    <3> QED
      BY <3>1, <3>2
  <2> QED
    BY <1>3, <2>1, <2>2, <2>3
<1> QED
  BY <1>1, <1>2, <1>4 DEF FieldsTypeOK

(* The types of the seasonal build. *)
BuildTypes(b, s) ==
    /\ b = [f \in RFields |-> b[f]]
    /\ b.pc \in {"idle", "load", "table", "meta", "metatext"}
    /\ b.n \in 0 .. s
    /\ b.asked \subseteq Models /\ b.models \subseteq Models \ ExcludeModels
    /\ b.twice \subseteq b.asked
    /\ b.disturbed \subseteq b.models /\ b.todo \subseteq Turns(b.models, b.twice)
    /\ b.got \in [AllTurns -> Files]

FilesTypes ==
    /\ obs \in Observations
    /\ table.state \in {"none", "torn", "whole"} /\ table.n \in 0 .. started
    /\ meta.state \in {"none", "torn", "whole"} /\ meta.n \in 0 .. started
    /\ completed \subseteq 1 .. started

RegionalTypes == FieldsTypeOK /\ BuildTypes(build, started) /\ FilesTypes

LEMMA IdleTypes == ASSUME NEW s \in Nat PROVE BuildTypes(Idle, s)
<1>1. PICK got : got = [t \in AllTurns |-> NotLoaded] /\ got \in [AllTurns -> Files]
  BY NothingLoaded
<1>2. Idle = [pc |-> "idle", n |-> 0, homogenize |-> FALSE, asked |-> {}, twice |-> {},
              models |-> {}, todo |-> {}, got |-> got, rows |-> {}, disturbed |-> {}]
  BY <1>1 DEF Idle
<1>3. PICK b : b = Idle
  OBVIOUS
<1>4. /\ b = [f \in RFields |-> b[f]] /\ b.pc = "idle" /\ b.n = 0 /\ b.asked = {}
      /\ b.twice = {}
      /\ b.models = {} /\ b.todo = {} /\ b.disturbed = {} /\ b.got = got
  BY <1>2, <1>3 DEF RFields
<1>5. BuildTypes(b, s)
  BY <1>1, <1>4 DEF BuildTypes
<1> QED
  BY <1>3, <1>5

LEMMA RegionalTypesInit == ASSUME TablesInit PROVE RegionalTypes
<1>1. /\ build = Idle /\ table = NoTable /\ meta = NoMeta /\ completed = {}
      /\ started = 0 /\ obs \in Observations
  BY DEF TablesInit, RegionalInit, MonthlyInit
<1>2. FieldsTypeOK /\ BuildTypes(build, started)
  BY <1>1, FieldsTypeInit, IdleTypes
<1> QED
  BY <1>1, <1>2 DEF RegionalTypes, FilesTypes, NoTable, NoMeta

(* What the steps that leave the table alone do to the build.              *)
LEMMA StartDoes ==
    ASSUME StartBuild
    PROVE  \E asked, twice, homogenize, models, got :
              /\ asked \in SUBSET Models /\ twice \subseteq asked /\ homogenize \in BOOLEAN
              /\ models = (IF asked = {} THEN Discovered ELSE asked \cap Discovered)
                          \ ExcludeModels
              /\ got = [t \in AllTurns |-> NotLoaded]
              /\ build' = [pc |-> "load", n |-> started', homogenize |-> homogenize,
                           asked |-> asked, twice |-> twice, models |-> models,
                           todo |-> Turns(models, twice), got |-> got,
                           rows |-> {}, disturbed |-> {}]
              /\ UNCHANGED <<obs, table, meta, completed, archive>>
              /\ started' = started + 1
<1> DEFINE Of(asked) == (IF asked = {} THEN Discovered ELSE asked \cap Discovered)
                       \ ExcludeModels
<1>6. PICK request \in Requests, homogenize \in BOOLEAN :
         LET asked  == Asked(request)
             twice  == Twice(request)
             models == Of(asked)
         IN  build' = [Idle EXCEPT !.pc = "load", !.n = started', !.homogenize = homogenize,
                           !.asked = asked, !.twice = twice, !.models = models,
                           !.todo = Turns(models, twice)]
  BY DEF StartBuild
<1>7. PICK asked, twice : asked = Asked(request) /\ twice = Twice(request)
  OBVIOUS
<1>8. PICK models : models = Of(asked)
  OBVIOUS
<1>9. PICK todo : todo = Turns(models, twice)
  OBVIOUS
<1>1. /\ models = (IF asked = {} THEN Discovered ELSE asked \cap Discovered) \ ExcludeModels
      /\ build' = [Idle EXCEPT !.pc = "load", !.n = started', !.homogenize = homogenize,
                          !.asked = asked, !.twice = twice, !.models = models, !.todo = todo]
  BY <1>6, <1>7, <1>8, <1>9
<1>2. PICK got : got = [t \in AllTurns |-> NotLoaded]
  OBVIOUS
<1>3. asked \in SUBSET Models /\ twice \subseteq asked
  BY <1>7, RequestsAreModels
<1>4. build' = [pc |-> "load", n |-> started', homogenize |-> homogenize,
                asked |-> asked, twice |-> twice, models |-> models, todo |-> todo,
                got |-> got, rows |-> {}, disturbed |-> {}]
  BY <1>1, <1>2 DEF Idle
<1>5. UNCHANGED <<obs, table, meta, completed, archive>> /\ started' = started + 1
  BY DEF StartBuild, NewBuild, StartOne
<1> WITNESS asked, twice, homogenize, models, got
<1> QED
  BY <1>1, <1>2, <1>3, <1>4, <1>5, <1>9

(* What loading a model in its turn makes of a build. *)
TurnLoaded(b) ==
    \E t, m, g, got, disturbed :
        /\ t \in AllTurns /\ m = t[1] /\ t \in b.todo /\ g \in Loads(m)
        /\ got = [b.got EXCEPT ![t] = g]
        /\ disturbed = b.disturbed \cup (IF g = archive[m].files THEN {} ELSE {m})
        /\ b.pc = "load"
        /\ build' = [b EXCEPT !.todo = b.todo \ {t}, !.got = got,
                              !.disturbed = disturbed]
        /\ UNCHANGED <<obs, table, meta, completed, monthly>>

LEMMA LoadDoes ==
    ASSUME LoadModel, NEW b, b = build, b = [f \in RFields |-> b[f]]
    PROVE  TurnLoaded(b)
<1>8. PICK t \in AllTurns : IsNext(t) /\ \E g \in Loads(t[1]) :
         build' = [build EXCEPT !.todo = @ \ {t}, !.got[t] = g,
              !.disturbed = @ \cup (IF g = archive[t[1]].files THEN {} ELSE {t[1]})]
  BY DEF LoadModel
<1>9. PICK g \in Loads(t[1]) :
         build' = [build EXCEPT !.todo = @ \ {t}, !.got[t] = g,
              !.disturbed = @ \cup (IF g = archive[t[1]].files THEN {} ELSE {t[1]})]
  BY <1>8
<1>1. /\ t \in AllTurns /\ g \in Loads(t[1])
      /\ IsNext(t)
      /\ build' = [b EXCEPT !.todo = @ \ {t}, !.got[t] = g,
              !.disturbed = @ \cup (IF g = archive[t[1]].files THEN {} ELSE {t[1]})]
  BY <1>8, <1>9
<1>2. PICK m, more : m = t[1] /\ more = IF g = archive[m].files THEN {} ELSE {m}
  OBVIOUS
<1>3. PICK got, disturbed : /\ got = [b.got EXCEPT ![t] = g]
                            /\ disturbed = b.disturbed \cup more
  OBVIOUS
<1>4. build' = [b EXCEPT !.todo = b.todo \ {t}, !.got = got, !.disturbed = disturbed]
  BY <1>1, <1>2, <1>3 DEF RFields
<1>5. t \in b.todo
  BY <1>1 DEF IsNext
<1>6. b.pc = "load" /\ UNCHANGED <<obs, table, meta, completed, monthly>>
  BY DEF LoadModel
<1>7. t \in AllTurns /\ g \in Loads(m)
  BY <1>1, <1>2
<1> SUFFICES \E u, k, h, has, hit :
             /\ u \in AllTurns /\ k = u[1] /\ u \in b.todo /\ h \in Loads(k)
             /\ has = [b.got EXCEPT ![u] = h]
             /\ hit = b.disturbed \cup (IF h = archive[k].files THEN {} ELSE {k})
             /\ b.pc = "load"
             /\ build' = [b EXCEPT !.todo = b.todo \ {u}, !.got = has, !.disturbed = hit]
             /\ UNCHANGED <<obs, table, meta, completed, monthly>>
  BY DEF TurnLoaded
<1> WITNESS t, m, g, got, disturbed
<1> QED
  BY <1>2, <1>3, <1>4, <1>5, <1>6, <1>7

LEMMA ReadingTypes ==
    ASSUME RegionalTypes, FieldsTypeOK', StartBuild \/ LoadModel
    PROVE  RegionalTypes'
<1>1. started \in Nat /\ started' \in Nat /\ archive \in Archive
  BY MonthlyFieldsAssumption DEF RegionalTypes, FieldsTypeOK
<1>2. CASE StartBuild
  <2>1. PICK asked, twice, homogenize, models, got :
              /\ asked \in SUBSET Models /\ twice \subseteq asked /\ homogenize \in BOOLEAN
              /\ models = (IF asked = {} THEN Discovered ELSE asked \cap Discovered)
                          \ ExcludeModels
              /\ got = [t \in AllTurns |-> NotLoaded]
              /\ build' = [pc |-> "load", n |-> started', homogenize |-> homogenize,
                           asked |-> asked, twice |-> twice, models |-> models,
                           todo |-> Turns(models, twice), got |-> got,
                           rows |-> {}, disturbed |-> {}]
              /\ UNCHANGED <<obs, table, meta, completed, archive>>
              /\ started' = started + 1
    BY <1>2, StartDoes
  <2>2. got \in [AllTurns -> Files] /\ models \subseteq Models \ ExcludeModels
    BY <2>1, NothingLoaded, DiscoveredAreModels
  <2>3. PICK s : s = started'
    OBVIOUS
  <2>4. /\ build' = [f \in RFields |-> build'[f]] /\ build'.pc = "load" /\ build'.n = s
        /\ build'.asked = asked /\ build'.twice = twice /\ build'.models = models
        /\ build'.todo = Turns(models, twice)
        /\ build'.disturbed = {} /\ build'.got = got
    BY <2>1, <2>3 DEF RFields
  <2>6. s \in 0 .. s
    BY <1>1, <2>3
  <2>7. BuildTypes(build', s)
    BY <2>1, <2>2, <2>4, <2>6 DEF BuildTypes
  <2>5. FilesTypes'
    BY <1>1, <2>1 DEF RegionalTypes, FilesTypes
  <2> QED
    BY <2>3, <2>5, <2>7 DEF RegionalTypes, BuildTypes
<1>3. CASE LoadModel
  <2>1. PICK b : b = build /\ BuildTypes(b, started)
    BY DEF RegionalTypes
  <2>2. PICK t, m, g, got, disturbed :
              /\ t \in AllTurns /\ m = t[1] /\ t \in b.todo /\ g \in Loads(m)
              /\ got = [b.got EXCEPT ![t] = g]
              /\ disturbed = b.disturbed \cup (IF g = archive[m].files THEN {} ELSE {m})
              /\ b.pc = "load"
              /\ build' = [b EXCEPT !.todo = b.todo \ {t}, !.got = got,
                                    !.disturbed = disturbed]
              /\ UNCHANGED <<obs, table, meta, completed, monthly>>
    <3>1. b = build /\ b = [f \in RFields |-> b[f]]
      BY <2>1 DEF BuildTypes
    <3>2. TurnLoaded(b)
      BY <1>3, <3>1, LoadDoes
    <3> QED
      BY <3>2 DEF TurnLoaded
  <2>3. m \in Models /\ m \in b.models /\ g \in Files
    <3>1. m \in Models
      BY <2>2 DEF AllTurns
    <3>2. m \in b.models
      BY <2>1, <2>2 DEF BuildTypes, Turns
    <3> QED
      BY <1>1, <2>2, <3>1, <3>2, LoadsAreFiles
  <2>4. got \in [AllTurns -> Files] /\ disturbed \subseteq b.models
    BY <2>1, <2>2, <2>3 DEF BuildTypes
  <2>5. /\ build' = [f \in RFields |-> build'[f]] /\ build'.pc = b.pc /\ build'.n = b.n
        /\ build'.asked = b.asked /\ build'.twice = b.twice /\ build'.models = b.models
        /\ build'.todo = b.todo \ {t}
        /\ build'.got = got /\ build'.disturbed = disturbed
    BY <2>1, <2>2 DEF BuildTypes, RFields
  <2>6. started' = started
    BY <2>2 DEF monthly
  <2>7. BuildTypes(build', started)
    BY <2>1, <2>4, <2>5 DEF BuildTypes
  <2>8. FilesTypes'
    BY <2>2, <2>6 DEF RegionalTypes, FilesTypes
  <2> QED
    BY <2>6, <2>7, <2>8 DEF RegionalTypes, BuildTypes
<1> QED
  BY <1>2, <1>3

(* What the steps of a build that is written do. *)
LEMMA WritingTypes ==
    ASSUME RegionalTypes, FieldsTypeOK', BuildInv,
           OpenTable \/ CloseTable \/ OpenMeta
    PROVE  RegionalTypes'
<1>1. PICK b, s : b = build /\ s = started /\ BuildTypes(b, s) /\ s \in Nat
  BY MonthlyFieldsAssumption DEF RegionalTypes, FieldsTypeOK
<1>2. started' = s /\ obs' = obs
  BY <1>1 DEF OpenTable, CloseTable, OpenMeta, monthly
<1>3. PICK got : got = Idle.got /\ got \in [AllTurns -> Files]
  BY NothingLoaded DEF Idle
<1>4. PICK rows : rows = TableRows(build)
  OBVIOUS
<1>5. \/ build' = [b EXCEPT !.pc = "table", !.rows = rows, !.got = got]
      \/ build' = [b EXCEPT !.pc = "meta", !.rows = {}]
      \/ build' = [b EXCEPT !.pc = "metatext"]
  BY <1>1, <1>3, <1>4 DEF OpenTable, CloseTable, OpenMeta
<1>6. /\ build' = [f \in RFields |-> build'[f]] /\ build'.n = b.n
      /\ build'.pc \in {"table", "meta", "metatext"}
      /\ build'.asked = b.asked /\ build'.twice = b.twice /\ build'.models = b.models
      /\ build'.todo = b.todo
      /\ (build'.got = b.got \/ build'.got = got) /\ build'.disturbed = b.disturbed
  BY <1>1, <1>5 DEF BuildTypes, RFields
<1>7. BuildTypes(build', s)
  BY <1>1, <1>3, <1>6 DEF BuildTypes
<1>8. FilesTypes'
  <2>1. CASE OpenTable
    BY <1>1, <1>2, <2>1 DEF OpenTable, RegionalTypes, FilesTypes, NoTable
  <2>2. CASE CloseTable
    <3>1. b.n \in 1 .. s
      BY <1>1, <2>2 DEF BuildInv, CloseTable
    <3>2. PICK n : n = b.n
      OBVIOUS
    <3>3. table'.state = "whole" /\ table'.n = n /\ completed' = completed \cup {n} /\ meta' = meta
      BY <1>1, <2>2, <3>2 DEF CloseTable
    <3>4. n \in 0 .. s /\ completed \cup {n} \subseteq 1 .. s
      <4>1. n \in 1 .. s /\ s \in Nat
        BY <1>1, <3>1, <3>2
      <4>2. completed \subseteq 1 .. s
        BY <1>1 DEF RegionalTypes, FilesTypes
      <4> QED
        BY <4>1, <4>2
    <3>5. /\ obs \in Observations /\ meta.state \in {"none", "torn", "whole"}
          /\ meta.n \in 0 .. s
      BY <1>1 DEF RegionalTypes, FilesTypes
    <3> QED
      BY <1>2, <3>3, <3>4, <3>5 DEF FilesTypes
  <2>3. CASE OpenMeta
    BY <1>1, <1>2, <2>3 DEF OpenMeta, RegionalTypes, FilesTypes, NoMeta
  <2> QED
    BY <2>1, <2>2, <2>3
<1> QED
  BY <1>2, <1>7, <1>8 DEF RegionalTypes, BuildTypes

LEMMA EndTypes ==
    ASSUME RegionalTypes, FieldsTypeOK', BuildInv,
           NoPolder \/ NoRows \/ KillBuild \/ TableFails \/ CloseMeta
    PROVE  RegionalTypes'
<1>1. PICK b, s : b = build /\ s = started /\ s \in Nat
  BY MonthlyFieldsAssumption DEF RegionalTypes, FieldsTypeOK
<1>2. build' = Idle /\ started' = s /\ obs' = obs /\ completed' = completed
  BY <1>1 DEF NoPolder, NoRows, KillBuild, TableFails, CloseMeta, RegionalEnd, monthly
<1>3. BuildTypes(Idle, s)
  BY <1>1, IdleTypes
<1>4. table' \in {table, NoTable}
  BY DEF NoPolder, NoRows, KillBuild, TableFails, CloseMeta
<1>5. meta' = meta \/ (meta'.state = "whole" /\ meta'.n = b.n /\ b.pc = "metatext")
  BY <1>1 DEF NoPolder, NoRows, KillBuild, TableFails, CloseMeta
<1>6. b.n \in 0 .. s /\ completed \subseteq 1 .. s /\ obs \in Observations
  BY <1>1 DEF RegionalTypes, BuildTypes, FilesTypes
<1>7. table'.state \in {"none", "torn", "whole"} /\ table'.n \in 0 .. s
  BY <1>1, <1>4 DEF RegionalTypes, FilesTypes, NoTable
<1>8. meta'.state \in {"none", "torn", "whole"} /\ meta'.n \in 0 .. s
  BY <1>1, <1>5, <1>6 DEF RegionalTypes, FilesTypes
<1>9. FilesTypes'
  BY <1>2, <1>6, <1>7, <1>8 DEF FilesTypes
<1> QED
  BY <1>2, <1>3, <1>9 DEF RegionalTypes, BuildTypes

LEMMA RegionalTypesNext ==
    ASSUME RegionalTypes, BuildInv, [TablesNext]_tablesVars
    PROVE  RegionalTypes'
<1>1. FieldsTypeOK'
  BY FieldsTypeNext DEF RegionalTypes
<1>2. CASE UNCHANGED regional
  <2>1. PICK s, t : s = started /\ t = started' /\ s \in Nat /\ t \in Nat /\ s <= t
    BY StartedGrows, MonthlyFieldsAssumption DEF RegionalTypes, FieldsTypeOK
  <2>2. 0 .. s \subseteq 0 .. t /\ 1 .. s \subseteq 1 .. t
    BY <2>1
  <2>3. /\ build' = build /\ obs' = obs /\ table' = table /\ meta' = meta
        /\ completed' = completed
    BY <1>2 DEF regional
  <2>4. FilesTypes'
    BY <2>1, <2>2, <2>3 DEF RegionalTypes, FilesTypes
  <2>5. BuildTypes(build, t)
    BY <2>1, <2>2 DEF RegionalTypes, BuildTypes
  <2> QED
    BY <1>1, <2>1, <2>3, <2>4, <2>5 DEF RegionalTypes, BuildTypes
<1>3. CASE RegionalNext
  BY <1>1, <1>3, ReadingTypes, WritingTypes, EndTypes DEF RegionalNext, RegionalStep
<1> QED
  BY <1>2, <1>3 DEF TablesNext, tablesVars


(* The types of the monthly build. *)
MBuildTypes(b, s) ==
    /\ b = [f \in MFields |-> b[f]]
    /\ b.pc \in {"idle", "compute", "table", "meta", "metatext"}
    /\ b.n \in 0 .. s /\ b.lost \in 0 .. MaxLost
    /\ b.waiting \subseteq b.models /\ b.disturbed \subseteq b.models
    /\ b.models \subseteq Models \ MonthlyExclude
    /\ b.got \in [Models -> Files]

MFilesTypes ==
    /\ mtable.state \in {"none", "torn", "whole"} /\ mtable.n \in 0 .. started
    /\ mmeta.state \in {"none", "torn", "whole"} /\ mmeta.n \in 0 .. started
    /\ mdone \subseteq 1 .. started

MonthlyTypes == FieldsTypeOK /\ MBuildTypes(mbuild, started) /\ MFilesTypes

LEMMA MIdleTypes == ASSUME NEW s \in Nat PROVE MBuildTypes(MIdle, s)
<1>1. PICK got : got = [m \in Models |-> NotLoaded] /\ got \in [Models -> Files]
  BY NothingLoaded
<1>2. MIdle = [pc |-> "idle", n |-> 0, models |-> {}, waiting |-> {}, lost |-> 0,
               got |-> got, rows |-> {}, disturbed |-> {}]
  BY <1>1 DEF MIdle
<1>3. PICK b : b = MIdle
  OBVIOUS
<1>4. /\ b = [f \in MFields |-> b[f]] /\ b.pc = "idle" /\ b.n = 0 /\ b.lost = 0
      /\ b.models = {} /\ b.waiting = {} /\ b.disturbed = {} /\ b.got = got
  BY <1>2, <1>3 DEF MFields
<1>5. MBuildTypes(b, s)
  BY <1>1, <1>4, MonthlyBuildAssumption DEF MBuildTypes
<1> QED
  BY <1>3, <1>5

LEMMA MonthlyTypesInit == ASSUME TablesInit PROVE MonthlyTypes
<1>1. mbuild = MIdle /\ mtable = NoMTable /\ mmeta = NoMMeta /\ mdone = {} /\ started = 0
  BY DEF TablesInit, MonthlyBuildInit, MonthlyInit
<1>2. FieldsTypeOK /\ MBuildTypes(mbuild, started)
  BY <1>1, FieldsTypeInit, MIdleTypes
<1> QED
  BY <1>1, <1>2 DEF MonthlyTypes, MFilesTypes, NoMTable, NoMMeta

(* The build after a step is one of the right types. *)
LEMMA ComputingTypes ==
    ASSUME MonthlyTypes, FieldsTypeOK', StartMonthly \/ DoTask \/ LoseWorker
    PROVE  MonthlyTypes'
<1>1. PICK s, t : /\ s = started /\ t = started' /\ s \in Nat /\ t \in Nat
                  /\ archive \in Archive /\ MBuildTypes(mbuild, s)
  BY MonthlyFieldsAssumption DEF MonthlyTypes, FieldsTypeOK
<1>2. UNCHANGED <<mtable, mmeta, mdone>>
  BY DEF StartMonthly, DoTask, LoseWorker
<1>3. CASE StartMonthly
  <2>1. PICK request, asked, models :
           /\ asked = Asked(request)
           /\ models = (IF asked = {} THEN Discovered \ MonthlyExclude
                        ELSE asked \cap (Discovered \ MonthlyExclude))
           /\ mbuild' = [MIdle EXCEPT !.pc = "compute", !.n = t, !.models = models,
                                      !.waiting = models]
    BY <1>1, <1>3 DEF StartMonthly
  <2>2. PICK b : b = MIdle /\ MBuildTypes(b, t)
    BY <1>1, MIdleTypes
  <2>3. /\ mbuild' = [f \in MFields |-> mbuild'[f]] /\ mbuild'.pc = "compute"
        /\ mbuild'.n = t /\ mbuild'.models = models /\ mbuild'.waiting = models
        /\ mbuild'.lost = b.lost /\ mbuild'.disturbed = b.disturbed /\ mbuild'.got = b.got
    BY <2>1, <2>2 DEF MBuildTypes, MFields
  <2>4. models \subseteq Models \ MonthlyExclude
    BY <2>1, DiscoveredAreModels
  <2>5. b.disturbed = {}
    BY <2>2 DEF MIdle
  <2>6. t \in 0 .. t
    BY <1>1
  <2>7. MBuildTypes(mbuild', t)
    BY <2>2, <2>3, <2>4, <2>5, <2>6 DEF MBuildTypes
  <2>8. t = s + 1
    BY <1>1, <1>3 DEF StartMonthly, NewBuild, StartOne
  <2>9. 0 .. s \subseteq 0 .. t /\ 1 .. s \subseteq 1 .. t
    BY <1>1, <2>8
  <2>10. MFilesTypes'
    BY <1>1, <1>2, <2>9 DEF MonthlyTypes, MFilesTypes
  <2> QED
    BY <1>1, <2>7, <2>10 DEF MonthlyTypes, MBuildTypes
<1>4. CASE DoTask \/ LoseWorker
  <2>1. PICK b : b = mbuild /\ MBuildTypes(b, s)
    BY <1>1
  <2>2. t = s /\ b.pc = "compute"
    BY <1>1, <1>4, <2>1 DEF DoTask, LoseWorker, monthly
  <2>3. PICK waiting, got, disturbed, lost :
          /\ mbuild' = [b EXCEPT !.waiting = waiting, !.got = got, !.disturbed = disturbed,
                                 !.lost = lost]
          /\ waiting \subseteq b.models /\ disturbed \subseteq b.models
          /\ got \in [Models -> Files] /\ lost \in 0 .. MaxLost
    <3>1. CASE DoTask
      <4>1. PICK m, g :
              /\ m \in b.waiting /\ g \in Loads(m)
              /\ mbuild' = [b EXCEPT !.waiting = @ \ {m}, !.got[m] = g,
                   !.disturbed = IF g = archive[m].files THEN @ \ {m} ELSE @ \cup {m}]
        BY <2>1, <3>1 DEF DoTask
      <4>2. m \in Models /\ m \in b.models
        BY <2>1, <4>1 DEF MBuildTypes
      <4>3. g \in Files
        BY <1>1, <4>1, <4>2, LoadsAreFiles
      <4>4. PICK got, disturbed :
              /\ got = [b.got EXCEPT ![m] = g]
              /\ disturbed = IF g = archive[m].files THEN b.disturbed \ {m}
                             ELSE b.disturbed \cup {m}
        OBVIOUS
      <4>5. got \in [Models -> Files] /\ disturbed \subseteq b.models
        BY <2>1, <4>2, <4>3, <4>4 DEF MBuildTypes
      <4>6. mbuild' = [b EXCEPT !.waiting = b.waiting \ {m}, !.got = got,
                                !.disturbed = disturbed, !.lost = b.lost]
        BY <2>1, <4>1, <4>4 DEF MBuildTypes, MFields
      <4> WITNESS b.waiting \ {m}, got, disturbed, b.lost
      <4> QED
        BY <2>1, <4>5, <4>6 DEF MBuildTypes
    <3>2. CASE LoseWorker
      <4>1. PICK m : /\ m \in b.models \ b.waiting /\ b.lost < MaxLost
                     /\ mbuild' = [b EXCEPT !.waiting = @ \cup {m}, !.got[m] = NotLoaded,
                                            !.lost = @ + 1]
        BY <2>1, <3>2 DEF LoseWorker
      <4>2. PICK got : got = [b.got EXCEPT ![m] = NotLoaded]
        OBVIOUS
      <4>3. NotLoaded \in Files
        BY DEF NotLoaded, Files, Unusable
      <4>4. got \in [Models -> Files]
        BY <2>1, <4>2, <4>3 DEF MBuildTypes
      <4>5. PICK lost : lost = b.lost + 1
        OBVIOUS
      <4>6. lost \in 0 .. MaxLost
        BY <2>1, <4>1, <4>5, MonthlyBuildAssumption DEF MBuildTypes
      <4>7. mbuild' = [b EXCEPT !.waiting = b.waiting \cup {m}, !.got = got,
                                !.disturbed = b.disturbed, !.lost = lost]
        BY <2>1, <4>1, <4>2, <4>5 DEF MBuildTypes, MFields
      <4> WITNESS b.waiting \cup {m}, got, b.disturbed, lost
      <4> QED
        BY <2>1, <4>1, <4>4, <4>6, <4>7 DEF MBuildTypes
    <3> QED
      BY <1>4, <3>1, <3>2
  <2>4. /\ mbuild' = [f \in MFields |-> mbuild'[f]] /\ mbuild'.pc = "compute"
        /\ mbuild'.n = b.n /\ mbuild'.models = b.models /\ mbuild'.waiting = waiting
        /\ mbuild'.lost = lost /\ mbuild'.disturbed = disturbed /\ mbuild'.got = got
    BY <2>1, <2>2, <2>3 DEF MBuildTypes, MFields
  <2>5. MBuildTypes(mbuild', t)
    BY <2>1, <2>2, <2>3, <2>4 DEF MBuildTypes
  <2>6. MFilesTypes'
    BY <1>1, <1>2, <2>2 DEF MonthlyTypes, MFilesTypes
  <2> QED
    BY <1>1, <2>5, <2>6 DEF MonthlyTypes, MBuildTypes
<1> QED
  BY <1>3, <1>4

LEMMA MonthlyWritingTypes ==
    ASSUME MonthlyTypes, FieldsTypeOK', MonthlyBuildInv,
           OpenMonthly \/ CloseMonthly \/ OpenMonthlyMeta
    PROVE  MonthlyTypes'
<1>1. PICK b, s : b = mbuild /\ s = started /\ MBuildTypes(b, s) /\ s \in Nat
  BY MonthlyFieldsAssumption DEF MonthlyTypes, FieldsTypeOK
<1>2. started' = s
  BY <1>1 DEF OpenMonthly, CloseMonthly, OpenMonthlyMeta, monthly
<1>3. PICK got, rows : /\ got = MIdle.got /\ got \in [Models -> Files]
                       /\ rows = MTableRows(mbuild)
  BY NothingLoaded DEF MIdle
<1>4. \/ mbuild' = [b EXCEPT !.pc = "table", !.rows = rows, !.got = got]
      \/ mbuild' = [b EXCEPT !.pc = "meta", !.rows = {}]
      \/ mbuild' = [b EXCEPT !.pc = "metatext"]
  BY <1>1, <1>3 DEF OpenMonthly, CloseMonthly, OpenMonthlyMeta
<1>5. /\ mbuild' = [f \in MFields |-> mbuild'[f]] /\ mbuild'.n = b.n /\ mbuild'.lost = b.lost
      /\ mbuild'.pc \in {"table", "meta", "metatext"}
      /\ mbuild'.models = b.models /\ mbuild'.waiting = b.waiting
      /\ (mbuild'.got = b.got \/ mbuild'.got = got) /\ mbuild'.disturbed = b.disturbed
  BY <1>1, <1>4 DEF MBuildTypes, MFields
<1>6. MBuildTypes(mbuild', s)
  BY <1>1, <1>3, <1>5 DEF MBuildTypes
<1>7. /\ mtable.state \in {"none", "torn", "whole"} /\ mtable.n \in 0 .. s
      /\ mmeta.state \in {"none", "torn", "whole"} /\ mmeta.n \in 0 .. s
      /\ mdone \subseteq 1 .. s
  BY <1>1 DEF MonthlyTypes, MFilesTypes
<1>8. MFilesTypes'
  <2>1. CASE OpenMonthly
    BY <1>1, <1>2, <1>7, <2>1 DEF OpenMonthly, MFilesTypes, NoMTable
  <2>2. CASE CloseMonthly
    <3>1. PICK n : n = b.n /\ n \in 1 .. s
      BY <1>1, <2>2 DEF MonthlyBuildInv, CloseMonthly
    <3>2. /\ mtable'.state = "whole" /\ mtable'.n = n /\ mdone' = mdone \cup {n}
          /\ mmeta' = mmeta
      BY <1>1, <2>2, <3>1 DEF CloseMonthly
    <3>3. n \in 0 .. s /\ mdone \cup {n} \subseteq 1 .. s
      <4>1. n \in 1 .. s /\ s \in Nat
        BY <1>1, <3>1
      <4> QED
        BY <1>7, <4>1
    <3> QED
      BY <1>2, <1>7, <3>2, <3>3 DEF MFilesTypes
  <2>3. CASE OpenMonthlyMeta
    BY <1>1, <1>2, <1>7, <2>3 DEF OpenMonthlyMeta, MFilesTypes, NoMMeta
  <2> QED
    BY <2>1, <2>2, <2>3
<1> QED
  BY <1>2, <1>6, <1>8 DEF MonthlyTypes, MBuildTypes

LEMMA MonthlyEndTypes ==
    ASSUME MonthlyTypes, FieldsTypeOK',
           NothingAggregated \/ KillMonthly \/ MonthlyTableFails \/ CloseMonthlyMeta
    PROVE  MonthlyTypes'
<1>1. PICK b, s : b = mbuild /\ s = started /\ s \in Nat
  BY MonthlyFieldsAssumption DEF MonthlyTypes, FieldsTypeOK
<1>2. mbuild' = MIdle /\ started' = s /\ mdone' = mdone
  BY <1>1 DEF NothingAggregated, KillMonthly, MonthlyTableFails, CloseMonthlyMeta, MonthlyEnd,
              monthly
<1>3. MBuildTypes(MIdle, s)
  BY <1>1, MIdleTypes
<1>4. mtable' \in {mtable, NoMTable}
  BY DEF NothingAggregated, KillMonthly, MonthlyTableFails, CloseMonthlyMeta
<1>5. mmeta' = mmeta \/ (mmeta'.state = "whole" /\ mmeta'.n = b.n)
  BY <1>1 DEF NothingAggregated, KillMonthly, MonthlyTableFails, CloseMonthlyMeta
<1>6. b.n \in 0 .. s /\ mdone \subseteq 1 .. s
  BY <1>1 DEF MonthlyTypes, MBuildTypes, MFilesTypes
<1>7. mtable'.state \in {"none", "torn", "whole"} /\ mtable'.n \in 0 .. s
  BY <1>1, <1>4 DEF MonthlyTypes, MFilesTypes, NoMTable
<1>8. mmeta'.state \in {"none", "torn", "whole"} /\ mmeta'.n \in 0 .. s
  BY <1>1, <1>5, <1>6 DEF MonthlyTypes, MFilesTypes
<1>9. MFilesTypes'
  BY <1>2, <1>6, <1>7, <1>8 DEF MFilesTypes
<1> QED
  BY <1>2, <1>3, <1>9 DEF MonthlyTypes, MBuildTypes

LEMMA MonthlyTypesNext ==
    ASSUME MonthlyTypes, MonthlyBuildInv, [TablesNext]_tablesVars
    PROVE  MonthlyTypes'
<1>1. FieldsTypeOK'
  BY FieldsTypeNext DEF MonthlyTypes
<1>2. CASE UNCHANGED monthlyBuild
  <2>1. PICK s, t : s = started /\ t = started' /\ s \in Nat /\ t \in Nat /\ s <= t
    BY StartedGrows, MonthlyFieldsAssumption DEF MonthlyTypes, FieldsTypeOK
  <2>2. 0 .. s \subseteq 0 .. t /\ 1 .. s \subseteq 1 .. t
    BY <2>1
  <2>3. mbuild' = mbuild /\ mtable' = mtable /\ mmeta' = mmeta /\ mdone' = mdone
    BY <1>2 DEF monthlyBuild
  <2>4. MFilesTypes'
    BY <2>1, <2>2, <2>3 DEF MonthlyTypes, MFilesTypes
  <2>5. MBuildTypes(mbuild, t)
    BY <2>1, <2>2 DEF MonthlyTypes, MBuildTypes
  <2> QED
    BY <1>1, <2>1, <2>3, <2>4, <2>5 DEF MonthlyTypes, MBuildTypes
<1>3. CASE MonthlyNext
  BY <1>1, <1>3, ComputingTypes, MonthlyWritingTypes, MonthlyEndTypes
     DEF MonthlyNext, MonthlyStep
<1> QED
  BY <1>2, <1>3 DEF TablesNext, tablesVars

(* The values the two builders' state and files may take, in particular    *)
(* that a build never works on an excluded model and that a table's and a  *)
(* meta file's number is of a build that was begun.                        *)
TablesTypeInv == RegionalInv /\ MonthlyInv /\ RegionalTypes /\ MonthlyTypes

LEMMA TablesTypeInvInit == TablesInit => TablesTypeInv
BY RegionalInvInit, MonthlyInvInit, RegionalTypesInit, MonthlyTypesInit DEF TablesTypeInv

LEMMA TablesTypeInvNext == TablesTypeInv /\ [TablesNext]_tablesVars => TablesTypeInv'
BY RegionalInvNext, MonthlyInvNext, RegionalTypesNext, MonthlyTypesNext
   DEF TablesTypeInv, RegionalInv, MonthlyInv

(* Build state, tables and meta files of both builders have their types;   *)
(* no build works on a model its exclusion list names (--models included). *)
THEOREM TablesTypeCorrect == TablesSpec => []TablesTypeOK
<1>1. TablesTypeInv => TablesTypeOK
  BY DEF TablesTypeInv, RegionalTypes, MonthlyTypes, BuildTypes, FilesTypes, MBuildTypes,
         MFilesTypes, TablesTypeOK, RegionalTypeOK, MonthlyTypeOK
<1> QED
  BY <1>1, TablesTypeInvInit, TablesTypeInvNext, PTL DEF TablesSpec


-----------------------------------------------------------------------------
(* Which rows a model's files give. *)

IsGood(files, v) == files[v] \in Usable \ {"offyear"}

IsRow(x, r, m, v) == x.region = r /\ x.dataset = m /\ x.var = v

(* The rows a model's files and fluxes give in one region. *)
SeasonRows(m, r, files, dep, rows) ==
    /\ \A v \in {"od550aer", "abs550aer", "loadbc"} :
          IsGood(files, v) => \E x \in rows : IsRow(x, r, m, v)
    /\ (\A v \in {"loadbc", "loadoa", "depbc", "depoa"} : IsGood(files, v)) /\ dep # "zero"
          => \E x \in rows : IsRow(x, r, m, "lifetime_BC_OA")

LEMMA OneModelsRows ==
    ASSUME NEW b, NEW r \in Regions, NEW t \in b.models \X {1, 2}
    PROVE  ProcessOneModel(t[1], r, b.got[t], b.homogenize) \subseteq TableRows(b)
BY DEF TableRows

(* A variable's field is the variable. *)
LEMMA FieldOfVariable ==
    ASSUME NEW g, NEW v \in Variables
    PROVE  v \in DOMAIN RegionalField(g) /\ RegionalField(g)[v] = {v} \cap Have(g)
<1> DEFINE raw == [w \in Variables |-> {w} \cap Have(g)]
           combined == Combined(g)
           derived == Derived(g)
<1>1. RegionalField(g) = Also(Also(raw, combined), derived)
  BY DEF RegionalField
<1>2. v \in DOMAIN raw /\ raw[v] = {v} \cap Have(g)
  OBVIOUS
<1> HIDE DEF raw, combined, derived
<1>3. v \in DOMAIN Also(raw, combined) /\ Also(raw, combined)[v] = raw[v]
  BY <1>2 DEF Also
<1>4. v \in DOMAIN RegionalField(g) /\ RegionalField(g)[v] = Also(raw, combined)[v]
  BY <1>1, <1>3 DEF Also
<1> QED
  BY <1>2, <1>3, <1>4

LEMMA FieldOfAlbedo == ASSUME NEW g PROVE "SSA" \in DOMAIN RegionalField(g)
<1> DEFINE raw == [w \in Variables |-> {w} \cap Have(g)]
           combined == Combined(g)
           derived == Derived(g)
<1>1. RegionalField(g) = Also(Also(raw, combined), derived)
  BY DEF RegionalField
<1>2. "SSA" \in DOMAIN derived
  BY DEF Derived
<1> HIDE DEF raw, combined, derived
<1> QED
  BY <1>1, <1>2 DEF Also

MeanRow(m, r, g, field, v) ==
    Row(r, m, v, IF v \in Variables THEN "aggregated" ELSE "derived", field[v],
        Mean(g, field[v]))

LEMMA MeanRowThere ==
    ASSUME NEW m, NEW r, NEW g, NEW field, field = RegionalField(g),
           NEW v \in DOMAIN field, HasMean(g, field[v])
    PROVE  /\ MeanRow(m, r, g, field, v) \in MeanRows(m, r, g)
           /\ IsRow(MeanRow(m, r, g, field, v), r, m, v)
<1>1. MeanRow(m, r, g, field, v) \in MeanRows(m, r, g)
  BY DEF MeanRow, MeanRows
<1>2. IsRow(MeanRow(m, r, g, field, v), r, m, v)
  BY DEF MeanRow, Row, IsRow
<1> QED
  BY <1>1, <1>2

LEMMA GoodHasMean ==
    ASSUME NEW g, NEW v \in Variables, IsGood(g, v)
    PROVE  v \in Have(g) /\ HasMean(g, {v} \cap Have(g))
<1>1. v \in Have(g)
  BY DEF IsGood, Have
<1>2. {v} \cap Have(g) = {v}
  BY <1>1
<1>3. HasMean(g, {v})
  BY DEF HasMean, IsGood
<1> QED
  BY <1>1, <1>2, <1>3

LEMMA SumHasMean ==
    ASSUME NEW g, NEW keys \in SUBSET Variables, keys # {}, \A v \in keys : IsGood(g, v)
    PROVE  SumDatasets(g, keys, TRUE) = keys /\ HasMean(g, keys)
<1>1. keys \subseteq Have(g)
  BY DEF IsGood, Have
<1> QED
  BY <1>1 DEF SumDatasets, HasMean, IsGood

LEMMA LifetimeRowThere ==
    ASSUME NEW m, NEW r, NEW g, archive[m].dep # "zero",
           \A v \in {"loadbc", "loadoa", "depbc", "depoa"} : IsGood(g, v)
    PROVE  \E x \in LifetimeRows(m, r, g) : IsRow(x, r, m, "lifetime_BC_OA")
<1> DEFINE field == Combined(g)
           load == field.load_BC_OA
           dep == archive[m].dep
           x == Row(r, m, "lifetime_BC_OA", "derived", load \cup field.dep_BC_OA,
                    LifetimeDays(dep))
<1>1. /\ load = SumDatasets(g, {"loadbc", "loadoa"}, TRUE)
      /\ field.dep_BC_OA = SumDatasets(g, {"depbc", "depoa"}, TRUE)
  BY DEF Combined
<1>2. PICK loads, deps : /\ loads = {"loadbc", "loadoa"} /\ deps = {"depbc", "depoa"}
                         /\ loads \in SUBSET Variables /\ deps \in SUBSET Variables
                         /\ loads # {} /\ deps # {}
  <2>1. /\ {"loadbc", "loadoa"} \in SUBSET Variables
        /\ {"depbc", "depoa"} \in SUBSET Variables
    BY RegionalBuildAssumption
  <2> WITNESS {"loadbc", "loadoa"}, {"depbc", "depoa"}
  <2> QED
    BY <2>1
<1>3. (\A v \in loads : IsGood(g, v)) /\ (\A v \in deps : IsGood(g, v))
  BY <1>2
<1>4. HasMean(g, load) /\ HasMean(g, field.dep_BC_OA)
  BY <1>1, <1>2, <1>3, SumHasMean
<1>5. x \in LifetimeRows(m, r, g)
  BY <1>4 DEF LifetimeRows
<1>6. IsRow(x, r, m, "lifetime_BC_OA")
  BY DEF Row, IsRow
<1> QED
  BY <1>5, <1>6

(* What was loaded stands in the rows. *)
LEMMA ModelGivesItsRows ==
    ASSUME NEW b, NEW m \in b.models, NEW r \in Regions, NEW g, g = b.got[<<m, 1>>]
    PROVE  SeasonRows(m, r, g, archive[m].dep, TableRows(b))
<1>1. PICK rows : rows = TableRows(b) /\ ProcessOneModel(m, r, g, b.homogenize) \subseteq rows
  <2>1. PICK t : t = <<m, 1>> /\ t \in b.models \X {1, 2} /\ t[1] = m
    OBVIOUS
  <2> QED
    BY <2>1, OneModelsRows
<1>2. {"od550aer", "abs550aer", "loadbc", "loadoa", "depbc", "depoa"} \subseteq Variables
  BY MonthlyFieldsAssumption, RegionalBuildAssumption
<1>3. ASSUME NEW v \in {"od550aer", "abs550aer", "loadbc"}, IsGood(g, v)
      PROVE  TemplateVars \cap Have(g) # {}
  BY <1>2, <1>3 DEF TemplateVars, IsGood, Have
<1>4. ASSUME TemplateVars \cap Have(g) # {}
      PROVE  MeanRows(m, r, g) \cup LifetimeRows(m, r, g) \subseteq rows
  BY <1>1, <1>4 DEF ProcessOneModel
<1>5. ASSUME NEW v \in {"od550aer", "abs550aer", "loadbc"}, IsGood(g, v)
      PROVE  \E x \in rows : IsRow(x, r, m, v)
  <2>1. PICK field : field = RegionalField(g)
    OBVIOUS
  <2>2. v \in Variables
    BY <1>2
  <2>3. v \in DOMAIN field /\ HasMean(g, field[v])
    BY <1>5, <2>1, <2>2, FieldOfVariable, GoodHasMean
  <2>4. PICK x : x = MeanRow(m, r, g, field, v) /\ x \in MeanRows(m, r, g) /\ IsRow(x, r, m, v)
    BY <2>1, <2>3, MeanRowThere
  <2> QED
    BY <1>3, <1>4, <1>5, <2>4
<1>6. ASSUME \A v \in {"loadbc", "loadoa", "depbc", "depoa"} : IsGood(g, v),
             archive[m].dep # "zero"
      PROVE  \E x \in rows : IsRow(x, r, m, "lifetime_BC_OA")
  <2>1. IsGood(g, "loadbc")
    BY <1>6
  <2>2. LifetimeRows(m, r, g) \subseteq rows
    BY <1>3, <1>4, <2>1
  <2> QED
    BY <1>6, <2>2, LifetimeRowThere
<1> QED
  BY <1>1, <1>5, <1>6 DEF SeasonRows

ItsModels(asked) ==
    (IF asked = {} THEN Discovered ELSE asked \cap Discovered) \ ExcludeModels

(* What the rows of a build that was asked for these models must hold.     *)
Promise(asked, disturbed, rows) ==
    \A m \in (IF asked = {} THEN Models ELSE asked) \ (ExcludeModels \cup disturbed),
       r \in Regions : SeasonRows(m, r, archive[m].files, archive[m].dep, rows)

LEMMA GoodIsDiscovered ==
    ASSUME archive \in Archive, NEW m \in Models,
           \E v \in {"od550aer", "abs550aer", "loadbc"} : IsGood(archive[m].files, v)
    PROVE  m \in Discovered
<1>1. PICK v \in {"od550aer", "abs550aer", "loadbc"} : IsGood(archive[m].files, v)
  OBVIOUS
<1>2. v \in Variables
  BY MonthlyFieldsAssumption, RegionalBuildAssumption
<1>3. archive[m].files[v] # "absent"
  BY <1>1 DEF IsGood, Usable
<1> QED
  BY <1>1, <1>2, <1>3 DEF Discovered

LEMMA RowsKeepThePromise ==
    ASSUME archive \in Archive, NEW b, b.asked \subseteq Models,
           b.models = ItsModels(b.asked),
           \A m \in b.models \ b.disturbed : b.got[<<m, 1>>] = archive[m].files
    PROVE  Promise(b.asked, b.disturbed, TableRows(b))
<1> SUFFICES ASSUME NEW m \in (IF b.asked = {} THEN Models ELSE b.asked)
                              \ (ExcludeModels \cup b.disturbed),
                    NEW r \in Regions
             PROVE  SeasonRows(m, r, archive[m].files, archive[m].dep, TableRows(b))
  BY DEF Promise
<1>1. m \in Models
  OBVIOUS
<1>2. CASE m \in Discovered
  <2>1. m \in b.models
    BY <1>2 DEF ItsModels
  <2>2. PICK g : g = b.got[<<m, 1>>] /\ g = archive[m].files
    BY <2>1
  <2> QED
    BY <2>1, <2>2, ModelGivesItsRows
<1>3. CASE m \notin Discovered
  <2>1. PICK f, d, rows : f = archive[m].files /\ d = archive[m].dep /\ rows = TableRows(b)
    OBVIOUS
  <2>2. \A v \in {"od550aer", "abs550aer", "loadbc"} : ~ IsGood(f, v)
    BY <1>1, <1>3, <2>1, GoodIsDiscovered
  <2> QED
    BY <2>1, <2>2 DEF SeasonRows
<1> QED
  BY <1>2, <1>3


-----------------------------------------------------------------------------
(* Which models a fit is made of. *)

SourceOf(v) == IF v = "SSA" THEN "derived" ELSE "aggregated"

(* A row of a model for a sampled variable: of its mean or of its sample.  *)
IsModels(x, r, m, v, s) == IsRow(x, r, m, v) /\ x.source = s

LEMMA SampledIsField ==
    ASSUME NEW g, NEW v \in SampledVars
    PROVE  v \in DOMAIN RegionalField(g)
BY FieldOfVariable, FieldOfAlbedo, RegionalBuildAssumption DEF SampledVars

LEMMA SourceOfMean ==
    ASSUME NEW v \in SampledVars
    PROVE  SourceOf(v) = IF v \in Variables THEN "aggregated" ELSE "derived"
BY RegionalBuildAssumption DEF SampledVars, SourceOf

(* Only a mean or a sample of the model itself is such a row.              *)
LEMMA ModelsRowComesFrom ==
    ASSUME NEW b, b.models \subseteq Models, archive \in Archive, NEW r \in Regions,
           NEW m \in Models, NEW v \in SampledVars, NEW s, NEW x \in TableRows(b),
           IsModels(x, r, m, v, s)
    PROVE  \E t \in b.models \X {1, 2} :
              /\ t[1] = m /\ TemplateVars \cap Have(b.got[t]) # {}
              /\ s = "sampled" \/ HasMean(b.got[t], RegionalField(b.got[t])[v])
              /\ s = "sampled" => HasSample(b.got[t], r, RegionalField(b.got[t])[v])
<1>1. PICK q \in Regions :
         x \in ObservedRows(b, q)
              \cup UNION {ProcessOneModel(t[1], q, b.got[t], b.homogenize) :
                              t \in b.models \X {1, 2}}
  BY DEF TableRows
<1>2. x.region = r /\ x.dataset = m /\ x.var = v /\ x.source = s
  BY DEF IsModels, IsRow
<1>3. x \notin ObservedRows(b, q)
  BY <1>2, ObservedRowOK, RegionalBuildAssumption
<1>12. PICK t \in b.models \X {1, 2} : x \in ProcessOneModel(t[1], q, b.got[t], b.homogenize)
  BY <1>1, <1>3
<1>5. PICK g, k : g = b.got[t] /\ k = t[1]
  OBVIOUS
<1>4. x \in ProcessOneModel(k, q, b.got[t], b.homogenize)
  BY <1>5, <1>12
<1> SUFFICES /\ k = m
             /\ s = "sampled" \/ HasMean(g, RegionalField(g)[v])
             /\ s = "sampled" => HasSample(g, r, RegionalField(g)[v])
  <2>1. TemplateVars \cap Have(g) # {}
    BY <1>4, <1>5 DEF ProcessOneModel
  <2> QED
    BY <1>4, <1>5, <2>1
<1>6. /\ TemplateVars \cap Have(g) # {}
      /\ x \in MeanRows(k, q, g) \/ x \in LifetimeRows(k, q, g) \/ x \in SampleRows(k, q, g)
  BY <1>4, <1>5 DEF ProcessOneModel
<1>7. PICK field : field = RegionalField(g)
  OBVIOUS
<1>8. CASE x \in MeanRows(k, q, g)
  <2>1. PICK w \in DOMAIN field :
           /\ HasMean(g, field[w])
           /\ x = Row(q, k, w, IF w \in Variables THEN "aggregated" ELSE "derived",
                      field[w], Mean(g, field[w]))
    BY <1>7, <1>8 DEF MeanRows
  <2>2. x.var = w /\ x.dataset = k /\ x.source # "sampled"
    BY <2>1 DEF Row
  <2>3. w = v /\ k = m /\ s # "sampled"
    BY <1>2, <2>2
  <2> QED
    BY <1>5, <1>6, <1>7, <2>1, <2>3
<1>9. CASE x \in LifetimeRows(k, q, g)
  <2>1. x.var \in {"lifetime_BC_OA_raw", "lifetime_BC_OA", "lifetime_BC_OA_emission"}
    <3>1. PICK f, d, e :
             x \in {Row(q, k, "lifetime_BC_OA_raw", "derived", f, archive[k].dep),
                    Row(q, k, "lifetime_BC_OA", "derived", f, LifetimeDays(archive[k].dep)),
                    Row(q, k, "lifetime_BC_OA_emission", "derived", e, archive[k].emi)}
      BY <1>9 DEF LifetimeRows
    <3> QED
      BY <3>1 DEF Row
  <2> QED
    BY <1>2, <2>1 DEF SampledVars
<1>10. CASE x \in SampleRows(k, q, g)
  <2>1. PICK w \in DOMAIN field :
           HasSample(g, q, field[w]) /\ x = Row(q, k, w, "sampled", field[w], "sample")
    BY <1>7, <1>10 DEF SampleRows
  <2>2. x.var = w /\ x.dataset = k /\ x.source = "sampled" /\ x.region = q
    BY <2>1 DEF Row
  <2>3. w = v /\ k = m /\ s = "sampled" /\ q = r
    BY <1>2, <2>2
  <2> QED
    BY <1>5, <1>6, <1>7, <2>1, <2>3
<1> QED
  BY <1>6, <1>8, <1>9, <1>10

(* Both a mean and a sample of it make a model one of the pairs, and are   *)
(* rows of a table with homogenized observations.                          *)
LEMMA PairsAreTheRows ==
    ASSUME NEW b, b.models \subseteq Models, archive \in Archive, b.homogenize,
           NEW r \in Regions, NEW v \in SampledVars
    PROVE  {t[1] : t \in Pairs(b, r, v)} =
              {m \in Models : \A s \in {"sampled", SourceOf(v)} :
                                 \E y \in TableRows(b) : IsModels(y, r, m, v, s)}
<1>1. ASSUME NEW t \in Pairs(b, r, v), NEW m, m = t[1], NEW s \in {"sampled", SourceOf(v)}
      PROVE  \E y \in TableRows(b) : IsModels(y, r, m, v, s)
  <2>1. PICK g, field : g = b.got[t] /\ field = RegionalField(g)
    OBVIOUS
  <2>2. /\ t \in b.models \X {1, 2} /\ TemplateVars \cap Have(g) # {}
        /\ HasMean(g, field[v]) /\ HasSample(g, r, field[v])
    BY <2>1 DEF Pairs
  <2>3. v \in DOMAIN field
    BY <2>1, SampledIsField
  <2>4. MeanRows(m, r, g) \cup SampleRows(m, r, g) \subseteq TableRows(b)
    BY <1>1, <2>1, <2>2, OneModelsRows DEF ProcessOneModel
  <2>5. CASE s = "sampled"
    <3>1. PICK y : y = Row(r, m, v, "sampled", field[v], "sample")
      OBVIOUS
    <3>2. y \in SampleRows(m, r, g)
      BY <2>1, <2>2, <2>3, <3>1 DEF SampleRows
    <3>3. IsModels(y, r, m, v, s)
      BY <2>5, <3>1 DEF Row, IsModels, IsRow
    <3> QED
      BY <2>4, <3>2, <3>3
  <2>6. CASE s = SourceOf(v)
    <3>1. PICK y : /\ y = MeanRow(m, r, g, field, v) /\ y \in MeanRows(m, r, g)
                   /\ IsRow(y, r, m, v)
      BY <2>1, <2>2, <2>3, MeanRowThere
    <3>2. y.source = s
      BY <2>6, <3>1, SourceOfMean DEF MeanRow, Row
    <3> QED
      BY <2>4, <3>1, <3>2 DEF IsModels
  <2> QED
    BY <2>5, <2>6
<1>2. ASSUME NEW m \in Models,
             \A s \in {"sampled", SourceOf(v)} :
                \E y \in TableRows(b) : IsModels(y, r, m, v, s)
      PROVE  \E t \in Pairs(b, r, v) : t[1] = m
  <2>1. PICK s : s = SourceOf(v) /\ s # "sampled"
    BY DEF SourceOf
  <2>2. PICK x \in TableRows(b) : IsModels(x, r, m, v, "sampled")
    BY <1>2
  <2>3. PICK t \in b.models \X {1, 2} :
           /\ t[1] = m /\ TemplateVars \cap Have(b.got[t]) # {}
           /\ HasSample(b.got[t], r, RegionalField(b.got[t])[v])
    BY <2>2, ModelsRowComesFrom
  <2>4. PICK g, f : g = b.got[t] /\ f = RegionalField(g)[v]
    OBVIOUS
  <2>5. HasSample(g, r, f) /\ HasMean(g, f)
    BY <2>3, <2>4 DEF HasSample, HasMean
  <2> QED
    BY <2>3, <2>4, <2>5 DEF Pairs
<1>3. \A t \in Pairs(b, r, v) : t[1] \in Models
  BY DEF Pairs
<1> QED
  BY <1>1, <1>2, <1>3

(* A fitted row is the observation of the source region it is of. *)
LEMMA FitComesFrom ==
    ASSUME NEW b, b.models \subseteq Models, archive \in Archive, NEW r \in Regions,
           NEW v \in SampledVars, NEW x \in TableRows(b),
           x.region = r, x.var = ObsVar(v), x.value = "fit"
    PROVE  /\ b.homogenize /\ r \in SourceRegions
           /\ x.from = {t[1] : t \in Pairs(b, r, v)}
           /\ Cardinality(Pairs(b, r, v)) >= 3
<1>1. PICK q \in Regions :
         x \in ObservedRows(b, q)
              \cup UNION {ProcessOneModel(t[1], q, b.got[t], b.homogenize) :
                              t \in b.models \X {1, 2}}
  BY DEF TableRows
<1>2. CASE x \in UNION {ProcessOneModel(t[1], q, b.got[t], b.homogenize) :
                            t \in b.models \X {1, 2}}
  <2>1. PICK k \in b.models, t \in b.models \X {1, 2} :
           k = t[1] /\ x \in ProcessOneModel(k, q, b.got[t], b.homogenize)
    BY <1>2
  <2>2. PICK g : g = b.got[t]
    OBVIOUS
  <2>3. x \in MeanRows(k, q, g) \/ x \in LifetimeRows(k, q, g) \/ x \in SampleRows(k, q, g)
    BY <2>1, <2>2 DEF ProcessOneModel
  <2>4. CASE x \in MeanRows(k, q, g)
    <3>1. PICK w, s, f, a : x = Row(q, k, w, s, f, a) /\ a = Mean(g, f)
      BY <2>4 DEF MeanRows
    <3> QED
      BY <3>1 DEF Row, Mean
  <2>5. CASE x \in LifetimeRows(k, q, g)
    <3>1. PICK w, f, a :
             /\ x = Row(q, k, w, "derived", f, a)
             /\ a \in {archive[k].dep, LifetimeDays(archive[k].dep), archive[k].emi}
      BY <2>5 DEF LifetimeRows
    <3>2. archive[k].dep \in Lifetimes /\ archive[k].emi \in Lifetimes
      BY <2>1 DEF Archive
    <3> QED
      BY <3>1, <3>2 DEF Row, Lifetimes, LifetimeDays
  <2>6. CASE x \in SampleRows(k, q, g)
    <3>1. PICK w, f : x = Row(q, k, w, "sampled", f, "sample")
      BY <2>6 DEF SampleRows
    <3> QED
      BY <3>1 DEF Row
  <2> QED
    BY <2>3, <2>4, <2>5, <2>6
<1>3. CASE x \in ObservedRows(b, q)
  <2>1. CASE \E w \in {"AAOD_550", "AOD_550", "SSA", "AE"} :
                x = Row(q, "POLDER", w, "sampled", {}, "sample")
    BY <2>1 DEF Row
  <2>2. CASE x = Row(q, "GPCP", "precip", "aggregated", {}, "mean")
    BY <2>2 DEF Row
  <2>3. CASE b.homogenize /\ \E w \in SampledVars : x = Homogenized(b, q, w)
    <3>1. PICK w \in SampledVars : x = Homogenized(b, q, w)
      BY <2>3
    <3>2. PICK p, from : p = Pairs(b, q, w) /\ from = {t[1] : t \in p}
      OBVIOUS
    <3>3. x = IF q \in SourceRegions /\ Cardinality(p) >= 3
              THEN Row(q, "POLDER", ObsVar(w), "homogenized", from, "fit")
              ELSE Row(q, "POLDER", ObsVar(w), "homogenized", {}, "copy")
      BY <3>1, <3>2 DEF Homogenized
    <3>4. /\ q \in SourceRegions /\ Cardinality(p) >= 3
          /\ x = Row(q, "POLDER", ObsVar(w), "homogenized", from, "fit")
      BY <3>3 DEF Row
    <3>5. x.region = q /\ x.var = ObsVar(w) /\ x.from = from
      BY <3>4 DEF Row
    <3>6. q = r /\ w = v
      BY <3>5 DEF ObsVar, SampledVars
    <3> QED
      BY <2>3, <3>2, <3>4, <3>5, <3>6
  <2> QED
    BY <1>3, <2>1, <2>2, <2>3 DEF ObservedRows
<1> QED
  BY <1>1, <1>2, <1>3

(* What FitIsInTheTable asks of a table's rows. *)
RowsFit(rows, twice) ==
    \A r \in Regions, v \in SampledVars :
        \A x \in ObservationUsed(rows, r, ObsVar(v)) : x.value = "fit" =>
            /\ r \in SourceRegions
            /\ Cardinality(x.from) + Cardinality(x.from \cap twice) >= 3
            /\ x.from = {m \in Models : \A s \in {"sampled", SourceOf(v)} :
                                           \E y \in rows : IsModels(y, r, m, v, s)}

LEMMA ModelsAreFinite == IsFiniteSet(Models)
<1>1. ModelOrder \in Seq(Models)
  BY MonthlyFieldsAssumption
<1>2. DOMAIN ModelOrder = 1 .. Len(ModelOrder) /\ Len(ModelOrder) \in Nat
  BY <1>1
<1>3. IsFiniteSet(DOMAIN ModelOrder)
  BY <1>2, FS_Interval
<1>4. ModelOrder \in Surjection(DOMAIN ModelOrder, Models)
  BY <1>1 DEF Models, Range, Surjection
<1> QED
  BY <1>3, <1>4, FS_Surjection

(* Turns are no more than their models, and those of them taken twice once *)
(* more.                                                                   *)
LEMMA TurnsCount ==
    ASSUME NEW p, NEW from \in SUBSET Models, NEW twice,
           p \subseteq Turns(from, twice)
    PROVE  /\ Cardinality(p) \in Nat
           /\ Cardinality(from) \in Nat /\ Cardinality(from \cap twice) \in Nat
           /\ Cardinality(p) <= Cardinality(from) + Cardinality(from \cap twice)
<1> DEFINE first == from \X {1}
           second == (from \cap twice) \X {2}
<1>1. IsFiniteSet(from) /\ IsFiniteSet(from \cap twice)
  BY ModelsAreFinite, FS_Subset
<1>2. /\ IsFiniteSet({1}) /\ Cardinality({1}) = 1
      /\ IsFiniteSet({2}) /\ Cardinality({2}) = 1
  BY FS_Singleton
<1>3. PICK n, k \in Nat : n \in Nat /\ n = Cardinality(from) /\ k = Cardinality(from \cap twice)
  BY <1>1, FS_CardinalityType
<1>4. IsFiniteSet(first) /\ Cardinality(first) = n
  BY <1>1, <1>2, <1>3, FS_Product
<1>5. IsFiniteSet(second) /\ Cardinality(second) = k
  BY <1>1, <1>2, <1>3, FS_Product
<1>6. first \cap second = {}
  OBVIOUS
<1>7. Turns(from, twice) = first \cup second
  BY DEF Turns
<1> HIDE DEF first, second
<1>8. IsFiniteSet(first \cup second) /\ Cardinality(first \cup second) = n + k
  BY <1>3, <1>4, <1>5, <1>6, FS_Union, FS_EmptySet
<1>9. IsFiniteSet(p) /\ Cardinality(p) <= Cardinality(first \cup second)
  BY <1>7, <1>8, FS_Subset
<1>10. Cardinality(p) \in Nat
  BY <1>9, FS_CardinalityType
<1> QED
  BY <1>3, <1>8, <1>9, <1>10

(* The turns of a build that had pairs. *)
LEMMA PairsAreTurns ==
    ASSUME NEW b, b.models \subseteq Models, NEW r, NEW v, NEW from,
           from = {t[1] : t \in Pairs(b, r, v)},
           \A m \in b.models \ b.twice : b.got[<<m, 2>>] = NotLoaded
    PROVE  from \in SUBSET Models /\ Pairs(b, r, v) \subseteq Turns(from, b.twice)
<1>1. Have(NotLoaded) = {}
  BY DEF Have, NotLoaded, Usable
<1>2. ASSUME NEW t \in Pairs(b, r, v)
      PROVE  t \in Turns(from, b.twice) /\ t[1] \in Models
  <2>1. PICK m \in b.models, i \in {1, 2} : t = <<m, i>>
    BY DEF Pairs
  <2>2. PICK g : g = b.got[t] /\ TemplateVars \cap Have(g) # {}
    BY DEF Pairs
  <2>3. i = 1 \/ m \in b.twice
    BY <1>1, <2>1, <2>2
  <2>4. m \in from
    BY <2>1
  <2> QED
    BY <2>1, <2>3, <2>4 DEF Turns
<1> QED
  BY <1>2

LEMMA TableRowsFit ==
    ASSUME NEW b, b.models \subseteq Models, archive \in Archive,
           \A m \in b.models \ b.twice : b.got[<<m, 2>>] = NotLoaded
    PROVE  RowsFit(TableRows(b), b.twice)
<1> SUFFICES ASSUME NEW r \in Regions, NEW v \in SampledVars,
                    NEW x \in ObservationUsed(TableRows(b), r, ObsVar(v)), x.value = "fit"
             PROVE  /\ r \in SourceRegions
                    /\ Cardinality(x.from) + Cardinality(x.from \cap b.twice) >= 3
                    /\ x.from = {m \in Models : \A s \in {"sampled", SourceOf(v)} :
                                    \E y \in TableRows(b) : IsModels(y, r, m, v, s)}
  BY DEF RowsFit
<1>1. x \in TableRows(b) /\ x.region = r /\ x.var = ObsVar(v)
  <2>1. PICK rows : rows = TableRows(b)
    OBVIOUS
  <2> QED
    BY <2>1 DEF ObservationUsed
<1>2. /\ b.homogenize /\ r \in SourceRegions
      /\ x.from = {t[1] : t \in Pairs(b, r, v)} /\ Cardinality(Pairs(b, r, v)) >= 3
  BY <1>1, FitComesFrom
<1>3. PICK p, from : p = Pairs(b, r, v) /\ from = x.from /\ Cardinality(p) >= 3
  BY <1>2
<1>4. from \in SUBSET Models /\ p \subseteq Turns(from, b.twice)
  BY <1>2, <1>3, PairsAreTurns
<1>5. /\ Cardinality(p) \in Nat
      /\ Cardinality(from) \in Nat /\ Cardinality(from \cap b.twice) \in Nat
      /\ Cardinality(p) <= Cardinality(from) + Cardinality(from \cap b.twice)
  BY <1>4, TurnsCount
<1>6. Cardinality(x.from) + Cardinality(x.from \cap b.twice) >= 3
  BY <1>3, <1>5
<1> QED
  BY <1>2, <1>6, PairsAreTheRows


-----------------------------------------------------------------------------
(* What a build has loaded are the files there are, but for the models     *)
(* something was writing; so it stays with the rows made of them.          *)

LoadedOK(b) ==
    b.pc = "load" =>
        /\ b.models = ItsModels(b.asked)
        /\ \A m \in b.models \ b.disturbed :
              <<m, 1>> \notin b.todo => b.got[<<m, 1>>] = archive[m].files
        /\ \A m \in b.models \ b.twice : b.got[<<m, 2>>] = NotLoaded
        /\ b.todo \subseteq Turns(b.models, b.twice)

WrittenOK(b) ==
    b.pc = "table" => Promise(b.asked, b.disturbed, b.rows) /\ RowsFit(b.rows, b.twice)

StandsOK(t) ==
    /\ t.state = "whole" => Promise(t.asked, t.disturbed, t.rows)
    /\ RowsFit(t.rows, t.twice)

SeasonRowsInv == LoadedOK(build) /\ WrittenOK(build) /\ StandsOK(table)

SeasonInv == TablesTypeInv /\ SeasonRowsInv

LEMMA NoRowsFit == \A twice : RowsFit({}, twice)
BY DEF RowsFit, ObservationUsed

LEMMA SeasonInvInit == ASSUME TablesInit PROVE SeasonRowsInv
BY NoRowsFit DEF TablesInit, RegionalInit, Idle, NoTable, SeasonRowsInv, LoadedOK, WrittenOK,
                 StandsOK

(* A step that leaves the table alone or without rows.                     *)
LEMMA StandsKept ==
    ASSUME SeasonInv, archive' = archive,
           \/ table' = table
           \/ table'.state # "whole" /\ table'.rows = {}
    PROVE  StandsOK(table)'
<1>1. CASE table' = table
  BY <1>1 DEF SeasonInv, SeasonRowsInv, StandsOK, Promise, SeasonRows, IsGood, RowsFit
<1>2. CASE table'.state # "whole" /\ table'.rows = {}
  BY <1>2, NoRowsFit DEF StandsOK, RowsFit
<1> QED
  BY <1>1, <1>2

LEMMA SeasonAside ==
    ASSUME SeasonInv, archive' = archive, build' = build, table' = table
    PROVE  SeasonRowsInv'
<1>1. StandsOK(table)'
  BY StandsKept
<1>2. Discovered' = Discovered
  BY DEF Discovered
<1>3. LoadedOK(build)'
  BY <1>2 DEF SeasonInv, SeasonRowsInv, LoadedOK, ItsModels
<1>4. WrittenOK(build)'
  BY DEF SeasonInv, SeasonRowsInv, WrittenOK, Promise, SeasonRows, IsGood, RowsFit
<1> QED
  BY <1>1, <1>3, <1>4 DEF SeasonRowsInv

LEMMA SeasonEnds ==
    ASSUME SeasonInv, archive' = archive, build'.pc \in {"idle", "metatext"},
           table' = table \/ (table'.state # "whole" /\ table'.rows = {})
    PROVE  SeasonRowsInv'
<1>1. StandsOK(table)'
  BY StandsKept
<1>2. LoadedOK(build)' /\ WrittenOK(build)'
  BY DEF LoadedOK, WrittenOK
<1> QED
  BY <1>1, <1>2 DEF SeasonRowsInv

LEMMA SeasonReads ==
    ASSUME SeasonInv, StartBuild \/ LoadModel
    PROVE  SeasonRowsInv'
<1>1. archive' = archive /\ table' = table /\ Discovered' = Discovered
  BY DEF StartBuild, NewBuild, LoadModel, monthly, Discovered
<1>2. StandsOK(table)'
  BY <1>1, StandsKept
<1>3. CASE StartBuild
  <2>1. PICK asked, twice, models, got :
           /\ models = (IF asked = {} THEN Discovered ELSE asked \cap Discovered)
                       \ ExcludeModels
           /\ build'.pc = "load" /\ build'.asked = asked /\ build'.models = models
           /\ build'.twice = twice /\ build'.todo = Turns(models, twice)
           /\ build'.got = got /\ got = [t \in AllTurns |-> NotLoaded]
    BY <1>3, StartDoes
  <2>2. \A m \in models : <<m, 1>> \in Turns(models, twice)
    BY DEF Turns
  <2>3. \A m \in models : got[<<m, 2>>] = NotLoaded
    BY <2>1, DiscoveredAreModels DEF AllTurns
  <2> QED
    BY <1>1, <1>2, <2>1, <2>2, <2>3 DEF SeasonRowsInv, LoadedOK, WrittenOK, ItsModels
<1>4. CASE LoadModel
  <2>1. PICK b : b = build /\ BuildTypes(b, started) /\ LoadedOK(b)
    BY DEF SeasonInv, TablesTypeInv, RegionalTypes, SeasonRowsInv
  <2>2. PICK t, m, g, got, disturbed :
              /\ t \in AllTurns /\ m = t[1] /\ t \in b.todo /\ g \in Loads(m)
              /\ got = [b.got EXCEPT ![t] = g]
              /\ disturbed = b.disturbed \cup (IF g = archive[m].files THEN {} ELSE {m})
              /\ b.pc = "load"
              /\ build' = [b EXCEPT !.todo = b.todo \ {t}, !.got = got,
                                    !.disturbed = disturbed]
              /\ UNCHANGED <<obs, table, meta, completed, monthly>>
    <3>1. b = build /\ b = [f \in RFields |-> b[f]]
      BY <2>1 DEF BuildTypes
    <3>2. TurnLoaded(b)
      BY <1>4, <3>1, LoadDoes
    <3> QED
      BY <3>2 DEF TurnLoaded
  <2>3. /\ build'.pc = "load" /\ build'.asked = b.asked /\ build'.models = b.models
        /\ build'.twice = b.twice
        /\ build'.todo = b.todo \ {t} /\ build'.got = got /\ build'.disturbed = disturbed
    BY <2>1, <2>2 DEF BuildTypes, RFields
  <2>4. PICK i : t = <<m, i>> /\ i \in {1, 2}
    BY <2>2 DEF AllTurns
  <2>5. \A k \in AllTurns : got[k] = IF k = t THEN g ELSE b.got[k]
    BY <2>1, <2>2 DEF BuildTypes
  <2>6. \A k \in b.models : <<k, 1>> \in AllTurns /\ <<k, 2>> \in AllTurns
    BY <2>1 DEF BuildTypes, AllTurns
  <2>7. ASSUME NEW k \in b.models \ disturbed, <<k, 1>> \notin b.todo \ {t}
        PROVE  got[<<k, 1>>] = archive[k].files
    <3>1. CASE <<k, 1>> = t
      <4>1. k = m /\ k \notin disturbed
        BY <2>4, <3>1
      <4>2. g = archive[m].files
        BY <2>2, <4>1
      <4> QED
        BY <2>5, <2>6, <3>1, <4>1, <4>2
    <3>2. CASE <<k, 1>> # t
      <4>1. <<k, 1>> \notin b.todo /\ k \notin b.disturbed
        BY <2>2, <2>7, <3>2
      <4>2. b.got[<<k, 1>>] = archive[k].files
        BY <2>1, <2>2, <4>1 DEF LoadedOK
      <4> QED
        BY <2>5, <2>6, <3>2, <4>2
    <3> QED
      BY <3>1, <3>2
  <2>8. ASSUME NEW k \in b.models \ b.twice
        PROVE  got[<<k, 2>>] = NotLoaded
    <3>1. t \in Turns(b.models, b.twice) /\ b.got[<<k, 2>>] = NotLoaded
      BY <2>1, <2>2 DEF LoadedOK
    <3>2. <<k, 2>> # t
      BY <2>4, <3>1 DEF Turns
    <3> QED
      BY <2>5, <2>6, <3>1, <3>2
  <2>9. /\ b.models = ItsModels(b.asked)
        /\ b.todo \ {t} \subseteq Turns(b.models, b.twice)
    BY <2>1, <2>2 DEF LoadedOK
  <2>10. LoadedOK(build)'
    BY <1>1, <2>3, <2>7, <2>8, <2>9 DEF LoadedOK, ItsModels
  <2> QED
    BY <1>2, <2>3, <2>10 DEF SeasonRowsInv, WrittenOK
<1> QED
  BY <1>3, <1>4

LEMMA SeasonOpens ==
    ASSUME SeasonInv, OpenTable
    PROVE  SeasonRowsInv'
<1>1. PICK b, rows, got : /\ b = build /\ rows = TableRows(build) /\ got = Idle.got
                          /\ BuildTypes(b, started) /\ LoadedOK(b)
  BY DEF SeasonInv, TablesTypeInv, RegionalTypes, SeasonRowsInv
<1>2. /\ build' = [b EXCEPT !.pc = "table", !.rows = rows, !.got = got]
      /\ b.pc = "load" /\ b.todo = {} /\ archive' = archive
      /\ table' = [NoTable EXCEPT !.state = "torn"]
  BY <1>1 DEF OpenTable, monthly
<1>3. /\ build'.pc = "table" /\ build'.asked = b.asked /\ build'.rows = rows
      /\ build'.twice = b.twice /\ build'.disturbed = b.disturbed
  BY <1>1, <1>2 DEF BuildTypes, RFields
<1>4. archive \in Archive /\ b.asked \subseteq Models /\ b.models \subseteq Models
  BY <1>1 DEF SeasonInv, TablesTypeInv, RegionalTypes, FieldsTypeOK, BuildTypes
<1>5. /\ b.models = ItsModels(b.asked)
      /\ \A m \in b.models \ b.disturbed : b.got[<<m, 1>>] = archive[m].files
      /\ \A m \in b.models \ b.twice : b.got[<<m, 2>>] = NotLoaded
  BY <1>1, <1>2 DEF LoadedOK
<1>6. Promise(b.asked, b.disturbed, rows) /\ RowsFit(rows, b.twice)
  BY <1>1, <1>4, <1>5, RowsKeepThePromise, TableRowsFit
<1>7. WrittenOK(build)'
  BY <1>2, <1>3, <1>6 DEF WrittenOK, Promise, SeasonRows, IsGood, RowsFit
<1>8. table'.state = "torn" /\ table'.rows = {}
  BY <1>2 DEF NoTable
<1>9. StandsOK(table)'
  BY <1>2, <1>8, StandsKept
<1> QED
  BY <1>3, <1>7, <1>9 DEF SeasonRowsInv, LoadedOK

LEMMA SeasonCloses ==
    ASSUME SeasonInv, CloseTable
    PROVE  SeasonRowsInv'
<1>1. PICK b : b = build /\ BuildTypes(b, started) /\ WrittenOK(b)
  BY DEF SeasonInv, TablesTypeInv, RegionalTypes, SeasonRowsInv
<1>2. /\ build' = [b EXCEPT !.pc = "meta", !.rows = {}]
      /\ b.pc = "table" /\ archive' = archive
      /\ table'.asked = b.asked /\ table'.twice = b.twice
      /\ table'.disturbed = b.disturbed /\ table'.rows = b.rows
  BY <1>1 DEF CloseTable, monthly
<1>3. build'.pc = "meta"
  BY <1>1, <1>2 DEF BuildTypes, RFields
<1>4. Promise(b.asked, b.disturbed, b.rows) /\ RowsFit(b.rows, b.twice)
  BY <1>1, <1>2 DEF WrittenOK
<1>5. StandsOK(table)'
  BY <1>2, <1>4 DEF StandsOK, Promise, SeasonRows, IsGood, RowsFit
<1> QED
  BY <1>3, <1>5 DEF SeasonRowsInv, LoadedOK, WrittenOK

LEMMA SeasonInvNext ==
    ASSUME SeasonInv, [TablesNext]_tablesVars
    PROVE  SeasonInv'
<1>1. TablesTypeInv'
  BY TablesTypeInvNext DEF SeasonInv
<1>2. archive' = archive
  BY StartedGrows
<1>3. CASE UNCHANGED regional
  <2>1. build' = build /\ table' = table
    BY <1>3 DEF regional
  <2> QED
    BY <1>1, <1>2, <2>1, SeasonAside DEF SeasonInv
<1>4. CASE NoPolder \/ NoRows \/ KillBuild \/ TableFails \/ CloseMeta
  <2>1. /\ build'.pc = "idle"
        /\ table' = table \/ (table'.state # "whole" /\ table'.rows = {})
    BY <1>4 DEF NoPolder, NoRows, KillBuild, TableFails, CloseMeta, RegionalEnd, Idle, NoTable
  <2> QED
    BY <1>1, <1>2, <2>1, SeasonEnds DEF SeasonInv
<1>5. CASE OpenMeta
  <2>1. build'.pc = "metatext" /\ table' = table
    BY <1>5 DEF OpenMeta, SeasonInv, TablesTypeInv, RegionalInv, BuildInv, RFields
  <2> QED
    BY <1>1, <1>2, <2>1, SeasonEnds DEF SeasonInv
<1>6. CASE StartBuild \/ LoadModel
  BY <1>1, <1>6, SeasonReads DEF SeasonInv
<1>7. CASE OpenTable
  BY <1>1, <1>7, SeasonOpens DEF SeasonInv
<1>8. CASE CloseTable
  BY <1>1, <1>8, SeasonCloses DEF SeasonInv
<1> QED
  BY <1>3, <1>4, <1>5, <1>6, <1>7, <1>8
     DEF TablesNext, tablesVars, RegionalNext, RegionalStep

(* A model the build was asked for and that nothing was writing has its    *)
(* row for each variable that can be read and, with four good files and a  *)
(* flux that is not zero, its lifetime: whichever other files of it are    *)
(* missing or broken, whichever models come before it and whatever is      *)
(* killed (build L727-746, process_one_model).                             *)
THEOREM Readable == TablesSpec => []ReadableIsInTheTable
<1>1. TablesInit => SeasonInv
  BY TablesTypeInvInit, SeasonInvInit DEF SeasonInv
<1>2. SeasonInv /\ [TablesNext]_tablesVars => SeasonInv'
  BY SeasonInvNext
<1>3. SeasonInv => ReadableIsInTheTable
  <2> SUFFICES ASSUME StandsOK(table)
               PROVE  ReadableIsInTheTable
    BY DEF SeasonInv, SeasonRowsInv
  <2> QED
    BY DEF StandsOK, Promise, SeasonRows, IsGood, IsRow, ReadableIsInTheTable, HasRow
<1> QED
  BY <1>1, <1>2, <1>3, PTL DEF TablesSpec

(* An observation the notebooks take as fitted is of a source region, was  *)
(* fitted to three models or more, one whose name was given twice counting *)
(* twice, and to exactly those whose sampled and regional values stand in  *)
(* the same table (process_one_model L505-525, homogenize_from_pairs,      *)
(* build L743).                                                            *)
THEOREM Fit == TablesSpec => []FitIsInTheTable
<1>1. TablesInit => SeasonInv
  BY TablesTypeInvInit, SeasonInvInit DEF SeasonInv
<1>2. SeasonInv /\ [TablesNext]_tablesVars => SeasonInv'
  BY SeasonInvNext
<1>3. SeasonInv => FitIsInTheTable
  <2> SUFFICES ASSUME RowsFit(table.rows, table.twice), NEW r \in Regions, NEW v \in SampledVars,
                      NEW x \in ObservationUsed(table.rows, r, ObsVar(v)), x.value = "fit"
               PROVE  /\ r \in SourceRegions
                      /\ Cardinality(x.from) + Cardinality(x.from \cap table.twice) >= 3
                      /\ x.from = {m \in Models :
                            \A s \in {"sampled", IF v = "SSA" THEN "derived" ELSE "aggregated"} :
                               \E y \in table.rows : y.region = r /\ y.dataset = m
                                                        /\ y.var = v /\ y.source = s}
    BY DEF SeasonInv, SeasonRowsInv, StandsOK, FitIsInTheTable
  <2>1. /\ r \in SourceRegions
        /\ Cardinality(x.from) + Cardinality(x.from \cap table.twice) >= 3
        /\ x.from = {m \in Models : \A s \in {"sampled", SourceOf(v)} :
                                       \E y \in table.rows : IsModels(y, r, m, v, s)}
    BY DEF RowsFit
  <2> QED
    BY <2>1 DEF SourceOf, IsModels, IsRow
<1> QED
  BY <1>1, <1>2, <1>3, PTL DEF TablesSpec
=============================================================================
