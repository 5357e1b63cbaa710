------------------------ MODULE MonthlyBuild_proofs -------------------------
(***************************************************************************)
(* What the monthly table promises, proved for any models, variables and   *)
(* monthly files.                                                          *)
(***************************************************************************)
EXTENDS Tables, TLAPS

-----------------------------------------------------------------------------
(* Rows. *)

(* A total is all its species or nothing. *)
LEMMA SumIsComplete ==
    ASSUME NEW g, NEW keys, SumDatasets(g, keys, TRUE) # {}
    PROVE  keys \subseteq SumDatasets(g, keys, TRUE)
BY DEF SumDatasets

TotalOf(v) == CASE v = "load_total" -> LoadVars [] v = "emi_total" -> EmiVars
                [] v = "dep_total" -> DepVars

Totals == {"load_total", "emi_total", "dep_total"}

LEMMA TotalField ==
    ASSUME NEW g, NEW v \in Totals
    PROVE  MonthlyField(g)[v].from = SumDatasets(g, TotalOf(v), TRUE)
<1> DEFINE raw == [w \in RawVars \cap Variables |-> Plain({w} \cap Have(g))]
           sums == MonthlySums(g)
           derived == MonthlyDerived(g)
<1>1. v \notin DOMAIN raw
  BY DEF Totals, RawVars
<1>2. v \in DOMAIN sums /\ sums[v] = Plain(SumDatasets(g, TotalOf(v), TRUE))
  <2>1. CASE v = "load_total"
    BY <2>1 DEF MonthlySums, TotalOf
  <2>2. CASE v = "emi_total"
    BY <2>2 DEF MonthlySums, TotalOf
  <2>3. CASE v = "dep_total"
    BY <2>3 DEF MonthlySums, TotalOf
  <2> QED
    BY <2>1, <2>2, <2>3 DEF Totals
<1>3. MonthlyField(g) = Also(Also(raw, sums), derived)
  BY DEF MonthlyField
<1> HIDE DEF raw, sums, derived
<1>4. v \in DOMAIN Also(raw, sums) /\ Also(raw, sums)[v] = sums[v]
  BY <1>1, <1>2 DEF Also
<1>5. MonthlyField(g)[v] = sums[v]
  BY <1>3, <1>4 DEF Also
<1> QED
  BY <1>2, <1>5 DEF Plain

MonthlyRowOK(x) == x.var \in Totals => TotalOf(x.var) \subseteq x.from

LEMMA MonthlyRowsOK ==
    ASSUME NEW b, NEW x \in MTableRows(b)
    PROVE  MonthlyRowOK(x) /\ x.model \in b.models
<1>1. PICK m \in b.models : x \in MonthlyRows(m, b.got[m])
  BY DEF MTableRows
<1>2. PICK g : g = b.got[m]
  OBVIOUS
<1>3. PICK v, month :
         /\ month \in Months(g, MonthlyField(g)[v].from)
         /\ x = [model |-> m, month |-> month, var |-> v, from |-> MonthlyField(g)[v].from,
                 screened |-> MonthlyField(g)[v].screened]
  <2>1. x \in UNION {{[model |-> m, month |-> month, var |-> v,
                       from |-> MonthlyField(g)[v].from,
                       screened |-> MonthlyField(g)[v].screened] :
                          month \in Months(g, MonthlyField(g)[v].from)} :
                      v \in DOMAIN MonthlyField(g)}
    BY <1>1, <1>2 DEF MonthlyRows
  <2> QED
    BY <2>1
<1>4. x.var = v /\ x.from = MonthlyField(g)[v].from /\ x.model = m
  BY <1>3
<1>5. x.from # {}
  BY <1>3, <1>4 DEF Months
<1>6. v \in Totals => TotalOf(v) \subseteq x.from
  <2> SUFFICES ASSUME v \in Totals
               PROVE  TotalOf(v) \subseteq x.from
    OBVIOUS
  <2>1. x.from = SumDatasets(g, TotalOf(v), TRUE)
    BY <1>4, TotalField
  <2> QED
    BY <1>5, <2>1, SumIsComplete
<1> QED
  BY <1>1, <1>4, <1>6 DEF MonthlyRowOK

(* A running build's number is new; its table is its own until it ends.    *)
MFields == {"pc", "n", "models", "waiting", "lost", "got", "rows", "disturbed"}

MonthlyBuildInv ==
    /\ mbuild = [f \in MFields |-> mbuild[f]]
    /\ mbuild.pc # "idle" => mbuild.n \in 1 .. started
    /\ mbuild.pc \in {"compute", "table"} => mbuild.n \notin mdone
    /\ mbuild.pc = "table" => \A x \in mbuild.rows : MonthlyRowOK(x) /\ x.model \in mbuild.models
    /\ mbuild.pc \in {"meta", "metatext"} =>
          /\ mbuild.n \in mdone
          /\ mtable.n = mbuild.n /\ \A x \in mtable.rows : x.model \in mbuild.models

MonthlyTableInv ==
    /\ started \in Nat /\ mdone \subseteq 1 .. started
    /\ \A x \in mtable.rows : MonthlyRowOK(x)
    /\ MonthlyMetaFollowsTable

MonthlyInv == MonthlyBuildInv /\ MonthlyTableInv

LEMMA MonthlyEndInv ==
    ASSUME MonthlyTableInv', MonthlyEnd
    PROVE  MonthlyInv'
<1>1. mbuild' = MIdle
  BY DEF MonthlyEnd
<1>2. MIdle = [f \in MFields |-> MIdle[f]] /\ MIdle.pc = "idle"
  BY DEF MIdle, MFields
<1> QED
  BY <1>1, <1>2 DEF MonthlyInv, MonthlyBuildInv

LEMMA MonthlyInvInit == ASSUME TablesInit PROVE MonthlyInv
<1>1. /\ mbuild = MIdle /\ mtable = NoMTable /\ mmeta = NoMMeta /\ mdone = {} /\ started = 0
  BY DEF TablesInit, MonthlyBuildInit, MonthlyInit
<1>2. MIdle = [f \in MFields |-> MIdle[f]] /\ MIdle.pc = "idle"
  BY DEF MIdle, MFields
<1>3. mtable.rows = {} /\ mmeta.state = "none"
  BY <1>1 DEF NoMTable, NoMMeta
<1> QED
  BY <1>1, <1>2, <1>3 DEF MonthlyInv, MonthlyBuildInv, MonthlyTableInv, MonthlyMetaFollowsTable

(* The step of a build that computes on.                                   *)
LEMMA MonthlyGoesOn ==
    ASSUME MonthlyInv, UNCHANGED <<mtable, mmeta, mdone>>, started' \in {started, started + 1},
           mbuild' = [f \in MFields |-> mbuild'[f]], mbuild'.pc = "compute",
           \/ mbuild.pc = "compute" /\ mbuild'.n = mbuild.n
           \/ mbuild'.n = started' /\ started' = started + 1
    PROVE  MonthlyInv'
<1>1. /\ started \in Nat /\ started' \in Nat /\ started <= started' /\ mdone \subseteq 1 .. started
  BY DEF MonthlyInv, MonthlyTableInv
<1>2. mbuild'.n \in 1 .. started' /\ mbuild'.n \notin mdone
  BY <1>1 DEF MonthlyInv, MonthlyBuildInv
<1>3. mdone' \subseteq 1 .. started'
  BY <1>1
<1>4. MonthlyTableInv'
  BY <1>1, <1>3 DEF MonthlyInv, MonthlyTableInv, MonthlyMetaFollowsTable
<1> QED
  BY <1>2, <1>4 DEF MonthlyInv, MonthlyBuildInv

LEMMA MonthlyTasksInv ==
    ASSUME MonthlyInv, StartMonthly \/ DoTask \/ LoseWorker
    PROVE  MonthlyInv'
<1>1. CASE StartMonthly
  <2>1. PICK models, n :
           /\ mbuild' = [MIdle EXCEPT !.pc = "compute", !.n = n, !.models = models,
                                      !.waiting = models]
           /\ n = started'
    BY <1>1 DEF StartMonthly
  <2>2. PICK got : got = MIdle.got
    OBVIOUS
  <2>3. mbuild' = [f \in MFields |-> mbuild'[f]] /\ mbuild'.pc = "compute" /\ mbuild'.n = n
    BY <2>1 DEF MIdle, MFields
  <2> QED
    BY <1>1, <2>1, <2>3, MonthlyGoesOn DEF StartMonthly, NewBuild, StartOne
<1>2. CASE DoTask \/ LoseWorker
  <2>1. PICK b : b = mbuild
    OBVIOUS
  <2>2. b = [f \in MFields |-> b[f]] /\ b.pc = "compute"
    BY <1>2, <2>1 DEF MonthlyInv, MonthlyBuildInv, DoTask, LoseWorker
  <2>3. PICK waiting, got, disturbed, lost :
          mbuild' = [b EXCEPT !.waiting = waiting, !.got = got, !.disturbed = disturbed,
                              !.lost = lost]
    <3>1. CASE DoTask
      <4>1. PICK m, g : mbuild' = [b EXCEPT !.waiting = @ \ {m}, !.got[m] = g,
                !.disturbed = IF g = archive[m].files THEN @ \ {m} ELSE @ \cup {m}]
        BY <2>1, <3>1 DEF DoTask
      <4> WITNESS b.waiting \ {m}, [b.got EXCEPT ![m] = g],
                  IF g = archive[m].files THEN b.disturbed \ {m} ELSE b.disturbed \cup {m}, b.lost
      <4> QED
        BY <2>2, <4>1 DEF MFields
    <3>2. CASE LoseWorker
      <4>1. PICK m : mbuild' = [b EXCEPT !.waiting = @ \cup {m}, !.got[m] = NotLoaded,
                                         !.lost = @ + 1]
        BY <2>1, <3>2 DEF LoseWorker
      <4> WITNESS b.waiting \cup {m}, [b.got EXCEPT ![m] = NotLoaded], b.disturbed, b.lost + 1
      <4> QED
        BY <2>2, <4>1 DEF MFields
    <3> QED
      BY <1>2, <3>1, <3>2
  <2>4. mbuild' = [f \in MFields |-> mbuild'[f]] /\ mbuild'.pc = "compute" /\ mbuild'.n = b.n
    BY <2>2, <2>3 DEF MFields
  <2> QED
    BY <1>2, <2>1, <2>2, <2>4, MonthlyGoesOn DEF DoTask, LoseWorker, monthly
<1> QED
  BY <1>1, <1>2

LEMMA MonthlyEndsInv ==
    ASSUME MonthlyInv, NothingAggregated \/ KillMonthly \/ MonthlyTableFails
    PROVE  MonthlyInv'
<1>1. MonthlyEnd /\ mmeta' = mmeta /\ mdone' = mdone /\ started' = started
  BY DEF NothingAggregated, KillMonthly, MonthlyTableFails, monthly
<1>2. mtable' = mtable \/ (mtable'.state = "none" /\ mtable'.rows = {})
  BY DEF NothingAggregated, KillMonthly, MonthlyTableFails, NoMTable
<1>3. MonthlyTableInv'
  BY <1>1, <1>2 DEF MonthlyInv, MonthlyTableInv, MonthlyMetaFollowsTable
<1> QED
  BY <1>1, <1>3, MonthlyEndInv

LEMMA MonthlyOpenInv ==
    ASSUME MonthlyInv, OpenMonthly
    PROVE  MonthlyInv'
<1>1. PICK b, rows, got : b = mbuild /\ rows = MTableRows(mbuild) /\ got = MIdle.got
  OBVIOUS
<1>2. /\ mbuild' = [b EXCEPT !.pc = "table", !.rows = rows, !.got = got]
      /\ b.pc = "compute" /\ mtable' = [NoMTable EXCEPT !.state = "torn"]
      /\ mmeta' = mmeta /\ mdone' = mdone /\ started' = started
  BY <1>1 DEF OpenMonthly, monthly
<1>3. b = [f \in MFields |-> b[f]] /\ b.n \in 1 .. started /\ b.n \notin mdone
  BY <1>1, <1>2 DEF MonthlyInv, MonthlyBuildInv
<1>4. /\ mbuild' = [f \in MFields |-> mbuild'[f]] /\ mbuild'.pc = "table" /\ mbuild'.n = b.n
      /\ mbuild'.rows = rows /\ mbuild'.models = b.models
  BY <1>2, <1>3 DEF MFields
<1>5. mtable'.state = "torn" /\ mtable'.rows = {}
  BY <1>2 DEF NoMTable
<1>6. \A x \in rows : MonthlyRowOK(x) /\ x.model \in b.models
  BY <1>1, MonthlyRowsOK
<1>7. MonthlyTableInv'
  BY <1>2, <1>5 DEF MonthlyInv, MonthlyTableInv, MonthlyMetaFollowsTable
<1>8. \A x \in mbuild'.rows : MonthlyRowOK(x) /\ x.model \in mbuild'.models
  BY <1>4, <1>6
<1>9. mbuild'.n \in 1 .. started' /\ mbuild'.n \notin mdone'
  <2>1. PICK n, s, done : n = b.n /\ s = started /\ done = mdone
    OBVIOUS
  <2>2. n \in 1 .. s /\ n \notin done
    BY <1>3, <2>1
  <2>3. mbuild'.n = n /\ started' = s /\ mdone' = done
    BY <1>2, <1>4, <2>1
  <2> QED
    BY <2>2, <2>3
<1>10. MonthlyBuildInv'
  BY <1>4, <1>8, <1>9 DEF MonthlyBuildInv
<1> QED
  BY <1>7, <1>10 DEF MonthlyInv

LEMMA MonthlyCloseInv ==
    ASSUME MonthlyInv, CloseMonthly
    PROVE  MonthlyInv'
<1>1. PICK b : b = mbuild
  OBVIOUS
<1>2. /\ mbuild' = [b EXCEPT !.pc = "meta", !.rows = {}] /\ b.pc = "table"
      /\ mtable'.state = "whole" /\ mtable'.n = b.n /\ mtable'.rows = b.rows
      /\ mdone' = mdone \cup {b.n} /\ mmeta' = mmeta /\ started' = started
  BY <1>1 DEF CloseMonthly, monthly
<1>3. /\ b = [f \in MFields |-> b[f]] /\ b.n \in 1 .. started /\ b.n \notin mdone
      /\ \A x \in b.rows : MonthlyRowOK(x) /\ x.model \in b.models
  BY <1>1, <1>2 DEF MonthlyInv, MonthlyBuildInv
<1>4. /\ mbuild' = [f \in MFields |-> mbuild'[f]] /\ mbuild'.pc = "meta" /\ mbuild'.n = b.n
      /\ mbuild'.models = b.models
  BY <1>2, <1>3 DEF MFields
<1>5. mmeta.state = "whole" => mmeta.n \in mdone /\ mmeta.n # b.n
  BY <1>3 DEF MonthlyInv, MonthlyTableInv, MonthlyMetaFollowsTable
<1>6. MonthlyMetaFollowsTable'
  BY <1>2, <1>5 DEF MonthlyMetaFollowsTable
<1>7. mdone' \subseteq 1 .. started'
  BY <1>2, <1>3 DEF MonthlyInv, MonthlyTableInv
<1>8. MonthlyTableInv'
  BY <1>2, <1>3, <1>6, <1>7 DEF MonthlyInv, MonthlyTableInv
<1>9. mtable'.n = mbuild'.n /\ \A x \in mtable'.rows : x.model \in mbuild'.models
  BY <1>2, <1>3, <1>4
<1>10. mbuild'.n \in 1 .. started' /\ mbuild'.n \in mdone'
  <2>1. PICK n, s, done : n = b.n /\ s = started /\ done = mdone
    OBVIOUS
  <2>2. n \in 1 .. s 
    BY <1>3, <2>1
  <2>3. mbuild'.n = n /\ started' = s /\ mdone' = done \cup {n}
    BY <1>2, <1>4, <2>1
  <2> QED
    BY <2>2, <2>3
<1>11. MonthlyBuildInv'
  BY <1>4, <1>9, <1>10 DEF MonthlyBuildInv
<1> QED
  BY <1>8, <1>11 DEF MonthlyInv

LEMMA MonthlyMetaInv ==
    ASSUME MonthlyInv, OpenMonthlyMeta \/ CloseMonthlyMeta
    PROVE  MonthlyInv'
<1>1. PICK b : b = mbuild
  OBVIOUS
<1>2. /\ mtable' = mtable /\ mdone' = mdone /\ started' = started /\ b.pc \in {"meta", "metatext"}
  BY <1>1 DEF OpenMonthlyMeta, CloseMonthlyMeta, monthly
<1>3. /\ b = [f \in MFields |-> b[f]] /\ b.n \in 1 .. started /\ b.n \in mdone
      /\ mtable.n = b.n /\ \A x \in mtable.rows : x.model \in b.models
  BY <1>1, <1>2 DEF MonthlyInv, MonthlyBuildInv
<1>4. CASE OpenMonthlyMeta
  <2>1. mbuild' = [b EXCEPT !.pc = "metatext"] /\ mmeta' = [NoMMeta EXCEPT !.state = "torn"]
    BY <1>1, <1>4 DEF OpenMonthlyMeta
  <2>2. /\ mbuild' = [f \in MFields |-> mbuild'[f]] /\ mbuild'.pc = "metatext"
        /\ mbuild'.n = b.n /\ mbuild'.models = b.models
    BY <1>3, <2>1 DEF MFields
  <2>3. mmeta'.state = "torn"
    BY <2>1 DEF NoMMeta
  <2>4. MonthlyTableInv'
    BY <1>2, <2>3 DEF MonthlyInv, MonthlyTableInv, MonthlyMetaFollowsTable
  <2>5. MonthlyBuildInv'
    BY <1>2, <1>3, <2>2 DEF MonthlyBuildInv
  <2> QED
    BY <2>4, <2>5 DEF MonthlyInv
<1>5. CASE CloseMonthlyMeta
  <2>1. mmeta'.n = b.n /\ mmeta'.models = b.models /\ MonthlyEnd
    BY <1>1, <1>5 DEF CloseMonthlyMeta
  <2>2. MonthlyMetaFollowsTable'
    BY <1>2, <1>3, <2>1 DEF MonthlyMetaFollowsTable
  <2>3. MonthlyTableInv'
    BY <1>2, <2>2 DEF MonthlyInv, MonthlyTableInv
  <2> QED
    BY <2>1, <2>3, MonthlyEndInv
<1> QED
  BY <1>4, <1>5

(* What the other builder and get_data.py do. *)
LEMMA MonthlyAside ==
    ASSUME MonthlyInv, UNCHANGED monthlyBuild, started' \in {started, started + 1}
    PROVE  MonthlyInv'
<1>1. /\ mbuild' = mbuild /\ mtable' = mtable /\ mmeta' = mmeta /\ mdone' = mdone
      /\ started \in Nat /\ started' \in Nat /\ started <= started' /\ mdone \subseteq 1 .. started
  BY DEF monthlyBuild, MonthlyInv, MonthlyTableInv
<1>2. mdone' \subseteq 1 .. started'
  BY <1>1
<1>3. MonthlyTableInv'
  BY <1>1, <1>2 DEF MonthlyInv, MonthlyTableInv, MonthlyMetaFollowsTable
<1>4. mbuild.pc # "idle" => mbuild.n \in 1 .. started'
  BY <1>1 DEF MonthlyInv, MonthlyBuildInv
<1>5. MonthlyBuildInv'
  BY <1>1, <1>4 DEF MonthlyInv, MonthlyBuildInv
<1> QED
  BY <1>3, <1>5 DEF MonthlyInv

LEMMA StartedGrows ==
    ASSUME [TablesNext]_tablesVars
    PROVE  (started' = started \/ started' = started + 1) /\ archive' = archive
BY DEF TablesNext, tablesVars, monthly, RegionalNext, StartBuild, RegionalStep, KillBuild, NoPolder,
       LoadModel, NoRows, OpenTable, CloseTable, TableFails, OpenMeta, CloseMeta, NewBuild, StartOne,
       MonthlyNext, StartMonthly, MonthlyStep, KillMonthly, DoTask, LoseWorker, NothingAggregated,
       OpenMonthly, CloseMonthly, MonthlyTableFails, OpenMonthlyMeta, CloseMonthlyMeta,
       BeginRewrite, EndRewrite

LEMMA MonthlyInvNext ==
    ASSUME MonthlyInv, [TablesNext]_tablesVars
    PROVE  MonthlyInv'
<1>1. CASE UNCHANGED monthlyBuild
  BY <1>1, StartedGrows, MonthlyAside
<1>2. CASE MonthlyNext
  BY <1>2, MonthlyTasksInv, MonthlyEndsInv, MonthlyOpenInv, MonthlyCloseInv, MonthlyMetaInv
     DEF MonthlyNext, MonthlyStep
<1> QED
  BY <1>1, <1>2 DEF TablesNext, tablesVars

(* Whatever was missing, broken or being written when its task read a      *)
(* model's files, a total in the monthly table is of all its species       *)
(* (build_monthly_regional_aggregates.py, sum_datasets with require_all).  *)
THEOREM MonthlyTotals == TablesSpec => []TotalsAreComplete
<1>1. TablesInit => MonthlyInv
  BY MonthlyInvInit
<1>2. MonthlyInv /\ [TablesNext]_tablesVars => MonthlyInv'
  BY MonthlyInvNext
<1>3. MonthlyInv => TotalsAreComplete
  BY DEF MonthlyInv, MonthlyTableInv, MonthlyRowOK, TotalsAreComplete, Totals, TotalOf
<1> QED
  BY <1>1, <1>2, <1>3, PTL DEF TablesSpec

(* However builds fail or are killed, the meta file of the monthly table   *)
(* is of a table that was finished, and covers its models (L500, L527).    *)
THEOREM MonthlyMetaFollows == TablesSpec => []MonthlyMetaFollowsTable
<1>1. TablesInit => MonthlyInv
  BY MonthlyInvInit
<1>2. MonthlyInv /\ [TablesNext]_tablesVars => MonthlyInv'
  BY MonthlyInvNext
<1>3. MonthlyInv => MonthlyMetaFollowsTable
  BY DEF MonthlyInv, MonthlyTableInv
<1> QED
  BY <1>1, <1>2, <1>3, PTL DEF TablesSpec

-----------------------------------------------------------------------------
(* Every task's rows. *)

(* The rows a model's files give, if it has an optical depth.              *)
ItsRows(m, files, rows) ==
    LET Has(v) == \E x \in rows : x.model = m /\ x.var = v
    IN  files["od550aer"] \in Usable =>
            /\ Has("od550aer")
            /\ (\A v \in LoadVars : files[v] \in Usable /\ files[v] # "offyear")
                  => Has("load_total")

LEMMA RowOfField ==
    ASSUME NEW m, NEW g, "od550aer" \in Have(g), NEW v \in DOMAIN MonthlyField(g),
           NEW month \in Months(g, MonthlyField(g)[v].from)
    PROVE  \E x \in MonthlyRows(m, g) : x.model = m /\ x.var = v
<1> DEFINE field == MonthlyField(g)
           x == [model |-> m, month |-> month, var |-> v, from |-> field[v].from,
                 screened |-> field[v].screened]
<1>1. MonthlyRows(m, g) =
         UNION {{[model |-> m, month |-> mo, var |-> w, from |-> field[w].from,
                  screened |-> field[w].screened] : mo \in Months(g, field[w].from)} :
                w \in DOMAIN field}
  BY DEF MonthlyRows
<1> HIDE DEF field
<1>2. v \in DOMAIN field /\ month \in Months(g, field[v].from)
  BY DEF field
<1>3. x \in {[model |-> m, month |-> mo, var |-> v, from |-> field[v].from,
              screened |-> field[v].screened] : mo \in Months(g, field[v].from)}
  BY <1>2
<1>4. x \in MonthlyRows(m, g)
  BY <1>1, <1>2, <1>3
<1>5. x.model = m /\ x.var = v
  OBVIOUS
<1> QED
  BY <1>4, <1>5

LEMMA OpticalDepthField ==
    ASSUME NEW g, "od550aer" \in Have(g)
    PROVE  /\ "od550aer" \in DOMAIN MonthlyField(g)
           /\ MonthlyField(g)["od550aer"].from = {"od550aer"}
<1> DEFINE raw == [w \in RawVars \cap Variables |-> Plain({w} \cap Have(g))]
           sums == MonthlySums(g)
           derived == MonthlyDerived(g)
<1>1. "od550aer" \in DOMAIN raw /\ raw["od550aer"] = Plain({"od550aer"} \cap Have(g))
  BY MonthlyFieldsAssumption DEF RawVars
<1>2. MonthlyField(g) = Also(Also(raw, sums), derived)
  BY DEF MonthlyField
<1> HIDE DEF raw, sums, derived
<1>3. "od550aer" \in DOMAIN Also(raw, sums) /\ Also(raw, sums)["od550aer"] = raw["od550aer"]
  BY <1>1 DEF Also
<1>4. /\ "od550aer" \in DOMAIN MonthlyField(g)
      /\ MonthlyField(g)["od550aer"] = raw["od550aer"]
  BY <1>2, <1>3 DEF Also
<1> QED
  BY <1>1, <1>4 DEF Plain

LEMMA LoadTotalInField == ASSUME NEW g PROVE "load_total" \in DOMAIN MonthlyField(g)
<1> DEFINE raw == [w \in RawVars \cap Variables |-> Plain({w} \cap Have(g))]
           sums == MonthlySums(g)
           derived == MonthlyDerived(g)
<1>1. "load_total" \in DOMAIN sums
  BY DEF MonthlySums
<1>2. MonthlyField(g) = Also(Also(raw, sums), derived)
  BY DEF MonthlyField
<1> HIDE DEF raw, sums, derived
<1>3. "load_total" \in DOMAIN Also(raw, sums)
  BY <1>1 DEF Also
<1> QED
  BY <1>2, <1>3 DEF Also

LEMMA TaskGivesItsRows ==
    ASSUME NEW b, NEW m \in b.models, NEW g, g = b.got[m]
    PROVE  ItsRows(m, g, MTableRows(b))
<1> SUFFICES ASSUME g["od550aer"] \in Usable
             PROVE  /\ \E x \in MTableRows(b) : x.model = m /\ x.var = "od550aer"
                    /\ (\A v \in LoadVars : g[v] \in Usable /\ g[v] # "offyear")
                          => \E x \in MTableRows(b) : x.model = m /\ x.var = "load_total"
  BY DEF ItsRows
<1>0. MonthlyRows(m, g) \subseteq MTableRows(b)
  BY DEF MTableRows
<1>1. "od550aer" \in Have(g)
  BY MonthlyFieldsAssumption DEF Have
<1>2. \E x \in MTableRows(b) : x.model = m /\ x.var = "od550aer"
  <2>1. PICK v, from :
           v = "od550aer" /\ v \in DOMAIN MonthlyField(g)
           /\ from = MonthlyField(g)[v].from /\ from = {"od550aer"}
    BY <1>1, OpticalDepthField
  <2>2. PICK month : month \in Months(g, from)
    <3>1. CASE g["od550aer"] = "offyear"
      BY <2>1, <3>1 DEF Months
    <3>2. CASE g["od550aer"] # "offyear"
      BY <2>1, <3>2 DEF Months
    <3> QED
      BY <3>1, <3>2
  <2>3. month \in Months(g, MonthlyField(g)[v].from) /\ v \in DOMAIN MonthlyField(g)
    BY <2>1, <2>2
  <2>4. \E x \in MonthlyRows(m, g) : x.model = m /\ x.var = v
    BY <1>1, <2>3, RowOfField
  <2> QED
    BY <1>0, <2>1, <2>4
<1>3. ASSUME \A v \in LoadVars : g[v] \in Usable /\ g[v] # "offyear"
      PROVE  \E x \in MTableRows(b) : x.model = m /\ x.var = "load_total"
  <2>1. LoadVars \subseteq Have(g)
    BY <1>3, MonthlyFieldsAssumption DEF Have
  <2>2. SumDatasets(g, LoadVars, TRUE) = LoadVars
    BY <2>1 DEF SumDatasets
  <2>3. MonthlyField(g)["load_total"].from = LoadVars
    BY <2>2, TotalField DEF Totals, TotalOf
  <2>4. "season" \in Months(g, LoadVars)
    BY <1>3, MonthlyFieldsAssumption DEF Months
  <2>5. PICK v : v = "load_total"
    OBVIOUS
  <2>6. "season" \in Months(g, MonthlyField(g)[v].from) /\ v \in DOMAIN MonthlyField(g)
    BY <2>3, <2>4, <2>5, LoadTotalInField
  <2>7. \E x \in MonthlyRows(m, g) : x.model = m /\ x.var = v
    BY <1>1, <2>6, RowOfField
  <2> QED
    BY <1>0, <2>5, <2>7
<1> QED
  BY <1>2, <1>3

(* What a build has loaded are the files there are, but for the models     *)
(* something was writing; so it stays with the rows made of them.          *)
TasksInv ==
    /\ mbuild.pc = "compute" =>
          /\ mbuild.models \subseteq Models
          /\ DOMAIN mbuild.got = Models
          /\ \A m \in mbuild.models \ (mbuild.waiting \cup mbuild.disturbed) :
                mbuild.got[m] = archive[m].files
    /\ mbuild.pc = "table" =>
          \A m \in mbuild.models \ mbuild.disturbed : ItsRows(m, archive[m].files, mbuild.rows)
    /\ mtable.state = "whole" =>
          \A m \in mtable.models \ mtable.disturbed : ItsRows(m, archive[m].files, mtable.rows)

RowsInv == MonthlyInv /\ TasksInv

LEMMA TasksInvInit == ASSUME TablesInit PROVE TasksInv
BY DEF TablesInit, MonthlyBuildInit, MIdle, NoMTable, TasksInv

(* A step that ends the build, or leaves build and table alone.            *)
LEMMA TasksKept ==
    ASSUME TasksInv, archive' = archive, mtable' = mtable \/ mtable'.state = "none",
           mbuild' = mbuild \/ mbuild'.pc \in {"idle", "metatext"}
    PROVE  TasksInv'
<1>1. CASE mbuild' = mbuild
  BY <1>1 DEF TasksInv, ItsRows
<1>2. CASE mbuild'.pc \in {"idle", "metatext"}
  BY <1>2 DEF TasksInv, ItsRows
<1> QED
  BY <1>1, <1>2

LEMMA TasksStart ==
    ASSUME RowsInv, StartMonthly
    PROVE  TasksInv'
<1>1. PICK models, n :
         /\ mbuild' = [MIdle EXCEPT !.pc = "compute", !.n = n, !.models = models,
                                    !.waiting = models]
         /\ models \subseteq Models
  <2>1. PICK request, asked, all :
           LET models == IF asked = {} THEN all ELSE asked \cap all
           IN  /\ mbuild' = [MIdle EXCEPT !.pc = "compute", !.n = started',
                                          !.models = models, !.waiting = models]
               /\ all = Discovered \ MonthlyExclude /\ asked = Asked(request)
    BY DEF StartMonthly
  <2>2. all \subseteq Models
    BY <2>1 DEF Discovered
  <2> QED
    BY <2>1, <2>2
<1>2. PICK got : got = [m \in Models |-> NotLoaded]
  OBVIOUS
<1>3. /\ mbuild'.pc = "compute" /\ mbuild'.models = models /\ mbuild'.waiting = models
      /\ mbuild'.got = got
  BY <1>1, <1>2 DEF MIdle
<1>4. archive' = archive /\ mtable' = mtable
  BY DEF StartMonthly, NewBuild
<1> QED
  BY <1>1, <1>2, <1>3, <1>4 DEF RowsInv, TasksInv, ItsRows

LEMMA TasksDone ==
    ASSUME RowsInv, DoTask
    PROVE  TasksInv'
<1>1. PICK b : b = mbuild
  OBVIOUS
<1>2. PICK m, g :
         /\ m \in b.waiting
         /\ mbuild' = [b EXCEPT !.waiting = @ \ {m}, !.got[m] = g,
               !.disturbed = IF g = archive[m].files THEN @ \ {m} ELSE @ \cup {m}]
  BY <1>1 DEF DoTask
<1>3. /\ b = [f \in MFields |-> b[f]] /\ b.pc = "compute" /\ b.models \subseteq Models
      /\ DOMAIN b.got = Models
      /\ \A k \in b.models \ (b.waiting \cup b.disturbed) : b.got[k] = archive[k].files
  BY <1>1 DEF RowsInv, MonthlyInv, MonthlyBuildInv, TasksInv, DoTask
<1>4. PICK got, disturbed :
         /\ got = [b.got EXCEPT ![m] = g]
         /\ disturbed = IF g = archive[m].files THEN b.disturbed \ {m} ELSE b.disturbed \cup {m}
  OBVIOUS
<1>5. mbuild' = [b EXCEPT !.waiting = b.waiting \ {m}, !.got = got, !.disturbed = disturbed]
  BY <1>2, <1>3, <1>4 DEF MFields
<1>6. /\ mbuild'.pc = "compute" /\ mbuild'.models = b.models /\ mbuild'.got = got
      /\ mbuild'.waiting = b.waiting \ {m} /\ mbuild'.disturbed = disturbed
  BY <1>3, <1>5 DEF MFields
<1>7. DOMAIN got = Models
  BY <1>3, <1>4
<1>8. \A k \in b.models \ ((b.waiting \ {m}) \cup disturbed) : got[k] = archive[k].files
  BY <1>3, <1>4
<1>9. archive' = archive /\ mtable' = mtable
  BY DEF DoTask, monthly
<1> QED
  BY <1>3, <1>6, <1>7, <1>8, <1>9 DEF RowsInv, TasksInv, ItsRows

LEMMA TasksLost ==
    ASSUME RowsInv, LoseWorker
    PROVE  TasksInv'
<1>1. PICK b : b = mbuild
  OBVIOUS
<1>2. PICK m : mbuild' = [b EXCEPT !.waiting = @ \cup {m}, !.got[m] = NotLoaded, !.lost = @ + 1]
  BY <1>1 DEF LoseWorker
<1>3. /\ b = [f \in MFields |-> b[f]] /\ b.pc = "compute" /\ b.models \subseteq Models
      /\ DOMAIN b.got = Models
      /\ \A k \in b.models \ (b.waiting \cup b.disturbed) : b.got[k] = archive[k].files
  BY <1>1 DEF RowsInv, MonthlyInv, MonthlyBuildInv, TasksInv, LoseWorker
<1>4. PICK got, lost : got = [b.got EXCEPT ![m] = NotLoaded] /\ lost = b.lost + 1
  OBVIOUS
<1>5. mbuild' = [b EXCEPT !.waiting = b.waiting \cup {m}, !.got = got, !.lost = lost]
  BY <1>2, <1>3, <1>4 DEF MFields
<1>6. /\ mbuild'.pc = "compute" /\ mbuild'.models = b.models /\ mbuild'.got = got
      /\ mbuild'.waiting = b.waiting \cup {m} /\ mbuild'.disturbed = b.disturbed
  BY <1>3, <1>5 DEF MFields
<1>7. \A k \in b.models \ ((b.waiting \cup {m}) \cup b.disturbed) : got[k] = archive[k].files
  BY <1>3, <1>4
<1>8. archive' = archive /\ mtable' = mtable /\ DOMAIN got = Models
  BY <1>3, <1>4 DEF LoseWorker, monthly
<1> QED
  BY <1>3, <1>6, <1>7, <1>8 DEF RowsInv, TasksInv, ItsRows

LEMMA TasksOpen ==
    ASSUME RowsInv, OpenMonthly
    PROVE  TasksInv'
<1>1. PICK b, rows, got : b = mbuild /\ rows = MTableRows(mbuild) /\ got = MIdle.got
  OBVIOUS
<1>2. /\ mbuild' = [b EXCEPT !.pc = "table", !.rows = rows, !.got = got]
      /\ b.pc = "compute" /\ b.waiting = {} /\ mtable' = [NoMTable EXCEPT !.state = "torn"]
      /\ archive' = archive
  BY <1>1 DEF OpenMonthly, monthly
<1>3. /\ b = [f \in MFields |-> b[f]]
      /\ \A k \in b.models \ b.disturbed : b.got[k] = archive[k].files
  BY <1>1, <1>2 DEF RowsInv, MonthlyInv, MonthlyBuildInv, TasksInv
<1>4. /\ mbuild'.pc = "table" /\ mbuild'.models = b.models /\ mbuild'.rows = rows
      /\ mbuild'.disturbed = b.disturbed
  BY <1>2, <1>3 DEF MFields
<1>5. \A k \in b.models \ b.disturbed : ItsRows(k, archive[k].files, rows)
  BY <1>1, <1>3, TaskGivesItsRows
<1>6. mtable'.state = "torn"
  BY <1>2 DEF NoMTable
<1> QED
  BY <1>2, <1>4, <1>5, <1>6 DEF TasksInv, ItsRows

LEMMA TasksClose ==
    ASSUME RowsInv, CloseMonthly
    PROVE  TasksInv'
<1>1. PICK b : b = mbuild
  OBVIOUS
<1>2. /\ mbuild' = [b EXCEPT !.pc = "meta", !.rows = {}] /\ b.pc = "table"
      /\ mtable'.models = b.models /\ mtable'.disturbed = b.disturbed /\ mtable'.rows = b.rows
      /\ archive' = archive
  BY <1>1 DEF CloseMonthly, monthly
<1>3. /\ b = [f \in MFields |-> b[f]]
      /\ \A k \in b.models \ b.disturbed : ItsRows(k, archive[k].files, b.rows)
  BY <1>1, <1>2 DEF RowsInv, MonthlyInv, MonthlyBuildInv, TasksInv
<1>4. mbuild'.pc = "meta"
  BY <1>2, <1>3 DEF MFields
<1> QED
  BY <1>2, <1>3, <1>4 DEF TasksInv, ItsRows

LEMMA TasksInvNext ==
    ASSUME RowsInv, [TablesNext]_tablesVars
    PROVE  TasksInv'
<1>1. archive' = archive
  BY StartedGrows
<1>2. CASE UNCHANGED monthlyBuild
  <2>1. mbuild' = mbuild /\ mtable' = mtable
    BY <1>2 DEF monthlyBuild
  <2> QED
    BY <1>1, <2>1, TasksKept DEF RowsInv
<1>3. CASE NothingAggregated \/ KillMonthly \/ MonthlyTableFails \/ CloseMonthlyMeta
  <2>1. mbuild'.pc = "idle" /\ (mtable' = mtable \/ mtable'.state = "none")
    BY <1>3 DEF NothingAggregated, KillMonthly, MonthlyTableFails, CloseMonthlyMeta, MonthlyEnd,
                MIdle, NoMTable
  <2> QED
    BY <1>1, <2>1, TasksKept DEF RowsInv
<1>4. CASE OpenMonthlyMeta
  <2>1. mbuild'.pc = "metatext" /\ mtable' = mtable
    BY <1>4 DEF OpenMonthlyMeta, RowsInv, MonthlyInv, MonthlyBuildInv, MFields
  <2> QED
    BY <1>1, <2>1, TasksKept DEF RowsInv
<1>5. CASE StartMonthly
  BY <1>5, TasksStart
<1>6. CASE DoTask
  BY <1>6, TasksDone
<1>7. CASE LoseWorker
  BY <1>7, TasksLost
<1>8. CASE OpenMonthly
  BY <1>8, TasksOpen
<1>9. CASE CloseMonthly
  BY <1>9, TasksClose
<1> QED
  BY <1>2, <1>3, <1>4, <1>5, <1>6, <1>7, <1>8, <1>9
     DEF TablesNext, tablesVars, MonthlyNext, MonthlyStep

(* In whatever order dask does the tasks, and however often those of lost  *)
(* workers are done again, a model whose od550aer can be read and that     *)
(* nothing was writing is in the table with every total its files allow    *)
(* (build_monthly).                                                        *)
THEOREM EveryTask == TablesSpec => []EveryTaskIsInTheTable
<1>1. TablesInit => RowsInv
  BY MonthlyInvInit, TasksInvInit DEF RowsInv
<1>2. RowsInv /\ [TablesNext]_tablesVars => RowsInv'
  BY MonthlyInvNext, TasksInvNext DEF RowsInv
<1>3. RowsInv => EveryTaskIsInTheTable
  BY DEF RowsInv, TasksInv, ItsRows, EveryTaskIsInTheTable
<1> QED
  BY <1>1, <1>2, <1>3, PTL DEF TablesSpec
=============================================================================
