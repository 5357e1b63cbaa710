-------------------------- MODULE PpeAnalysis_proofs --------------------------
(***************************************************************************)
(* What an analysis session may rely on, proved for any number of          *)
(* sessions, array tasks, groups and months.                               *)
(***************************************************************************)
EXTENDS PpeAnalysis, SpexoneRegrid_proofs, WellFoundedInduction

-----------------------------------------------------------------------------
(* The inductive invariant. *)

Fields == {"pc", "n", "cached", "saw", "quiet", "todo", "opened", "models", "i", "target",
           "derived", "rows", "grids", "at", "from", "left", "used", "missing", "failed"}

Shape(r) == r = [f \in Fields |-> r[f]]

(* The pcs of a session that has the seasonal table. *)
Later == {"months", "read months", "report"}

(* A session that computes has seen no cache, one that reads tables has.   *)
CacheSeen(r) ==
    /\ r.saw \subseteq BOOLEAN
    /\ r.pc \in {"load2", "load3"} \/ r.target \/ r.derived => FALSE \in r.saw
    /\ r.pc \in {"read", "read seasonal"} => TRUE \in r.saw

Fine(m, x) == x.shared \/ x.cut \/ x.parts = Gridded(m)

(* Every month is missing, still to be read, or was read complete. *)
MonthsRead(r) ==
    /\ r.used = [m \in Months |-> r.used[m]]
    /\ \A m \in Months : r.used[m] # NoGrid => Fine(m, r.used[m])
    /\ r.pc = "read months" =>
          /\ r.left \subseteq Months /\ r.left # {}
          /\ \A m \in Months : m \in r.missing \/ m \in r.left \/ r.used[m] # NoGrid
    /\ r.pc = "report" /\ ~r.failed =>
          \A m \in Months : m \in r.missing \/ r.used[m] # NoGrid

TablesToWrite(r) ==
    /\ r.pc = "load4" => r.todo = TableOrder
    /\ r.pc \in {"open table", "close table"} => r.todo \in {TableOrder, <<"seasonal">>}

SessionInv(r) == Shape(r) /\ CacheSeen(r) /\ MonthsRead(r) /\ TablesToWrite(r)

SessionsInv ==
    /\ sess = [s \in Sessions |-> sess[s]]
    /\ \A s \in Sessions : SessionInv(sess[s])

-----------------------------------------------------------------------------
LEMMA IdleSession ==
    SessionInv(SIdle) /\ SessionInv(SIdle)' /\ SIdle.pc = "idle" /\ SIdle.saw = {}
<1>1. /\ Shape(SIdle) /\ SIdle.pc = "idle" /\ SIdle.saw = {} /\ SIdle.used = NothingRead
      /\ SIdle.target = FALSE /\ SIdle.derived = FALSE
  BY DEF SIdle, Shape, Fields
<1>2. CacheSeen(SIdle)
  BY <1>1 DEF CacheSeen, Later
<1>3. MonthsRead(SIdle) /\ MonthsRead(SIdle)'
  BY <1>1 DEF MonthsRead, NothingRead
<1> QED
  BY <1>1, <1>2, <1>3 DEF SessionInv, TablesToWrite

LEMMA SessionsInit == ASSUME AnalysisInit PROVE SessionsInv /\ NothingMissingSilently
<1>1. sess = [s \in Sessions |-> SIdle] /\ report = NoReport
  BY DEF AnalysisInit
<1>2. SessionsInv
  BY <1>1, IdleSession DEF SessionsInv
<1>3. report.n = 0
  BY <1>1 DEF NoReport
<1> QED
  BY <1>2, <1>3 DEF NothingMissingSilently

(* Session s may do anything but open or close a table, or end its month   *)
(* loop: what a step must show to be none of the tables' business.         *)
Aside(s) ==
    /\ sess' = [sess EXCEPT ![s] = sess'[s]]
    /\ sess'[s].pc # "close table"
    /\ sess'[s].pc = "open table" => sess'[s].todo = TableOrder
    /\ sess'[s].pc # "idle" => sess[s].pc # "idle" /\ sess'[s].n = sess[s].n
    /\ sess'[s].pc \notin Later \cup {"idle"} => sess[s].pc \notin Later \cup {"idle"}

LEMMA BecomeFacts ==
    ASSUME SessionsInv, NEW s \in Sessions, NEW r, sess' = [sess EXCEPT ![s] = r]
    PROVE  /\ sess'[s] = r
           /\ sess' = [sess EXCEPT ![s] = sess'[s]]
           /\ \A o \in Sessions \ {s} : sess'[o] = sess[o]
           /\ sess' = [o \in Sessions |-> sess'[o]]
           /\ SessionInv(sess[s])
<1>1. sess = [o \in Sessions |-> sess[o]] /\ SessionInv(sess[s])
  BY DEF SessionsInv
<1> QED
  BY <1>1

LEMMA StopAside ==
    ASSUME SessionsInv, NEW s \in Sessions, Stop(s), l2' = l2
    PROVE  Aside(s) /\ SessionInv(sess[s])'
<1>1. sess'[s] = SIdle /\ sess' = [sess EXCEPT ![s] = sess'[s]]
  BY DEF Stop, Become, SessionsInv
<1>2. SessionInv(SIdle)'
  BY IdleSession
<1> QED
  BY <1>1, <1>2, IdleSession DEF Aside, Later
-----------------------------------------------------------------------------
(* One lemma per step of a session that opens or closes no table. *)

LEMMA AsideStep ==
    ASSUME SessionsInv, NEW s \in Sessions, NEW STATE q, Become(s, q), l2' = l2,
           Shape(q), CacheSeen(q), q.n = sess[s].n, q.used = sess[s].used,
           sess[s].pc \notin Later \cup {"idle"},
           q.pc \notin {"close table", "read months", "report", "idle"},
           q.pc \in {"open table", "load4"} => q.todo = TableOrder
    PROVE  Aside(s) /\ SessionInv(sess[s])'
<1>1. sess'[s] = q /\ sess' = [sess EXCEPT ![s] = sess'[s]]
  BY DEF Become, SessionsInv
<1>2. Aside(s)
  BY <1>1 DEF Aside
<1>3. MonthsRead(sess[s])
  BY DEF SessionsInv, SessionInv
<1>4. sess'[s].used = sess[s].used /\ sess'[s].pc \notin {"read months", "report"}
  BY <1>1
<1>5. MonthsRead(sess[s])'
  BY <1>3, <1>4 DEF MonthsRead, Fine, Gridded
<1>6. CacheSeen(sess[s])' /\ Shape(sess[s])' /\ TablesToWrite(sess[s])'
  BY <1>1 DEF CacheSeen, Shape, TablesToWrite
<1> QED
  BY <1>2, <1>5, <1>6 DEF SessionInv

(* q is r but for what CacheSeen and MonthsRead do not look at. *)
Kept(r, q) ==
    /\ Shape(q) /\ q.n = r.n /\ q.used = r.used /\ q.saw = r.saw
    /\ q.target = r.target /\ q.derived = r.derived

LEMMA SawFacts ==
    ASSUME SessionsInv, NEW s \in Sessions
    PROVE  /\ Shape(sess[s]) /\ CacheSeen(sess[s]) /\ MonthsRead(sess[s])
           /\ Shape(Saw(s)) /\ Saw(s).pc = sess[s].pc /\ Saw(s).n = sess[s].n
           /\ Saw(s).used = sess[s].used /\ Saw(s).saw = sess[s].saw \cup {CacheHit(s)}
           /\ Saw(s).target = sess[s].target /\ Saw(s).derived = sess[s].derived
           /\ Saw(s).saw \subseteq BOOLEAN
<1>1. Shape(sess[s]) /\ CacheSeen(sess[s]) /\ MonthsRead(sess[s])
  BY DEF SessionsInv, SessionInv
<1>2. CacheHit(s) \in BOOLEAN
  BY DEF CacheHit
<1>3. PICK r, hit : r = sess[s] /\ hit = CacheHit(s) /\ hit \in BOOLEAN
  BY <1>2
<1> DEFINE q == [r EXCEPT !.saw = @ \cup {hit}]
<1>4. Saw(s) = q
  BY <1>3 DEF Saw
<1>5. Shape(r) /\ r.saw \subseteq BOOLEAN
  BY <1>1, <1>3 DEF CacheSeen
<1>6. /\ Shape(q) /\ q.pc = r.pc /\ q.n = r.n /\ q.used = r.used
      /\ q.saw = r.saw \cup {hit} /\ q.target = r.target /\ q.derived = r.derived
  BY <1>5 DEF Shape, Fields
<1> HIDE DEF q
<1> QED
  BY <1>1, <1>3, <1>4, <1>5, <1>6

LEMMA CellOneAside ==
    ASSUME SessionsInv, NEW s \in Sessions, CellOne(s), l2' = l2
    PROVE  Aside(s) /\ SessionInv(sess[s])'
<1>0. sess[s].pc = "cell1" /\ "cell1" \notin Later \cup {"idle"}
  BY DEF CellOne, Later
<1>1. PICK r : r = Saw(s)
  OBVIOUS
<1>2. CASE Stop(s)
  BY <1>2, StopAside
<1>3. ASSUME NEW q, Become(s, q), Kept(r, q), q.pc \in {"cell2", "open"}
      PROVE  Aside(s) /\ SessionInv(sess[s])'
  <2>1. CacheSeen(q)
    BY <1>0, <1>1, <1>3, SawFacts DEF Kept, CacheSeen, Later
  <2>2. q.n = sess[s].n /\ q.used = sess[s].used /\ Shape(q)
    BY <1>1, <1>3, SawFacts DEF Kept
  <2> QED
    BY <1>0, <1>3, <2>1, <2>2, AsideStep
<1>4. CASE Become(s, [Saw(s) EXCEPT !.pc = "cell2"])
  <2> DEFINE q == [r EXCEPT !.pc = "cell2"]
  <2>1. Kept(r, q) /\ q.pc = "cell2"
    BY <1>1, SawFacts DEF Shape, Fields, Kept
  <2>2. Become(s, q)
    BY <1>1, <1>4
  <2> HIDE DEF q
  <2> QED
    BY <1>3, <2>1, <2>2
<1>5. CASE Become(s, [Saw(s) EXCEPT !.pc = "open", !.todo = GroupOrder,
                             !.quiet = (ext = NoExtraction /\ ~halfway)])
  <2>1. PICK quiet : quiet = (ext = NoExtraction /\ ~halfway)
    OBVIOUS
  <2> DEFINE q == [r EXCEPT !.pc = "open", !.todo = GroupOrder, !.quiet = quiet]
  <2>2. Shape(r)
    BY <1>1, SawFacts
  <2>3. Kept(r, q) /\ q.pc = "open"
    BY <2>2 DEF Shape, Fields, Kept
  <2>4. Become(s, q)
    BY <1>1, <1>5, <2>1
  <2> HIDE DEF q
  <2> QED
    BY <1>3, <2>3, <2>4
<1> QED
  BY <1>2, <1>4, <1>5 DEF CellOne
(* The saw of the session has been kept or has got what it sees now. *)
LEMMA AsideKept ==
    ASSUME SessionsInv, NEW s \in Sessions, NEW STATE r, NEW STATE q, Become(s, q), l2' = l2,
           r \in {sess[s], Saw(s)}, Kept(r, q),
           sess[s].pc \notin Later \cup {"idle"},
           q.pc \notin Later \cup {"close table", "idle"},
           q.pc \in {"open table", "load4"} => q.todo = TableOrder,
           q.pc \in {"load2", "load3"} => FALSE \in q.saw,
           q.pc \in {"read", "read seasonal"} => TRUE \in q.saw
    PROVE  Aside(s) /\ SessionInv(sess[s])'
<1>1. /\ q.n = sess[s].n /\ q.used = sess[s].used /\ Shape(q)
      /\ q.saw \subseteq BOOLEAN /\ sess[s].saw \subseteq q.saw
      /\ q.target = sess[s].target /\ q.derived = sess[s].derived
  BY SawFacts DEF Kept, CacheSeen
<1>2. CacheSeen(sess[s])
  BY SawFacts
<1>3. CacheSeen(q)
  BY <1>1, <1>2 DEF CacheSeen
<1> QED
  BY <1>1, <1>3, AsideStep DEF Later

LEMMA OpenGroupAside ==
    ASSUME SessionsInv, NEW s \in Sessions, OpenGroup(s), l2' = l2
    PROVE  Aside(s) /\ SessionInv(sess[s])'
<1>1. PICK r, g, file : r = sess[s] /\ g = Head(r.todo) /\ file = groups[g]
  OBVIOUS
<1> DEFINE q == [r EXCEPT !.opened[g] = file, !.todo = Tail(r.todo)]
<1>2. Become(s, q) /\ r.pc = "open"
  BY <1>1 DEF OpenGroup
<1>3. Shape(r)
  BY <1>1, SawFacts
<1>4. Kept(r, q) /\ q.pc = r.pc
  BY <1>3 DEF Shape, Fields, Kept
<1> HIDE DEF q
<1> QED
  BY <1>1, <1>2, <1>4, AsideKept DEF Later

LEMMA SelectMembersAside ==
    ASSUME SessionsInv, NEW s \in Sessions, SelectMembers(s), l2' = l2
    PROVE  Aside(s) /\ SessionInv(sess[s])'
<1>1. CASE Stop(s)
  BY <1>1, StopAside
<1>2. CASE Become(s, [sess[s] EXCEPT !.pc = "cell2", !.models = sess[s].opened[Burden].members])
  <2>1. PICK r, models : r = sess[s] /\ models = r.opened[Burden].members
    OBVIOUS
  <2> DEFINE q == [r EXCEPT !.pc = "cell2", !.models = models]
  <2>2. Become(s, q)
    BY <1>2, <2>1
  <2>3. Shape(r)
    BY <2>1, SawFacts
  <2>4. Kept(r, q) /\ q.pc = "cell2"
    BY <2>3 DEF Shape, Fields, Kept
  <2> HIDE DEF q
  <2>5. sess[s].pc = "open"
    BY DEF SelectMembers
  <2> QED
    BY <2>1, <2>2, <2>4, <2>5, AsideKept DEF Later
<1> QED
  BY <1>1, <1>2 DEF SelectMembers

LEMMA CellTwoAside ==
    ASSUME SessionsInv, NEW s \in Sessions, CellTwo(s), l2' = l2
    PROVE  Aside(s) /\ SessionInv(sess[s])'
<1>1. PICK r, pc : /\ r = Saw(s)
                   /\ pc = IF CacheHit(s) \/ sess[s].models = <<>> THEN "cell3" ELSE "load2"
  OBVIOUS
<1> DEFINE q == [r EXCEPT !.i = 1, !.pc = pc]
<1>2. Become(s, q) /\ sess[s].pc = "cell2"
  BY <1>1 DEF CellTwo
<1>3. Shape(r) /\ CacheHit(s) \in r.saw
  BY <1>1, SawFacts
<1>4. Kept(r, q) /\ q.pc = pc
  BY <1>3 DEF Shape, Fields, Kept
<1> HIDE DEF q
<1>5. q.saw = r.saw
  BY <1>4 DEF Kept
<1>6. pc \in {"cell3", "load2"} /\ (pc = "load2" => ~CacheHit(s))
  BY <1>1
<1>7. CacheHit(s) \in BOOLEAN
  BY DEF CacheHit
<1>8. pc = "load2" => FALSE \in q.saw
  BY <1>3, <1>5, <1>6, <1>7
<1> QED
  BY <1>1, <1>2, <1>4, <1>6, <1>8, AsideKept DEF Later

LEMMA CellThreeAside ==
    ASSUME SessionsInv, NEW s \in Sessions, CellThree(s), l2' = l2
    PROVE  Aside(s) /\ SessionInv(sess[s])'
<1>1. PICK r, pc : /\ r = Saw(s)
                   /\ pc = IF CacheHit(s) \/ ~sess[s].target THEN "cell4" ELSE "load3"
  OBVIOUS
<1> DEFINE q == [r EXCEPT !.i = 1, !.pc = pc]
<1>2. Become(s, q) /\ sess[s].pc = "cell3"
  BY <1>1 DEF CellThree
<1>3. Shape(r) /\ CacheHit(s) \in r.saw
  BY <1>1, SawFacts
<1>4. Kept(r, q) /\ q.pc = pc
  BY <1>3 DEF Shape, Fields, Kept
<1> HIDE DEF q
<1>5. q.saw = r.saw
  BY <1>4 DEF Kept
<1>6. pc \in {"cell4", "load3"} /\ (pc = "load3" => ~CacheHit(s))
  BY <1>1
<1>7. CacheHit(s) \in BOOLEAN
  BY DEF CacheHit
<1>8. pc = "load3" => FALSE \in q.saw
  BY <1>3, <1>5, <1>6, <1>7
<1> QED
  BY <1>1, <1>2, <1>4, <1>6, <1>8, AsideKept DEF Later

LEMMA CellFourAside ==
    ASSUME SessionsInv, NEW s \in Sessions, CellFour(s), l2' = l2
    PROVE  Aside(s) /\ SessionInv(sess[s])'
<1>1. PICK r : r = Saw(s)
  OBVIOUS
<1>2. sess[s].pc = "cell4" /\ Shape(r) /\ CacheHit(s) \in r.saw
  BY <1>1, SawFacts DEF CellFour
<1>3. CASE CacheHit(s) /\ Become(s, [Saw(s) EXCEPT !.pc = "read"])
  <2> DEFINE q == [r EXCEPT !.pc = "read"]
  <2>1. Become(s, q)
    BY <1>1, <1>3
  <2>2. Kept(r, q) /\ q.pc = "read"
    BY <1>2 DEF Shape, Fields, Kept
  <2> HIDE DEF q
  <2>3. q.saw = r.saw
    BY <2>2 DEF Kept
  <2>4. TRUE \in q.saw
    BY <1>2, <1>3, <2>3
  <2> QED
    BY <1>1, <1>2, <2>1, <2>2, <2>4, AsideKept DEF Later
<1>4. CASE Stop(s)
  BY <1>4, StopAside
<1>5. CASE Become(s, [Saw(s) EXCEPT !.i = 1, !.todo = TableOrder,
                          !.pc = IF sess[s].derived THEN "load4" ELSE "open table"])
  <2>1. PICK pc : pc = IF sess[s].derived THEN "load4" ELSE "open table"
    OBVIOUS
  <2> DEFINE q == [r EXCEPT !.i = 1, !.todo = TableOrder, !.pc = pc]
  <2>2. Become(s, q)
    BY <1>1, <1>5, <2>1
  <2>3. Kept(r, q) /\ q.pc = pc /\ q.todo = TableOrder
    BY <1>2 DEF Shape, Fields, Kept
  <2> HIDE DEF q
  <2>4. pc \in {"load4", "open table"}
    BY <2>1
  <2> QED
    BY <1>1, <1>2, <2>2, <2>3, <2>4, AsideKept DEF Later
<1> QED
  BY <1>3, <1>4, <1>5 DEF CellFour
(* One member's values: the session stays in its cell, goes on to the next *)
(* one or ends.                                                            *)
LEMMA LoadAside ==
    ASSUME SessionsInv, NEW s \in Sessions, NEW cell \in 2 .. 4, Load(s, cell), l2' = l2,
           cell = 2 => sess[s].pc = "load2", cell = 3 => sess[s].pc = "load3",
           cell = 4 => sess[s].pc = "load4"
    PROVE  Aside(s) /\ SessionInv(sess[s])'
<1> DEFINE R    == sess[s]
           M    == R.models[R.i]
           Here == {g \in Groups : CellOf[g] = cell /\ R.opened[g].fit}
           Old  == IF M \in DOMAIN R.rows THEN R.rows[M] ELSE NoValues
           Got  == [g \in Groups |->
                      IF g \in Here /\ Readable(R, g, M) THEN Value(R, g, M) ELSE Old[g]]
           Rows == [k \in {M} \cup DOMAIN R.rows |-> IF k = M THEN Got ELSE R.rows[k]]
           More == [R EXCEPT !.rows = Rows, !.i = @ + 1]
           Two   == [More EXCEPT !.pc = "cell3",
                               !.target = \A g \in NeededGroups : R.opened[g].fit]
           Three == [More EXCEPT !.pc = "cell4", !.derived = TRUE]
           Four  == [More EXCEPT !.pc = "open table"]
<1>1. \/ Stop(s) \/ Become(s, More)
      \/ cell = 2 /\ Become(s, Two)
      \/ cell = 3 /\ Become(s, Three)
      \/ cell = 4 /\ Become(s, Four)
  <2> DEFINE Last == CASE cell = 2 -> Two [] cell = 3 -> Three [] cell = 4 -> Four
  <2>1. Stop(s) \/ Become(s, More) \/ Become(s, Last)
    BY DEF Load
  <2> HIDE DEF Two, Three, Four, More
  <2>2. \/ cell = 2 /\ Last = Two
        \/ cell = 3 /\ Last = Three
        \/ cell = 4 /\ Last = Four
    OBVIOUS
  <2> QED
    BY <2>1, <2>2
<1>2. PICK r, rows, target : /\ r = R /\ rows = Rows
                             /\ target = \A g \in NeededGroups : R.opened[g].fit
  OBVIOUS
<1> DEFINE more == [r EXCEPT !.rows = rows, !.i = @ + 1]
<1>3. More = more
  BY <1>2
<1>4. Shape(r) /\ CacheSeen(r) /\ TablesToWrite(r)
  BY <1>2 DEF SessionsInv, SessionInv
<1>5. Kept(r, more) /\ more.pc = r.pc /\ more.todo = r.todo
  BY <1>4 DEF Shape, Fields, Kept
<1> HIDE DEF more
<1>6. r.pc \in {"load2", "load3", "load4"} /\ (r.pc = "load4" => r.todo = TableOrder)
  <2>1. cell = 2 \/ cell = 3 \/ cell = 4
    OBVIOUS
  <2>2. cell = 2 => r.pc = "load2"
    BY <1>2
  <2>3. cell = 3 => r.pc = "load3"
    BY <1>2
  <2>4. cell = 4 => r.pc = "load4"
    BY <1>2
  <2> QED
    BY <1>4, <2>1, <2>2, <2>3, <2>4 DEF TablesToWrite
<1>7. CASE Stop(s)
  BY <1>7, StopAside
<1>8. CASE Become(s, More)
  <2>1. Become(s, more)
    BY <1>3, <1>8
  <2>2. more.saw = r.saw /\ CacheSeen(r)
    BY <1>4, <1>5 DEF Kept
  <2> QED
    BY <1>2, <1>5, <1>6, <2>1, <2>2, AsideKept DEF Later, CacheSeen
<1> HIDE DEF Two, Three, Four, More
<1>9. CASE cell = 2 /\ Become(s, Two)
  <2> DEFINE q == [more EXCEPT !.pc = "cell3", !.target = target]
  <2>1. Become(s, q)
    BY <1>2, <1>3, <1>9 DEF Two
  <2>2. /\ Shape(q) /\ q.n = more.n /\ q.used = more.used /\ q.saw = more.saw
        /\ q.derived = more.derived /\ q.pc = "cell3"
    BY <1>5 DEF Shape, Fields, Kept
  <2> HIDE DEF q
  <2>3. FALSE \in r.saw /\ r.pc = "load2"
    BY <1>2, <1>4, <1>9 DEF CacheSeen
  <2>4. CacheSeen(q)
    BY <1>4, <1>5, <2>2, <2>3 DEF Kept, CacheSeen, Later
  <2>5. q.n = R.n /\ q.used = R.used
    BY <1>2, <1>5, <2>2 DEF Kept
  <2> QED
    BY <1>2, <2>1, <2>2, <2>3, <2>4, <2>5, AsideStep DEF Later
<1>10. CASE cell = 3 /\ Become(s, Three)
  <2> DEFINE q == [more EXCEPT !.pc = "cell4", !.derived = TRUE]
  <2>1. Become(s, q)
    BY <1>3, <1>10 DEF Three
  <2>2. /\ Shape(q) /\ q.n = more.n /\ q.used = more.used /\ q.saw = more.saw
        /\ q.target = more.target /\ q.pc = "cell4"
    BY <1>5 DEF Shape, Fields, Kept
  <2> HIDE DEF q
  <2>3. FALSE \in r.saw /\ r.pc = "load3"
    BY <1>2, <1>4, <1>10 DEF CacheSeen
  <2>4. CacheSeen(q)
    BY <1>4, <1>5, <2>2, <2>3 DEF Kept, CacheSeen, Later
  <2>5. q.n = R.n /\ q.used = R.used
    BY <1>2, <1>5, <2>2 DEF Kept
  <2> QED
    BY <1>2, <2>1, <2>2, <2>3, <2>4, <2>5, AsideStep DEF Later
<1>11. CASE cell = 4 /\ Become(s, Four)
  <2> DEFINE q == [more EXCEPT !.pc = "open table"]
  <2>1. Become(s, q)
    BY <1>3, <1>11 DEF Four
  <2>2. Kept(more, q) /\ q.pc = "open table" /\ q.todo = more.todo
    BY <1>5 DEF Shape, Fields, Kept
  <2> HIDE DEF q
  <2>3. Kept(r, q)
    BY <1>5, <2>2 DEF Kept
  <2>4. q.todo = TableOrder /\ r.pc = "load4"
    BY <1>2, <1>5, <1>6, <1>11, <2>2
  <2> QED
    BY <1>2, <2>1, <2>2, <2>3, <2>4, AsideKept DEF Later
<1> QED
  BY <1>1, <1>7, <1>8, <1>9, <1>10, <1>11

LEMMA ComputeAside ==
    ASSUME SessionsInv, NEW s \in Sessions, Compute(s), l2' = l2
    PROVE  Aside(s) /\ SessionInv(sess[s])'
<1>1. CASE sess[s].pc = "load2" /\ Load(s, 2)
  BY <1>1, LoadAside
<1>2. CASE sess[s].pc = "load3" /\ Load(s, 3)
  BY <1>2, LoadAside
<1>3. CASE sess[s].pc = "load4" /\ Load(s, 4)
  BY <1>3, LoadAside
<1> QED
  BY <1>1, <1>2, <1>3 DEF Compute
LEMMA ReadMonthlyAside ==
    ASSUME SessionsInv, NEW s \in Sessions, ReadMonthly(s), l2' = l2
    PROVE  Aside(s) /\ SessionInv(sess[s])'
<1>1. CASE Stop(s)
  BY <1>1, StopAside
<1>2. CASE Become(s, [sess[s] EXCEPT !.pc = "read seasonal"])
  <2>1. PICK r : r = sess[s]
    OBVIOUS
  <2> DEFINE q == [r EXCEPT !.pc = "read seasonal"]
  <2>2. Become(s, q) /\ r.pc = "read"
    BY <1>2, <2>1 DEF ReadMonthly
  <2>3. Shape(r) /\ CacheSeen(r)
    BY <2>1, SawFacts
  <2>4. Kept(r, q) /\ q.pc = "read seasonal"
    BY <2>3 DEF Shape, Fields, Kept
  <2> HIDE DEF q
  <2>5. TRUE \in q.saw
    BY <2>2, <2>3, <2>4 DEF Kept, CacheSeen
  <2> QED
    BY <2>1, <2>2, <2>4, <2>5, AsideKept DEF Later
<1> QED
  BY <1>1, <1>2 DEF ReadMonthly

LEMMA ReadSeasonalAside ==
    ASSUME SessionsInv, NEW s \in Sessions, ReadSeasonal(s), l2' = l2
    PROVE  Aside(s) /\ SessionInv(sess[s])'
<1> DEFINE f == table["seasonal"]
<1>1. CASE Stop(s)
  BY <1>1, StopAside
<1>2. CASE Become(s, [sess[s] EXCEPT !.pc = "months", !.opened = NoValues, !.todo = <<>>,
                                     !.grids = sess[s].rows, !.rows = f.rows, !.from = f.n,
                                     !.quiet = @ /\ f.quiet])
  <2>1. PICK r, rows, n, quiet : /\ r = sess[s] /\ rows = f.rows /\ n = f.n
                                 /\ quiet = (r.quiet /\ f.quiet)
    OBVIOUS
  <2> DEFINE q == [r EXCEPT !.pc = "months", !.opened = NoValues, !.todo = <<>>,
                            !.grids = r.rows, !.rows = rows, !.from = n, !.quiet = quiet]
  <2>2. Become(s, q) /\ r.pc = "read seasonal"
    BY <1>2, <2>1 DEF ReadSeasonal
  <2>3. Shape(r) /\ CacheSeen(r)
    BY <2>1, SawFacts
  <2>4. Kept(r, q) /\ q.pc = "months"
    BY <2>3 DEF Shape, Fields, Kept
  <2> HIDE DEF q
  <2>5. TRUE \in q.saw /\ q.n = sess[s].n /\ q.used = sess[s].used /\ Shape(q) /\ CacheSeen(q)
    BY <2>1, <2>2, <2>3, <2>4 DEF Kept, CacheSeen, Later
  <2> QED
    BY <2>1, <2>2, <2>4, <2>5, AsideStep DEF Later
<1> QED
  BY <1>1, <1>2 DEF ReadSeasonal

-----------------------------------------------------------------------------
(* The satellite. *)

LEMMA MonthsStep ==
    ASSUME SessionsInv, NEW s \in Sessions, NEW STATE q, Become(s, q), l2' = l2,
           Shape(q), q.n = sess[s].n, q.from = sess[s].from, q.saw = sess[s].saw,
           q.target = sess[s].target, q.derived = sess[s].derived,
           sess[s].pc \in Later, q.pc \in Later, MonthsRead(q)
    PROVE  Aside(s) /\ SessionInv(sess[s])'
<1>1. sess'[s] = q /\ sess' = [sess EXCEPT ![s] = sess'[s]]
  BY DEF Become, SessionsInv
<1>2. Aside(s)
  BY <1>1 DEF Aside, Later
<1>3. CacheSeen(sess[s])
  BY SawFacts
<1>4. CacheSeen(q)
  BY <1>3 DEF CacheSeen, Later
<1>5. MonthsRead(sess[s])'
  BY <1>1 DEF MonthsRead, Fine, Gridded
<1>6. CacheSeen(sess[s])' /\ Shape(sess[s])' /\ TablesToWrite(sess[s])'
  BY <1>1, <1>4 DEF CacheSeen, Shape, TablesToWrite, Later
<1> QED
  BY <1>2, <1>5, <1>6 DEF SessionInv

LEMMA LookForMonthsAside ==
    ASSUME SessionsInv, NEW s \in Sessions, LookForMonths(s), l2' = l2
    PROVE  Aside(s) /\ SessionInv(sess[s])'
<1>1. PICK r, found, pc :
         /\ r = sess[s] /\ found = {m \in Months : grid[m] # NoGrid}
         /\ pc = IF found = {} THEN "report" ELSE "read months"
  OBVIOUS
<1>2. PICK failed \in BOOLEAN : failed = (found = {})
  OBVIOUS
<1> DEFINE q == [r EXCEPT !.left = found, !.failed = failed, !.missing = Listed(found), !.pc = pc]
<1>3. Become(s, q) /\ r.pc = "months"
  BY <1>1, <1>2 DEF LookForMonths
<1>4. Shape(r) /\ MonthsRead(r)
  BY <1>1, SawFacts
<1>5. /\ Shape(q) /\ q.n = r.n /\ q.from = r.from /\ q.saw = r.saw /\ q.target = r.target
      /\ q.derived = r.derived /\ q.used = r.used /\ q.left = found /\ q.failed = failed
      /\ q.missing = Listed(found) /\ q.pc = pc
  BY <1>4 DEF Shape, Fields
<1> HIDE DEF q
<1>6. MonthsRead(q)
  BY <1>1, <1>2, <1>4, <1>5 DEF MonthsRead, Listed
<1> QED
  BY <1>1, <1>3, <1>5, <1>6, MonthsStep DEF Later

LEMMA FirstIsLeft ==
    ASSUME NEW left \in SUBSET Months, left # {}
    PROVE  First(left) \in left
<1> DEFINE at == {i \in DOMAIN MonthOrder : MonthOrder[i] \in left}
<1>1. at \subseteq Nat /\ at # {}
  BY AnalysisAssumption
<1>2. PICK i \in at : \A k \in at : ~(<<k, i>> \in OpToRel(<, Nat))
  BY <1>1, NatLessThanWellFounded, WFMin
<1> HIDE DEF at
<1>3. \A k \in at : ~(k < i)
  BY <1>1, <1>2 DEF OpToRel
<1>4. \A k \in at : i <= k
  BY <1>1, <1>3
<1>5. (CHOOSE x \in at : \A k \in at : x <= k) \in at
  BY <1>4
<1> QED
  BY <1>5 DEF First, at

LEMMA ReadMonthAside ==
    ASSUME SessionsInv, ReadableMonthIsComplete, NEW s \in Sessions, ReadMonth(s), l2' = l2
    PROVE  Aside(s) /\ SessionInv(sess[s])'
<1>1. PICK r, m, x : r = sess[s] /\ m = First(r.left) /\ x = grid[m]
  OBVIOUS
<1>2. Shape(r) /\ MonthsRead(r) /\ r.pc = "read months"
  BY <1>1, SawFacts DEF ReadMonth
<1>3. r.left \subseteq Months /\ m \in r.left /\ m \in Months
  BY <1>1, <1>2, FirstIsLeft DEF MonthsRead
<1>4. CASE Become(s, [r EXCEPT !.pc = "report", !.failed = TRUE, !.left = {},
                               !.used = NothingRead])
  <2> DEFINE q == [r EXCEPT !.pc = "report", !.failed = TRUE, !.left = {},
                            !.used = NothingRead]
  <2>1. /\ Shape(q) /\ q.n = r.n /\ q.from = r.from /\ q.saw = r.saw /\ q.target = r.target
        /\ q.derived = r.derived /\ q.used = NothingRead /\ q.failed = TRUE /\ q.pc = "report"
    BY <1>2 DEF Shape, Fields
  <2>2. Become(s, q)
    BY <1>4
  <2> HIDE DEF q
  <2>3. MonthsRead(q)
    BY <2>1 DEF MonthsRead, NothingRead
  <2> QED
    BY <1>1, <1>2, <2>1, <2>2, <2>3, MonthsStep DEF Later
<1>5. CASE /\ x # NoGrid /\ x.whole
           /\ Become(s, [r EXCEPT !.left = @ \ {m}, !.used[m] = x,
                                  !.pc = IF r.left = {m} THEN "report" ELSE @])
  <2>1. PICK pc, used : /\ pc = IF r.left = {m} THEN "report" ELSE r.pc
                        /\ used = [r.used EXCEPT ![m] = x]
    OBVIOUS
  <2> DEFINE q == [r EXCEPT !.left = @ \ {m}, !.used = used, !.pc = pc]
  <2>2. /\ Shape(q) /\ q.n = r.n /\ q.from = r.from /\ q.saw = r.saw /\ q.target = r.target
        /\ q.derived = r.derived /\ q.used = used /\ q.failed = r.failed /\ q.pc = pc
        /\ q.left = r.left \ {m} /\ q.missing = r.missing
    BY <1>2 DEF Shape, Fields
  <2>3. Become(s, q)
    BY <1>5, <2>1
  <2> HIDE DEF q
  <2>4. Fine(m, x)
    BY <1>1, <1>3, <1>5 DEF ReadableMonthIsComplete, Fine
  <2>5. pc \in {"report", "read months"} /\ (pc = "report" <=> r.left = {m})
    BY <1>2, <2>1
  <2>6. /\ used = [k \in Months |-> used[k]] /\ used[m] = x
        /\ \A k \in Months \ {m} : used[k] = r.used[k]
    BY <1>2, <1>3, <2>1 DEF MonthsRead
  <2>7. \A k \in Months : used[k] # NoGrid => Fine(k, used[k])
    BY <1>2, <2>4, <2>6 DEF MonthsRead
  <2>8. \A k \in Months : k \in r.missing \/ k \in r.left \ {m} \/ used[k] # NoGrid
    BY <1>2, <1>5, <2>6 DEF MonthsRead
  <2>9. MonthsRead(q)
    BY <1>3, <2>2, <2>5, <2>6, <2>7, <2>8 DEF MonthsRead
  <2> QED
    BY <1>1, <1>2, <2>2, <2>3, <2>5, <2>9, MonthsStep DEF Later
<1>6. Become(s, IF x = NoGrid \/ ~x.whole
                 THEN [r EXCEPT !.pc = "report", !.failed = TRUE, !.left = {},
                                !.used = NothingRead]
                 ELSE [r EXCEPT !.left = @ \ {m}, !.used[m] = x,
                                !.pc = IF r.left = {m} THEN "report" ELSE @])
  BY <1>1 DEF ReadMonth
<1> QED
  BY <1>4, <1>5, <1>6

LEMMA WriteReportAside ==
    ASSUME SessionsInv, NEW s \in Sessions, WriteReport(s), l2' = l2
    PROVE  Aside(s) /\ SessionInv(sess[s])' /\ NothingMissingSilently'
<1>1. Aside(s) /\ SessionInv(sess[s])'
  BY StopAside DEF WriteReport
<1>2. PICK r : r = sess[s]
  OBVIOUS
<1>3. /\ report'.failed = r.failed /\ report'.missing = r.missing /\ report'.used = r.used
  BY <1>2 DEF WriteReport
<1>4. CacheSeen(r) /\ MonthsRead(r) /\ r.pc = "report"
  BY <1>2, SawFacts DEF WriteReport
<1>5. NothingMissingSilently'
  <2> SUFFICES ASSUME ~r.failed, NEW m \in Months, m \notin r.missing
               PROVE  r.used[m] # NoGrid /\ Fine(m, r.used[m])
    BY <1>3 DEF NothingMissingSilently, Fine, Gridded
  <2> QED
    BY <1>4 DEF MonthsRead
<1> QED
  BY <1>1, <1>5

(* All steps of a session but those that open, close or lose a table. *)
LEMMA SessionAside ==
    ASSUME SessionsInv, NothingMissingSilently, ReadableMonthIsComplete, NEW s \in Sessions, l2' = l2,
           SessionStep(s) \/ KillSession(s)
    PROVE  \/ Aside(s) /\ SessionInv(sess[s])' /\ NothingMissingSilently' /\ UNCHANGED tables
           \/ OpenTable(s) \/ CloseTable(s) \/ TableFails(s)
<1>1. report' = report => NothingMissingSilently'
  BY DEF NothingMissingSilently, Gridded
<1>2. CASE CellOne(s)
  BY <1>1, <1>2, CellOneAside DEF CellOne
<1>3. CASE OpenGroup(s)
  BY <1>1, <1>3, OpenGroupAside DEF OpenGroup
<1>4. CASE SelectMembers(s)
  BY <1>1, <1>4, SelectMembersAside DEF SelectMembers
<1>5. CASE CellTwo(s)
  BY <1>1, <1>5, CellTwoAside DEF CellTwo
<1>6. CASE CellThree(s)
  BY <1>1, <1>6, CellThreeAside DEF CellThree
<1>7. CASE CellFour(s)
  BY <1>1, <1>7, CellFourAside DEF CellFour
<1>8. CASE Compute(s)
  BY <1>1, <1>8, ComputeAside DEF Compute
<1>9. CASE ReadMonthly(s)
  BY <1>1, <1>9, ReadMonthlyAside DEF ReadMonthly
<1>10. CASE ReadSeasonal(s)
  BY <1>1, <1>10, ReadSeasonalAside DEF ReadSeasonal
<1>11. CASE LookForMonths(s)
  BY <1>1, <1>11, LookForMonthsAside DEF LookForMonths
<1>12. CASE ReadMonth(s)
  BY <1>1, <1>12, ReadMonthAside DEF ReadMonth
<1>13. CASE WriteReport(s)
  BY <1>13, WriteReportAside DEF WriteReport
<1>14. CASE KillSession(s)
  BY <1>1, <1>14, StopAside DEF KillSession
<1> QED
  BY <1>2, <1>3, <1>4, <1>5, <1>6, <1>7, <1>8, <1>9, <1>10, <1>11, <1>12, <1>13, <1>14
     DEF SessionStep

-----------------------------------------------------------------------------
(* The steps that open, close or lose a table. *)

TheTables == {"monthly", "seasonal"}

LEMMA StartFacts ==
    ASSUME SessionsInv, NEW s \in Sessions, StartSession(s), l2' = l2
    PROVE  /\ sess' = [sess EXCEPT ![s] = sess'[s]] /\ SessionInv(sess[s])'
           /\ sess'[s].pc = "cell1" /\ sess'[s].n = started'
<1>1. PICK cached : Become(s, [SIdle EXCEPT !.pc = "cell1", !.n = started', !.cached = cached])
  BY DEF StartSession
<1>2. PICK n : n = started'
  OBVIOUS
<1>3. PICK r : r = SIdle
  OBVIOUS
<1> DEFINE q == [r EXCEPT !.pc = "cell1", !.n = n, !.cached = cached]
<1>4. Become(s, q)
  BY <1>1, <1>2, <1>3
<1>5. Shape(r) /\ r.saw = {} /\ r.used = NothingRead /\ ~r.target /\ ~r.derived
  BY <1>3, IdleSession DEF SIdle, SessionInv
<1>6. /\ Shape(q) /\ q.pc = "cell1" /\ q.n = n /\ q.saw = {} /\ q.used = NothingRead
      /\ q.target = r.target /\ q.derived = r.derived
  BY <1>5 DEF Shape, Fields
<1> HIDE DEF q
<1>7. sess'[s] = q /\ sess' = [sess EXCEPT ![s] = sess'[s]]
  BY <1>4 DEF Become, SessionsInv
<1>8. CacheSeen(sess[s])' /\ Shape(sess[s])' /\ TablesToWrite(sess[s])'
  BY <1>5, <1>6, <1>7 DEF CacheSeen, Shape, TablesToWrite, Later
<1>9. MonthsRead(sess[s])'
  BY <1>6, <1>7 DEF MonthsRead, NothingRead
<1> QED
  BY <1>2, <1>6, <1>7, <1>8, <1>9 DEF SessionInv

(* q is r but for rows, at, quiet and the like. *)
Alike(r, q) ==
    /\ Kept(r, q) /\ q.pc = r.pc /\ q.todo = r.todo /\ q.from = r.from
    /\ q.missing = r.missing /\ q.left = r.left /\ q.failed = r.failed

LEMMA SessionAlike ==
    ASSUME SessionsInv, NEW o \in Sessions, Alike(sess[o], sess'[o]), l2' = l2
    PROVE  SessionInv(sess[o])'
<1>1. SessionInv(sess[o])
  BY DEF SessionsInv
<1>2. /\ sess'[o].pc = sess[o].pc /\ sess'[o].todo = sess[o].todo
      /\ sess'[o].from = sess[o].from /\ sess'[o].missing = sess[o].missing
      /\ sess'[o].left = sess[o].left /\ sess'[o].failed = sess[o].failed
      /\ sess'[o].n = sess[o].n /\ sess'[o].used = sess[o].used
      /\ sess'[o].saw = sess[o].saw /\ sess'[o].target = sess[o].target
      /\ sess'[o].derived = sess[o].derived /\ Shape(sess'[o])
  BY DEF Alike, Kept
<1>3. CacheSeen(sess[o])' /\ TablesToWrite(sess[o])' /\ Shape(sess[o])'
  BY <1>1, <1>2 DEF SessionInv, CacheSeen, TablesToWrite, Shape
<1>4. MonthsRead(sess[o])'
  BY <1>1, <1>2 DEF SessionInv, MonthsRead, Fine, Gridded
<1> QED
  BY <1>3, <1>4 DEF SessionInv

LEMMA TabledFacts ==
    ASSUME SessionsInv, NEW s \in Sessions
    PROVE  Alike(sess[s], Tabled(sess[s]))
<1>1. PICK r : r = sess[s]
  OBVIOUS
<1>2. Shape(r)
  BY <1>1, SawFacts
<1> DEFINE q == [r EXCEPT !.rows = NoRows]
<1>3. Alike(r, q)
  BY <1>2 DEF Shape, Fields, Kept, Alike
<1>4. Alike(r, r)
  BY <1>2 DEF Kept, Alike
<1>5. Tabled(sess[s]) = r \/ Tabled(sess[s]) = q
  BY <1>1 DEF Tabled
<1> HIDE DEF q
<1> QED
  BY <1>1, <1>3, <1>4, <1>5

LEMMA OpenFacts ==
    ASSUME SessionsInv, NEW s \in Sessions, OpenTable(s), l2' = l2
    PROVE  /\ sess' = [sess EXCEPT ![s] = sess'[s]] /\ SessionInv(sess[s])'
           /\ sess[s].pc = "open table" /\ sess[s].todo \in {TableOrder, <<"seasonal">>}
           /\ sess'[s].pc = "close table"
           /\ sess'[s].n = sess[s].n /\ sess'[s].todo = sess[s].todo
           /\ \E f : table' = [table EXCEPT ![Head(sess[s].todo)] = f] /\ f.n = sess[s].n
           /\ \A o \in Sessions \ {s} : Writing(o) => {sess[s].n, sess[o].n} \subseteq crossed'
           /\ crossed \subseteq crossed' /\ complete' = complete
<1>1. PICK r : r = Tabled(sess[s])
  OBVIOUS
<1>2. /\ Kept(sess[s], r) /\ r.pc = sess[s].pc /\ r.todo = sess[s].todo
      /\ CacheSeen(sess[s]) /\ MonthsRead(sess[s])
  BY <1>1, TabledFacts, SawFacts DEF Alike
<1>3. r.pc = "open table" /\ sess[s].todo \in {TableOrder, <<"seasonal">>}
  BY <1>1, <1>2 DEF OpenTable, SessionsInv, SessionInv, TablesToWrite
<1> DEFINE q == [r EXCEPT !.pc = "close table", !.at = "path"]
<1>4. Become(s, q)
  BY <1>1 DEF OpenTable
<1>5. Kept(r, q) /\ q.pc = "close table" /\ q.todo = r.todo
  BY <1>2 DEF Shape, Fields, Kept
<1> HIDE DEF q
<1>6. sess'[s] = q /\ sess' = [sess EXCEPT ![s] = sess'[s]]
  BY <1>4 DEF Become, SessionsInv
<1>7. Kept(sess[s], q)
  BY <1>2, <1>5 DEF Kept
<1>8. CacheSeen(q)
  BY <1>2, <1>3, <1>5, <1>7 DEF Kept, CacheSeen, Later
<1>9. MonthsRead(sess[s])'
  <2>1. sess'[s].used = sess[s].used /\ sess'[s].pc = "close table"
    BY <1>5, <1>6, <1>7 DEF Kept
  <2> QED
    BY <1>2, <2>1 DEF MonthsRead, Fine, Gridded
<1>10. SessionInv(sess[s])'
  <2>1. CacheSeen(sess[s])'
    BY <1>6, <1>8 DEF CacheSeen
  <2>2. TablesToWrite(sess[s])' /\ Shape(sess[s])'
    BY <1>2, <1>3, <1>5, <1>6 DEF TablesToWrite, Kept, Shape
  <2> QED
    BY <1>9, <2>1, <2>2 DEF SessionInv
<1>11. \E f : table' = [table EXCEPT ![Head(sess[s].todo)] = f] /\ f.n = sess[s].n
  <2> DEFINE f == Table("torn", r, Holders(Head(r.todo)) # {})
  <2>1. table' = [table EXCEPT ![Head(sess[s].todo)] = f]
    BY <1>1, <1>2 DEF OpenTable
  <2>2. f.n = sess[s].n
    BY <1>2 DEF Table, Kept
  <2> QED
    BY <2>1, <2>2
<1>12. /\ \A o \in Sessions \ {s} : Writing(o) => {sess[s].n, sess[o].n} \subseteq crossed'
       /\ crossed \subseteq crossed' /\ complete' = complete
  <2> DEFINE others == {o \in Sessions \ {s} : Writing(o)}
  <2>1. /\ complete' = complete
        /\ crossed' = IF others = {} THEN crossed
                      ELSE crossed \cup {r.n} \cup {sess[o].n : o \in others}
    BY <1>1 DEF OpenTable
  <2>2. r.n = sess[s].n
    BY <1>2 DEF Kept
  <2> QED
    BY <2>1, <2>2
<1> QED
  BY <1>2, <1>3, <1>5, <1>6, <1>7, <1>10, <1>11, <1>12 DEF Kept

LEMMA CloseFacts ==
    ASSUME SessionsInv, NEW s \in Sessions, CloseTable(s), l2' = l2
    PROVE  /\ sess' = [sess EXCEPT ![s] = sess'[s]] /\ SessionInv(sess[s])'
           /\ sess[s].pc = "close table"
           /\ \/ table' = table
              \/ \E f : table' = [table EXCEPT ![Head(sess[s].todo)] = f] /\ f.n = sess[s].n
           /\ crossed' = crossed
           /\ \/ /\ sess[s].todo = TableOrder /\ complete' = complete
                 /\ sess'[s].pc = "open table" /\ sess'[s].todo = <<"seasonal">>
                 /\ sess'[s].n = sess[s].n
              \/ /\ sess[s].todo = <<"seasonal">> /\ complete' = complete \cup {sess[s].n}
                 /\ sess'[s].pc \in {"months", "idle"}
                 /\ sess'[s].pc = "months" => sess'[s].n = sess[s].n
<1>1. PICK r : r = sess[s]
  OBVIOUS
<1>2. /\ Kept(sess[s], r) /\ r.pc = sess[s].pc /\ r.todo = sess[s].todo
      /\ CacheSeen(sess[s]) /\ MonthsRead(sess[s])
  BY <1>1, SawFacts DEF Kept
<1>3. sess[s].pc = "close table" /\ crossed' = crossed
  BY <1>1, <1>2 DEF CloseTable
<1>4. sess[s].todo \in {TableOrder, <<"seasonal">>}
  BY <1>3 DEF SessionsInv, SessionInv, TablesToWrite
<1>5. \/ table' = table
      \/ \E f : table' = [table EXCEPT ![Head(sess[s].todo)] = f] /\ f.n = sess[s].n
  <2> DEFINE t == Head(r.todo)
  <2>1. CASE r.at # "path"
    BY <1>1, <2>1 DEF CloseTable
  <2>2. CASE r.at = "path"
    <3>1. PICK state : table' = [table EXCEPT ![t] = Table(state, r, @.shared)]
      BY <1>1, <2>2 DEF CloseTable
    <3>2. PICK shared : shared = table[t].shared
      OBVIOUS
    <3> DEFINE f == Table(state, r, shared)
    <3>3. table' = [table EXCEPT ![Head(sess[s].todo)] = f]
      BY <1>2, <3>1, <3>2
    <3>4. f.n = sess[s].n
      BY <1>2 DEF Table, Kept
    <3> QED
      BY <3>3, <3>4
  <2> QED
    BY <2>1, <2>2
<1>6. CASE sess[s].todo = TableOrder
  <2>1. Tail(r.todo) = <<"seasonal">> /\ Tail(r.todo) # <<>>
    BY <1>2, <1>6 DEF TableOrder
  <2> DEFINE q == [r EXCEPT !.pc = "open table", !.at = "none", !.todo = Tail(@)]
  <2>2. Become(s, q) /\ complete' = complete
    BY <1>1, <2>1 DEF CloseTable
  <2>3. Kept(r, q) /\ q.pc = "open table" /\ q.todo = Tail(r.todo)
    BY <1>2 DEF Shape, Fields, Kept
  <2> HIDE DEF q
  <2>4. sess'[s] = q /\ sess' = [sess EXCEPT ![s] = sess'[s]]
    BY <2>2 DEF Become, SessionsInv
  <2>5. Kept(sess[s], q) /\ q.todo = <<"seasonal">>
    BY <1>2, <2>1, <2>3 DEF Kept
  <2>6. CacheSeen(q)
    BY <1>2, <1>3, <2>3, <2>5 DEF Kept, CacheSeen, Later
  <2>7. sess'[s].used = sess[s].used /\ sess'[s].pc = "open table"
    BY <2>3, <2>4, <2>5 DEF Kept
  <2>8. MonthsRead(sess[s])'
    BY <1>2, <2>7 DEF MonthsRead, Fine, Gridded
  <2>9. CacheSeen(sess[s])'
    BY <2>4, <2>6 DEF CacheSeen
  <2>10. SessionInv(sess[s])'
    BY <2>3, <2>4, <2>5, <2>8, <2>9 DEF SessionInv, TablesToWrite, Kept, Shape
  <2> QED
    BY <1>3, <1>5, <1>6, <2>2, <2>3, <2>4, <2>5, <2>10 DEF Kept
<1>7. CASE sess[s].todo = <<"seasonal">>
  <2>1. Tail(r.todo) = <<>>
    BY <1>2, <1>7
  <2>2. complete' = complete \cup {sess[s].n}
    BY <1>1, <1>2, <2>1 DEF CloseTable, Kept
  <2>3. CASE Stop(s)
    BY <1>3, <1>5, <1>7, <2>2, <2>3, StopAside, BecomeFacts, IdleSession DEF Aside, Stop, Become
  <2>4. CASE Become(s, [r EXCEPT !.pc = "months", !.at = "none", !.todo = <<>>,
                                 !.opened = NoValues, !.from = r.n, !.grids = r.rows])
    <3> DEFINE q == [r EXCEPT !.pc = "months", !.at = "none", !.todo = <<>>,
                              !.opened = NoValues, !.from = r.n, !.grids = r.rows]
    <3>1. Kept(r, q) /\ q.pc = "months" /\ q.from = r.n
      BY <1>2 DEF Shape, Fields, Kept
    <3>2. Become(s, q)
      BY <2>4
    <3> HIDE DEF q
    <3>3. sess'[s] = q /\ sess' = [sess EXCEPT ![s] = sess'[s]]
      BY <3>2 DEF Become, SessionsInv
    <3>4. Kept(sess[s], q) /\ q.from = q.n
      BY <1>2, <3>1 DEF Kept
    <3>5. CacheSeen(q)
      BY <1>2, <1>3, <3>1, <3>4 DEF Kept, CacheSeen, Later
    <3>6. sess'[s].used = sess[s].used /\ sess'[s].pc = "months"
      BY <3>1, <3>3, <3>4 DEF Kept
    <3>7. MonthsRead(sess[s])'
      BY <1>2, <3>6 DEF MonthsRead, Fine, Gridded
    <3>8. CacheSeen(sess[s])'
      BY <3>3, <3>5 DEF CacheSeen
    <3>9. SessionInv(sess[s])'
      BY <3>1, <3>3, <3>4, <3>7, <3>8 DEF SessionInv, TablesToWrite, Kept, Shape
    <3> QED
      BY <1>3, <1>5, <1>7, <2>2, <3>3, <3>4, <3>6, <3>9 DEF Kept
  <2> QED
    BY <1>1, <2>1, <2>3, <2>4 DEF CloseTable
<1> QED
  BY <1>4, <1>6, <1>7

LEMMA FailFacts ==
    ASSUME SessionsInv, NEW s \in Sessions, TableFails(s), l2' = l2
    PROVE  /\ complete' = complete /\ crossed' = crossed
           /\ \/ table' = table
              \/ \E t, f : table' = [table EXCEPT ![t] = f] /\ f.state = "none"
           /\ sess' = [o \in Sessions |-> sess'[o]]
           /\ sess'[s].pc = "idle"
           /\ \A o \in Sessions \ {s} : /\ sess'[o].pc = sess[o].pc /\ sess'[o].n = sess[o].n
                                       /\ sess'[o].todo = sess[o].todo
           /\ \A o \in Sessions : SessionInv(sess[o])'
<1>1. \A o \in Sessions : sess'[o] = sess[o] => SessionInv(sess[o])'
  BY SawFacts, SessionAlike DEF Alike, Kept
<1>2. CASE Stop(s) /\ UNCHANGED table
  <2>1. /\ SessionInv(sess[s])' /\ sess'[s].pc = "idle"
        /\ sess' = [sess EXCEPT ![s] = sess'[s]] /\ sess = [o \in Sessions |-> sess[o]]
    BY <1>2, StopAside, IdleSession, BecomeFacts DEF Aside, Stop, Become, SessionsInv
  <2>2. \A o \in Sessions \ {s} : sess'[o] = sess[o]
    BY <2>1
  <2>3. \A o \in Sessions : SessionInv(sess[o])'
    BY <1>1, <2>1, <2>2
  <2> QED
    BY <1>2, <2>1, <2>2, <2>3 DEF TableFails
<1>3. CASE ~(Stop(s) /\ UNCHANGED table)
  <2> DEFINE t == Head(sess[s].todo)
  <2>1. /\ table' = [table EXCEPT ![t] = NoTable]
        /\ sess' = [o \in Sessions |->
                       IF o = s THEN SIdle
                       ELSE IF o \in Holders(t) THEN [sess[o] EXCEPT !.at = "gone"]
                       ELSE sess[o]]
    BY <1>3 DEF TableFails
  <2>2. NoTable.state = "none"
    BY DEF NoTable, Table
  <2>3. sess'[s] = SIdle /\ sess'[s].pc = "idle" /\ SessionInv(sess[s])'
    BY <2>1, IdleSession
  <2>4. ASSUME NEW o \in Sessions \ {s}
        PROVE  /\ SessionInv(sess[o])' /\ sess'[o].pc = sess[o].pc
               /\ sess'[o].n = sess[o].n /\ sess'[o].todo = sess[o].todo
    <3>1. CASE sess'[o] = sess[o]
      BY <1>1, <3>1
    <3>2. CASE sess'[o] = [sess[o] EXCEPT !.at = "gone"]
      <4>1. PICK r : r = sess[o]
        OBVIOUS
      <4>2. Shape(r)
        BY <4>1, SawFacts
      <4> DEFINE q == [r EXCEPT !.at = "gone"]
      <4>3. Alike(r, q)
        BY <4>2 DEF Shape, Fields, Kept, Alike
      <4>4. sess'[o] = q
        BY <3>2, <4>1
      <4> HIDE DEF q
      <4>5. Alike(sess[o], sess'[o])
        BY <4>1, <4>3, <4>4
      <4> QED
        BY <4>5, SessionAlike DEF Alike, Kept
    <3> QED
      BY <2>1, <3>1, <3>2
  <2>5. \A o \in Sessions : SessionInv(sess[o])'
    BY <2>3, <2>4
  <2> HIDE DEF t
  <2>6. sess' = [o \in Sessions |-> sess'[o]]
    BY <2>1
  <2>7. complete' = complete /\ crossed' = crossed
    BY DEF TableFails
  <2> QED
    BY <2>1, <2>2, <2>3, <2>4, <2>5, <2>6, <2>7
<1> QED
  BY <1>2, <1>3

(* A group file that is replaced. *)
LEMMA DisturbFacts ==
    ASSUME SessionsInv, Disturb, l2' = l2
    PROVE  /\ sess' = [o \in Sessions |-> sess'[o]]
           /\ \A o \in Sessions : SessionInv(sess[o])' /\ Alike(sess[o], sess'[o])
<1>1. sess = [o \in Sessions |-> sess[o]]
  BY DEF SessionsInv
<1>2. \/ sess' = sess
      \/ sess' = [o \in Sessions |-> IF sess[o].pc = "idle" THEN sess[o]
                                     ELSE [sess[o] EXCEPT !.quiet = FALSE]]
  BY DEF Disturb
<1>3. sess' = [o \in Sessions |-> sess'[o]]
  BY <1>1, <1>2
<1>4. ASSUME NEW o \in Sessions
      PROVE  Alike(sess[o], sess'[o])
  <2>1. PICK r : r = sess[o]
    OBVIOUS
  <2>2. Shape(r)
    BY <2>1, SawFacts
  <2> DEFINE q == [r EXCEPT !.quiet = FALSE]
  <2>3. Alike(r, q) /\ Alike(r, r)
    BY <2>2 DEF Shape, Fields, Kept, Alike
  <2>4. sess'[o] = r \/ sess'[o] = q
    BY <1>2, <2>1
  <2> HIDE DEF q
  <2> QED
    BY <2>1, <2>3, <2>4
<1> QED
  BY <1>3, <1>4, SessionAlike

-----------------------------------------------------------------------------
(* Reports and gridded months. *)

LEMMA WithOthers ==
    ASSUME SessionsInv, NEW s \in Sessions, sess' = [sess EXCEPT ![s] = sess'[s]],
           SessionInv(sess[s])', l2' = l2
    PROVE  SessionsInv'
<1>1. sess = [o \in Sessions |-> sess[o]]
  BY DEF SessionsInv
<1>2. /\ sess' = [o \in Sessions |-> sess'[o]]
      /\ \A o \in Sessions \ {s} : sess'[o] = sess[o]
  BY <1>1
<1>3. \A o \in Sessions \ {s} : SessionInv(sess[o])'
  BY <1>2, SawFacts, SessionAlike DEF Alike, Kept
<1> QED
  BY <1>2, <1>3 DEF SessionsInv

LEMMA ReportKept ==
    ASSUME NothingMissingSilently, report' = report, l2' = l2
    PROVE  NothingMissingSilently'
BY DEF NothingMissingSilently, Gridded

LEMMA SessionsKept ==
    ASSUME SessionsInv, sess' = sess, l2' = l2
    PROVE  SessionsInv'
<1>1. \A o \in Sessions : SessionInv(sess[o])'
  BY SawFacts, SessionAlike DEF Alike, Kept
<1> QED
  BY <1>1 DEF SessionsInv

AnalysisInv == MonthInv /\ SessionsInv /\ NothingMissingSilently

LEMMA AnalysisInvStep ==
    ASSUME AnalysisInv, NEW s \in Sessions, SessionStep(s) \/ KillSession(s), UNCHANGED spexone
    PROVE  AnalysisInv'
<1>1. MonthInv' /\ l2' = l2
  BY MonthInvStutters DEF AnalysisInv, spexone
<1>2. SessionsInv /\ NothingMissingSilently /\ ReadableMonthIsComplete
  BY MonthInvImplies DEF AnalysisInv
<1>3. CASE Aside(s) /\ SessionInv(sess[s])' /\ NothingMissingSilently'
  BY <1>1, <1>2, <1>3, WithOthers DEF Aside, AnalysisInv
<1>4. CASE OpenTable(s)
  <2>1. report' = report
    BY <1>4 DEF OpenTable
  <2> QED
    BY <1>1, <1>2, <1>4, <2>1, OpenFacts, WithOthers, ReportKept DEF AnalysisInv
<1>5. CASE CloseTable(s)
  <2>1. report' = report
    BY <1>5 DEF CloseTable
  <2> QED
    BY <1>1, <1>2, <1>5, <2>1, CloseFacts, WithOthers, ReportKept DEF AnalysisInv
<1>6. CASE TableFails(s)
  <2>1. report' = report
    BY <1>6 DEF TableFails
  <2>2. SessionsInv'
    BY <1>1, <1>2, <1>6, FailFacts DEF SessionsInv
  <2> QED
    BY <1>1, <1>2, <2>1, <2>2, ReportKept DEF AnalysisInv
<1> QED
  BY <1>1, <1>2, <1>3, <1>4, <1>5, <1>6, SessionAside

LEMMA AnalysisInvNext ==
    ASSUME AnalysisInv, [AnalysisNext]_analysisVars
    PROVE  AnalysisInv'
<1>1. MonthInv /\ SessionsInv /\ NothingMissingSilently
  BY DEF AnalysisInv
<1>2. CASE UNCHANGED analysisVars
  <2>1. MonthInv' /\ l2' = l2 /\ sess' = sess /\ report' = report
    BY <1>1, <1>2, MonthInvStutters DEF analysisVars, spexone
  <2> QED
    BY <1>1, <2>1, SessionsKept, ReportKept DEF AnalysisInv
<1>3. ASSUME NEW s \in Sessions, StartSession(s), UNCHANGED spexone
      PROVE  AnalysisInv'
  <2>1. MonthInv' /\ l2' = l2 /\ report' = report
    BY <1>1, <1>3, MonthInvStutters DEF StartSession, spexone
  <2> QED
    BY <1>1, <1>3, <2>1, StartFacts, WithOthers, ReportKept DEF AnalysisInv
<1>4. ASSUME NEW s \in Sessions, SessionStep(s) \/ KillSession(s), UNCHANGED spexone
      PROVE  AnalysisInv'
  BY <1>4, AnalysisInvStep
<1>5. CASE Disturb /\ UNCHANGED <<spexone, report>>
  <2>1. MonthInv' /\ l2' = l2 /\ report' = report
    BY <1>1, <1>5, MonthInvStutters DEF spexone
  <2>2. SessionsInv'
    BY <1>1, <1>5, <2>1, DisturbFacts DEF SessionsInv
  <2> QED
    BY <1>1, <2>1, <2>2, ReportKept DEF AnalysisInv
<1>6. CASE SpexoneNext /\ UNCHANGED <<sess, report>>
  <2>1. MonthInv'
    BY <1>1, <1>6, MonthInvNext
  <2>2. l2' = l2
    BY <1>6 DEF SpexoneNext, TaskStep, StartTask, RemoveOld, SkipSparse, OpenGrid,
                AppendGrid, TaskRaises, CloseGrid, KillTask
  <2> QED
    BY <1>1, <1>6, <2>1, <2>2, SessionsKept, ReportKept DEF AnalysisInv
<1> QED
  BY <1>2, <1>3, <1>4, <1>5, <1>6 DEF AnalysisNext, tables

LEMMA AnalysisInvInit == ASSUME AnalysisInit PROVE AnalysisInv
BY SessionsInit, MonthInvInit DEF AnalysisInit, AnalysisInv

(* Array tasks that run beside sessions change nothing of what a readable  *)
(* month promises (SPEXone_regrid_model.py L306-355).                      *)
THEOREM MonthsStayComplete == AnalysisSpec => []ReadableMonthIsComplete
<1>1. AnalysisInit => AnalysisInv
  BY AnalysisInvInit
<1>2. AnalysisInv /\ [AnalysisNext]_analysisVars => AnalysisInv'
  BY AnalysisInvNext
<1>3. AnalysisInv => ReadableMonthIsComplete
  BY MonthInvImplies DEF AnalysisInv
<1> QED
  BY <1>1, <1>2, <1>3, PTL DEF AnalysisSpec

(* For any number of sessions, tasks and months: a month the report does   *)
(* not list was read whole, whatever tasks did between the existence test  *)
(* and the read (AAOD_error_attribution_PPE.py L1172-1182).                *)
THEOREM MissingIsListed == AnalysisSpec => []NothingMissingSilently
<1>1. AnalysisInit => AnalysisInv
  BY AnalysisInvInit
<1>2. AnalysisInv /\ [AnalysisNext]_analysisVars => AnalysisInv'
  BY AnalysisInvNext
<1>3. AnalysisInv => NothingMissingSilently
  BY DEF AnalysisInv
<1> QED
  BY <1>1, <1>2, <1>3, PTL DEF AnalysisSpec

-----------------------------------------------------------------------------
(* The two tables. *)

(* Sessions are numbered one by one; only a session that has both its      *)
(* tables is complete.                                                     *)
NumbersInv ==
    /\ started \in Nat
    /\ \A s \in Sessions : sess[s].pc # "idle" => sess[s].n \in 1 .. started
    /\ \A s, o \in Sessions :
          s # o /\ sess[s].pc # "idle" /\ sess[o].pc # "idle" => sess[s].n # sess[o].n
    /\ complete \subseteq 0 .. started
    /\ \A s \in Sessions : sess[s].pc \notin Later \cup {"idle"} => sess[s].n \notin complete

Together(i, j) == i = j \/ {i, j} \subseteq crossed

(* The table at t's path is this session's, or that of one it crossed. *)
Mine(t, s) == table[t].state = "none" \/ Together(table[t].n, sess[s].n)

(* The session has opened a table and has not closed both. *)
Opened(s) ==
    \/ sess[s].pc = "close table"
    \/ sess[s].pc = "open table" /\ sess[s].todo = <<"seasonal">>

WriteInv ==
    /\ table = [t \in TheTables |-> table[t]]
    /\ \A s \in Sessions : sess[s].pc = "close table" => Mine(Head(sess[s].todo), s)
    /\ \A s \in Sessions : Opened(s) /\ sess[s].todo = <<"seasonal">> => Mine("monthly", s)
    /\ \A s, o \in Sessions : Opened(s) /\ Opened(o) => Together(sess[s].n, sess[o].n)
    /\ table["monthly"].state # "none" /\ table["seasonal"].state # "none" =>
          \/ table["monthly"].n \notin complete
          \/ Together(table["monthly"].n, table["seasonal"].n)

(* A step that opens and closes no table. *)
LEMMA NumbersKept ==
    ASSUME NumbersInv, started' \in {started, started + 1}, complete' = complete,
           \A o \in Sessions : sess'[o].pc # "idle" => sess[o].pc # "idle" /\ sess'[o].n = sess[o].n,
           \A o \in Sessions : sess'[o].pc \notin Later \cup {"idle"} =>
                                   sess[o].pc \notin Later \cup {"idle"}
    PROVE  NumbersInv'
<1>1. /\ started \in Nat /\ started' \in Nat /\ started <= started'
      /\ complete \subseteq 0 .. started'
  BY DEF NumbersInv
<1>2. \A o \in Sessions : sess'[o].pc # "idle" => sess'[o].n \in 1 .. started'
  BY <1>1 DEF NumbersInv
<1>3. \A o \in Sessions : sess'[o].pc \notin Later \cup {"idle"} => sess'[o].n \notin complete
  BY DEF NumbersInv
<1> QED
  BY <1>1, <1>2, <1>3 DEF NumbersInv, Later

LEMMA NextTable ==
    ASSUME SessionsInv, NEW s \in Sessions, Writing(s)
    PROVE  /\ Head(sess[s].todo) \in TheTables
           /\ sess[s].todo = TableOrder => Head(sess[s].todo) = "monthly"
           /\ sess[s].todo = <<"seasonal">> => Head(sess[s].todo) = "seasonal"
           /\ sess[s].todo = TableOrder \/ sess[s].todo = <<"seasonal">>
           /\ TableOrder # <<"seasonal">>
<1>1. sess[s].todo \in {TableOrder, <<"seasonal">>}
  BY DEF Writing, SessionsInv, SessionInv, TablesToWrite
<1> QED
  BY <1>1 DEF TableOrder, TheTables

(* A step that changes no table, or removes one. *)
LEMMA WriteKept ==
    ASSUME SessionsInv, WriteInv, complete' = complete, crossed' = crossed,
           \A o \in Sessions : Opened(o)' => /\ Opened(o) /\ sess'[o].pc = sess[o].pc
                                             /\ sess'[o].n = sess[o].n
                                             /\ sess'[o].todo = sess[o].todo,
           \/ table' = table
           \/ \E t, f : table' = [table EXCEPT ![t] = f] /\ f.state = "none"
    PROVE  WriteInv'
<1>1. \A i, j : Together(i, j)' <=> Together(i, j)
  BY DEF Together
<1>2. /\ table' = [t \in TheTables |-> table'[t]]
      /\ \A t \in TheTables : table'[t] = table[t] \/ table'[t].state = "none"
  BY DEF WriteInv
<1>3. ASSUME NEW o \in Sessions, Opened(o)', NEW t \in TheTables, Mine(t, o)
      PROVE  Mine(t, o)'
  BY <1>1, <1>2, <1>3 DEF Mine
<1>4. \A o \in Sessions : sess'[o].pc = "close table" => Mine(Head(sess[o].todo), o)'
  <2> SUFFICES ASSUME NEW o \in Sessions, sess'[o].pc = "close table"
               PROVE  Mine(Head(sess[o].todo), o)'
    OBVIOUS
  <2>1. Opened(o)' /\ sess[o].pc = "close table" /\ sess'[o].todo = sess[o].todo
    BY DEF Opened
  <2>2. Mine(Head(sess[o].todo), o) /\ sess'[o].n = sess[o].n
    BY <2>1 DEF WriteInv
  <2>3. PICK t \in TheTables : t = Head(sess[o].todo)
    BY <2>1, NextTable DEF Writing
  <2>4. table'[t] = table[t] \/ table'[t].state = "none"
    BY DEF WriteInv
  <2>5. Mine(t, o)'
    BY <1>1, <2>2, <2>3, <2>4 DEF Mine
  <2> QED
    BY <2>1, <2>3, <2>5
<1>5. \A o \in Sessions : (Opened(o) /\ sess[o].todo = <<"seasonal">>)' => Mine("monthly", o)'
  BY <1>3 DEF WriteInv, TheTables
<1>6. \A r, o \in Sessions : Opened(r)' /\ Opened(o)' => Together(sess[r].n, sess[o].n)'
  BY <1>1 DEF WriteInv
<1>7. (table["monthly"].state # "none" /\ table["seasonal"].state # "none" =>
          \/ table["monthly"].n \notin complete
          \/ Together(table["monthly"].n, table["seasonal"].n))'
  BY <1>1, <1>2 DEF WriteInv, TheTables
<1> QED
  BY <1>2, <1>4, <1>5, <1>6, <1>7 DEF WriteInv

(* A table is opened: whoever else writes is crossed. *)
LEMMA WriteOpened ==
    ASSUME SessionsInv, NumbersInv, WriteInv, NEW s \in Sessions, OpenTable(s), l2' = l2
    PROVE  WriteInv'
<1>1. /\ sess' = [sess EXCEPT ![s] = sess'[s]] /\ sess = [o \in Sessions |-> sess[o]]
      /\ sess[s].pc = "open table" /\ sess'[s].pc = "close table"
      /\ sess'[s].n = sess[s].n /\ sess'[s].todo = sess[s].todo
      /\ \A o \in Sessions \ {s} : Writing(o) => {sess[s].n, sess[o].n} \subseteq crossed'
      /\ crossed \subseteq crossed' /\ complete' = complete
  BY OpenFacts DEF SessionsInv
<1>2. PICK t \in TheTables : t = Head(sess[s].todo)
  BY <1>1, NextTable DEF Writing
<1>3. PICK f : table' = [table EXCEPT ![t] = f] /\ f.n = sess[s].n
  BY <1>2, OpenFacts
<1>4. \A o \in Sessions \ {s} : sess'[o] = sess[o]
  BY <1>1
<1>5. \A o \in Sessions : sess'[o].n = sess[o].n /\ sess'[o].todo = sess[o].todo
  BY <1>1, <1>4
<1>6. \A i, j : Together(i, j) => Together(i, j)'
  BY <1>1 DEF Together
<1>7. \A o \in Sessions : Opened(o)' => Together(sess[s].n, sess[o].n)'
  <2> SUFFICES ASSUME NEW o \in Sessions, Opened(o)', o # s
               PROVE  {sess[s].n, sess[o].n} \subseteq crossed'
    BY <1>5 DEF Together
  <2>1. Writing(o)
    BY <1>4 DEF Opened, Writing
  <2> QED
    BY <1>1, <2>1
<1>8. /\ table' = [u \in TheTables |-> table'[u]] /\ table'[t].n = sess[s].n
      /\ \A u \in TheTables \ {t} : table'[u] = table[u]
  BY <1>3 DEF WriteInv
<1>9. ASSUME NEW o \in Sessions, Opened(o)', NEW u \in TheTables, u = t \/ Mine(u, o)
      PROVE  Mine(u, o)'
  <2>1. CASE u = t
    BY <1>5, <1>7, <1>8, <1>9, <2>1 DEF Mine
  <2>2. CASE u # t
    BY <1>5, <1>6, <1>8, <1>9, <2>2 DEF Mine
  <2> QED
    BY <2>1, <2>2
<1>10. \A o \in Sessions : sess'[o].pc = "close table" => Mine(Head(sess[o].todo), o)'
  <2> SUFFICES ASSUME NEW o \in Sessions, sess'[o].pc = "close table"
               PROVE  Mine(Head(sess[o].todo), o)'
    OBVIOUS
  <2>1. CASE o = s
    BY <1>1, <1>2, <1>9, <2>1 DEF Opened
  <2>2. CASE o # s
    <3>1. sess[o].pc = "close table" /\ Opened(o)'
      BY <1>4, <2>2 DEF Opened
    <3>2. PICK u \in TheTables : u = Head(sess[o].todo)
      BY <3>1, NextTable DEF Writing
    <3>3. Mine(u, o)
      BY <3>1, <3>2 DEF WriteInv
    <3> QED
      BY <1>5, <1>9, <3>1, <3>2, <3>3
  <2> QED
    BY <2>1, <2>2
<1>11. ASSUME NEW o \in Sessions, Opened(o)', sess'[o].todo = <<"seasonal">>
       PROVE  Mine("monthly", o)'
  <2>1. Opened(o)
    BY <1>1, <1>4, <1>11 DEF Opened
  <2>2. Mine("monthly", o)
    BY <1>5, <1>11, <2>1 DEF WriteInv
  <2> QED
    BY <1>9, <1>11, <2>2 DEF TheTables
<1>12. ASSUME NEW r \in Sessions, NEW o \in Sessions, Opened(r)', Opened(o)'
       PROVE  Together(sess[r].n, sess[o].n)'
  <2>1. CASE r = s \/ o = s
    BY <1>7, <1>12, <2>1 DEF Together
  <2>2. CASE r # s /\ o # s
    <3>1. Opened(r) /\ Opened(o)
      BY <1>4, <1>12, <2>2 DEF Opened
    <3>2. Together(sess[r].n, sess[o].n)
      BY <3>1 DEF WriteInv
    <3> QED
      BY <1>5, <1>6, <3>2
  <2> QED
    BY <2>1, <2>2
<1>13. \/ table'["monthly"].state = "none" \/ table'["monthly"].n \notin complete
       \/ Together(table["monthly"].n, table["seasonal"].n)'
  <2>1. CASE t = "monthly"
    BY <1>1, <1>8, <2>1 DEF NumbersInv, Later
  <2>2. CASE t = "seasonal"
    <3>1. Opened(s) /\ sess[s].todo = <<"seasonal">>
      BY <1>1, <1>2, <2>2, NextTable DEF Opened, Writing
    <3>2. Mine("monthly", s) /\ table'["monthly"] = table["monthly"]
      BY <1>8, <2>2, <3>1 DEF WriteInv, TheTables
    <3> QED
      BY <1>6, <1>8, <2>2, <3>2 DEF Mine
  <2> QED
    BY <2>1, <2>2 DEF TheTables
<1> QED
  BY <1>1, <1>8, <1>10, <1>11, <1>12, <1>13 DEF WriteInv

(* A table is closed; after the second, its session is complete.           *)
LEMMA WriteClosed ==
    ASSUME SessionsInv, NumbersInv, WriteInv, NEW s \in Sessions, CloseTable(s), l2' = l2
    PROVE  WriteInv'
<1> DEFINE TwoLeft == sess[s].todo = TableOrder
<1>1. /\ sess' = [sess EXCEPT ![s] = sess'[s]] /\ sess = [o \in Sessions |-> sess[o]]
      /\ sess[s].pc = "close table" /\ crossed' = crossed
      /\ \/ /\ TwoLeft /\ complete' = complete /\ sess'[s].n = sess[s].n
            /\ sess'[s].pc = "open table"
         \/ /\ ~TwoLeft /\ complete' = complete \cup {sess[s].n}
            /\ sess'[s].pc \in {"months", "idle"}
  BY CloseFacts, NextTable DEF SessionsInv, Writing
<1>2. PICK t \in TheTables : t = Head(sess[s].todo)
  BY <1>1, NextTable DEF Writing
<1>3. t = IF TwoLeft THEN "monthly" ELSE "seasonal"
  BY <1>1, <1>2, NextTable DEF Writing
<1>4. /\ table' = [u \in TheTables |-> table'[u]]
      /\ \A u \in TheTables : table'[u] = table[u] \/ (u = t /\ table'[u].n = sess[s].n)
  <2>1. table = [u \in TheTables |-> table[u]]
    BY DEF WriteInv
  <2>2. CASE table' = table
    BY <2>1, <2>2
  <2>3. CASE table' # table
    <3>1. PICK f : table' = [table EXCEPT ![t] = f] /\ f.n = sess[s].n
      BY <1>2, <2>3, CloseFacts
    <3> QED
      BY <2>1, <3>1
  <2> QED
    BY <2>2, <2>3
<1> HIDE DEF TwoLeft
<1>5. \A o \in Sessions \ {s} : sess'[o] = sess[o]
  BY <1>1
<1>6. \A i, j : Together(i, j)' <=> Together(i, j)
  BY <1>1 DEF Together
<1>7. \A o \in Sessions : Opened(o)' => Opened(o) /\ sess'[o].n = sess[o].n
  BY <1>1, <1>5 DEF Opened
<1>8. Opened(s) /\ Mine(t, s)
  BY <1>1, <1>2 DEF WriteInv, Opened
<1>9. ASSUME NEW o \in Sessions, Opened(o)', NEW u \in TheTables, Mine(u, o)
      PROVE  Mine(u, o)'
  <2>1. Together(sess[s].n, sess[o].n)
    BY <1>7, <1>8, <1>9 DEF WriteInv
  <2> QED
    BY <1>4, <1>6, <1>7, <1>9, <2>1 DEF Mine
<1>10. \A o \in Sessions : sess'[o].pc = "close table" => Mine(Head(sess[o].todo), o)'
  <2> SUFFICES ASSUME NEW o \in Sessions, sess'[o].pc = "close table"
               PROVE  Mine(Head(sess[o].todo), o)'
    OBVIOUS
  <2>1. sess'[o] = sess[o] /\ Opened(o)'
    BY <1>1, <1>5 DEF Opened
  <2>2. PICK u \in TheTables : u = Head(sess[o].todo)
    BY <2>1, NextTable DEF Writing
  <2>3. Mine(u, o)
    BY <2>1, <2>2 DEF WriteInv
  <2> QED
    BY <1>9, <2>1, <2>2, <2>3
<1>11. ASSUME NEW o \in Sessions, Opened(o)', sess'[o].todo = <<"seasonal">>
       PROVE  Mine("monthly", o)'
  <2>1. CASE o = s
    BY <1>1, <1>3, <1>8, <1>9, <1>11, <2>1 DEF Opened
  <2>2. CASE o # s
    <3>1. Mine("monthly", o)
      BY <1>5, <1>7, <1>11, <2>2 DEF WriteInv
    <3> QED
      BY <1>9, <1>11, <3>1 DEF TheTables
  <2> QED
    BY <2>1, <2>2
<1>12. \A r, o \in Sessions : Opened(r)' /\ Opened(o)' => Together(sess[r].n, sess[o].n)'
  BY <1>6, <1>7 DEF WriteInv
<1>13. \/ table'["monthly"].state = "none" \/ table'["seasonal"].state = "none"
       \/ table'["monthly"].n \notin complete'
       \/ Together(table["monthly"].n, table["seasonal"].n)'
  <2>1. CASE TwoLeft
    <3>1. table'["seasonal"] = table["seasonal"] /\ complete' = complete
      BY <1>1, <1>3, <1>4, <2>1 DEF TheTables
    <3>2. CASE table'["monthly"] = table["monthly"]
      BY <1>6, <3>1, <3>2 DEF WriteInv
    <3>3. CASE table'["monthly"].n = sess[s].n
      BY <1>1, <3>1, <3>3 DEF NumbersInv, Later
    <3> QED
      BY <1>4, <3>2, <3>3 DEF TheTables
  <2>2. CASE ~TwoLeft
    <3>1. /\ table'["monthly"] = table["monthly"] /\ t = "seasonal"
          /\ table'["seasonal"] = table["seasonal"] \/ table'["seasonal"].n = sess[s].n
      BY <1>3, <1>4, <2>2 DEF TheTables
    <3>2. Mine("monthly", s)
      BY <1>1, <1>8, <2>2, NextTable DEF WriteInv, Writing, TwoLeft
    <3>3. Together(table["seasonal"].n, sess[s].n) \/ table["seasonal"].state = "none"
      BY <1>8, <3>1 DEF Mine
    <3> QED
      BY <1>6, <3>1, <3>2, <3>3 DEF Mine, Together
  <2> QED
    BY <2>1, <2>2
<1> QED
  BY <1>1, <1>4, <1>10, <1>11, <1>12, <1>13 DEF WriteInv

LEMMA NumbersClosed ==
    ASSUME SessionsInv, NumbersInv, NEW s \in Sessions, CloseTable(s), l2' = l2,
           started' = started
    PROVE  NumbersInv'
<1>1. /\ sess' = [sess EXCEPT ![s] = sess'[s]] /\ sess = [o \in Sessions |-> sess[o]]
      /\ sess[s].pc = "close table"
      /\ \/ /\ complete' = complete /\ sess'[s].n = sess[s].n
            /\ sess'[s].pc = "open table"
         \/ /\ complete' = complete \cup {sess[s].n}
            /\ sess'[s].pc \in {"months", "idle"}
            /\ sess'[s].pc = "months" => sess'[s].n = sess[s].n
  BY CloseFacts DEF SessionsInv
<1>2. \A o \in Sessions \ {s} : sess'[o] = sess[o]
  BY <1>1
<1>3. /\ sess[s].n \in 1 .. started /\ started \in Nat /\ complete \subseteq 0 .. started
      /\ \A o \in Sessions : o # s /\ sess[o].pc # "idle" => sess[o].n # sess[s].n
      /\ \A o \in Sessions : sess[o].pc \notin Later \cup {"idle"} => sess[o].n \notin complete
  BY <1>1 DEF NumbersInv
<1>4. complete' \subseteq 0 .. started
  <2>1. sess[s].n \in 0 .. started
    BY <1>3
  <2> QED
    BY <1>1, <1>3, <2>1
<1>5. \A o \in Sessions : sess'[o].pc # "idle" => sess[o].pc # "idle" /\ sess'[o].n = sess[o].n
  BY <1>1, <1>2
<1>6. ASSUME NEW o \in Sessions, sess'[o].pc \notin Later \cup {"idle"}
      PROVE  sess'[o].n \notin complete'
  <2>1. CASE o = s
    BY <1>1, <1>6, <2>1 DEF NumbersInv, Later
  <2>2. CASE o # s
    <3>1. sess'[o] = sess[o] /\ sess[o].n # sess[s].n /\ sess[o].n \notin complete
      BY <1>2, <1>3, <1>6, <2>2
    <3>2. complete' = complete \/ complete' = complete \cup {sess[s].n}
      BY <1>1
    <3> QED
      BY <3>1, <3>2
  <2> QED
    BY <2>1, <2>2
<1> QED
  BY <1>3, <1>4, <1>5, <1>6 DEF NumbersInv

LEMMA NumbersStarted ==
    ASSUME SessionsInv, NumbersInv, NEW s \in Sessions, StartSession(s), l2' = l2
    PROVE  NumbersInv'
<1>1. /\ sess' = [sess EXCEPT ![s] = sess'[s]] /\ sess = [o \in Sessions |-> sess[o]]
      /\ sess'[s].pc = "cell1" /\ sess'[s].n = started' /\ started' = started + 1
      /\ complete' = complete
  BY StartFacts DEF SessionsInv, StartSession, StartProgram, tables
<1>2. \A o \in Sessions \ {s} : sess'[o] = sess[o]
  BY <1>1
<1>3. /\ started \in Nat /\ started' \in Nat /\ complete \subseteq 0 .. started'
      /\ started' \notin complete /\ started' \notin 1 .. started
  BY <1>1 DEF NumbersInv
<1>4. \A o \in Sessions : sess'[o].pc # "idle" =>
                            \/ o = s /\ sess'[o].n = started'
                            \/ o # s /\ sess[o].pc # "idle" /\ sess'[o] = sess[o]
                                     /\ sess'[o].n \in 1 .. started
  BY <1>1, <1>2 DEF NumbersInv
<1>5. \A o \in Sessions : sess'[o].pc # "idle" => sess'[o].n \in 1 .. started'
  BY <1>1, <1>3, <1>4
<1>6. \A r, o \in Sessions :
          r # o /\ sess'[r].pc # "idle" /\ sess'[o].pc # "idle" => sess'[r].n # sess'[o].n
  BY <1>3, <1>4 DEF NumbersInv
<1>7. \A o \in Sessions : sess'[o].pc \notin Later \cup {"idle"} => sess'[o].n \notin complete
  BY <1>3, <1>4 DEF NumbersInv
<1> QED
  BY <1>1, <1>3, <1>5, <1>6, <1>7 DEF NumbersInv

TablesInv == AnalysisInv /\ NumbersInv /\ WriteInv

LEMMA TablesInvInit == ASSUME AnalysisInit PROVE TablesInv
<1>1. sess = [s \in Sessions |-> SIdle] /\ started = 0
  BY DEF AnalysisInit, LaunchInit
<1>2. \A s \in Sessions : sess[s].pc = "idle"
  BY <1>1, IdleSession
<1>3. /\ table = [t \in TheTables |-> table[t]] /\ complete \subseteq {0}
      /\ table["monthly"].state = "none" \/ table["monthly"].n = table["seasonal"].n
  <2>1. CASE table = [t \in TheTables |-> NoTable] /\ complete = {}
    <3>1. NoTable.state = "none"
      BY DEF NoTable, Table
    <3> QED
      BY <2>1, <3>1 DEF TheTables
  <2>2. CASE table = [t \in TheTables |-> Table("whole", Earlier, FALSE)] /\ complete = {0}
    BY <2>2 DEF TheTables
  <2> QED
    BY <2>1, <2>2 DEF AnalysisInit, TheTables
<1>4. NumbersInv
  BY <1>1, <1>2, <1>3 DEF NumbersInv
<1>5. WriteInv
  BY <1>2, <1>3 DEF WriteInv, Opened, Together
<1> QED
  BY <1>4, <1>5, AnalysisInvInit DEF TablesInv

LEMMA TablesInvStep ==
    ASSUME TablesInv, NEW s \in Sessions, SessionStep(s) \/ KillSession(s),
           UNCHANGED <<started, spexone>>
    PROVE  TablesInv'
<1>1. AnalysisInv' /\ l2' = l2 /\ started' = started
  BY AnalysisInvStep DEF TablesInv, spexone
<1>2. /\ SessionsInv /\ NothingMissingSilently /\ ReadableMonthIsComplete /\ NumbersInv /\ WriteInv
      /\ sess = [o \in Sessions |-> sess[o]]
  BY MonthInvImplies DEF TablesInv, AnalysisInv, SessionsInv
<1>3. CASE Aside(s) /\ UNCHANGED tables
  <2>1. \A o \in Sessions \ {s} : sess'[o] = sess[o]
    BY <1>2, <1>3 DEF Aside
  <2>2. complete' = complete /\ crossed' = crossed /\ table' = table
    BY <1>3 DEF tables
  <2>3. ~Opened(s)'
    <3>1. TableOrder # <<"seasonal">>
      BY DEF TableOrder
    <3> QED
      BY <1>3, <3>1 DEF Aside, Opened
  <2>4. /\ \A o \in Sessions : sess'[o].pc # "idle" =>
                                 sess[o].pc # "idle" /\ sess'[o].n = sess[o].n
        /\ \A o \in Sessions : sess'[o].pc \notin Later \cup {"idle"} =>
                                 sess[o].pc \notin Later \cup {"idle"}
    BY <1>3, <2>1 DEF Aside
  <2>5. NumbersInv'
    BY <1>1, <1>2, <2>2, <2>4, NumbersKept
  <2>6. \A o \in Sessions : Opened(o)' => Opened(o) /\ sess'[o] = sess[o]
    BY <2>1, <2>3 DEF Opened
  <2>7. WriteInv'
    BY <1>2, <2>2, <2>6, WriteKept
  <2> QED
    BY <1>1, <2>5, <2>7 DEF TablesInv
<1>4. CASE OpenTable(s)
  <2>1. /\ \A o \in Sessions \ {s} : sess'[o] = sess[o]
        /\ sess[s].pc = "open table" /\ sess'[s].n = sess[s].n /\ complete' = complete
    BY <1>1, <1>2, <1>4, OpenFacts
  <2>2. /\ \A o \in Sessions : sess'[o].pc # "idle" =>
                                 sess[o].pc # "idle" /\ sess'[o].n = sess[o].n
        /\ \A o \in Sessions : sess'[o].pc \notin Later \cup {"idle"} =>
                                 sess[o].pc \notin Later \cup {"idle"}
    BY <2>1 DEF Later
  <2>3. NumbersInv'
    BY <1>1, <1>2, <2>1, <2>2, NumbersKept
  <2> QED
    BY <1>1, <1>2, <1>4, <2>3, WriteOpened DEF TablesInv
<1>5. CASE CloseTable(s)
  BY <1>1, <1>2, <1>5, WriteClosed, NumbersClosed DEF TablesInv
<1>6. CASE TableFails(s)
  <2>1. /\ complete' = complete /\ crossed' = crossed
        /\ \/ table' = table
           \/ \E t, f : table' = [table EXCEPT ![t] = f] /\ f.state = "none"
        /\ sess'[s].pc = "idle"
        /\ \A o \in Sessions \ {s} : /\ sess'[o].pc = sess[o].pc /\ sess'[o].n = sess[o].n
                                    /\ sess'[o].todo = sess[o].todo
    BY <1>1, <1>2, <1>6, FailFacts
  <2>2. NumbersInv'
    BY <1>1, <1>2, <2>1, NumbersKept
  <2>3. WriteInv'
    BY <1>2, <2>1, WriteKept DEF Opened
  <2> QED
    BY <1>1, <2>2, <2>3 DEF TablesInv
<1> QED
  BY <1>1, <1>2, <1>3, <1>4, <1>5, <1>6, SessionAside

LEMMA TablesInvNext ==
    ASSUME TablesInv, [AnalysisNext]_analysisVars
    PROVE  TablesInv'
<1>1. AnalysisInv' /\ AnalysisInv /\ SessionsInv /\ NumbersInv /\ WriteInv
  BY AnalysisInvNext DEF TablesInv, AnalysisInv
<1>2. ASSUME UNCHANGED tables, started' \in {started, started + 1},
             \A o \in Sessions : /\ sess'[o].pc = sess[o].pc /\ sess'[o].n = sess[o].n
                                /\ sess'[o].todo = sess[o].todo
      PROVE  TablesInv'
  <2>1. complete' = complete /\ crossed' = crossed /\ table' = table
    BY <1>2 DEF tables
  <2>2. NumbersInv'
    BY <1>1, <1>2, <2>1, NumbersKept
  <2>3. WriteInv'
    BY <1>1, <1>2, <2>1, WriteKept DEF Opened
  <2> QED
    BY <1>1, <2>2, <2>3 DEF TablesInv
<1>3. CASE UNCHANGED analysisVars
  BY <1>2, <1>3 DEF analysisVars
<1>4. ASSUME NEW s \in Sessions, StartSession(s), UNCHANGED spexone
      PROVE  TablesInv'
  <2>1. l2' = l2 /\ complete' = complete /\ crossed' = crossed /\ table' = table
    BY <1>4 DEF spexone, StartSession, tables
  <2>2. (\A o \in Sessions \ {s} : sess'[o] = sess[o]) /\ sess'[s].pc = "cell1"
    BY <1>1, <1>4, <2>1, StartFacts DEF SessionsInv
  <2>3. WriteInv'
    BY <1>1, <2>1, <2>2, WriteKept DEF Opened
  <2> QED
    BY <1>1, <1>4, <2>1, <2>3, NumbersStarted DEF TablesInv
<1>5. ASSUME NEW s \in Sessions, SessionStep(s) \/ KillSession(s), UNCHANGED <<started, spexone>>
      PROVE  TablesInv'
  BY <1>5, TablesInvStep
<1>6. CASE GroupFilesNext /\ Disturb /\ UNCHANGED <<spexone, tables>>
  <2>1. started' \in {started, started + 1}
    BY <1>6 DEF GroupFilesNext, StartExtraction, StartProgram, PublishGroup, GroupFails
  <2>2. \A o \in Sessions : /\ sess'[o].pc = sess[o].pc /\ sess'[o].n = sess[o].n
                           /\ sess'[o].todo = sess[o].todo
    BY <1>1, <1>6, DisturbFacts DEF Alike, Kept, spexone
  <2> QED
    BY <1>2, <1>6, <2>1, <2>2
<1>7. CASE SpexoneNext /\ UNCHANGED <<sess, tables>>
  <2>1. started' \in {started, started + 1}
    BY <1>7 DEF SpexoneNext, StartTask, StartProgram, TaskStep, RemoveOld, SkipSparse, OpenGrid,
                AppendGrid, TaskRaises, CloseGrid, KillTask
  <2> QED
    BY <1>2, <1>7, <2>1
<1> QED
  BY <1>3, <1>4, <1>5, <1>6, <1>7 DEF AnalysisNext

(* For any number of sessions: two readable tables of different sessions   *)
(* are possible only when the first was left behind by a session that did  *)
(* not write the second, or when both wrote at the same time (L727-728).   *)
THEOREM PairsOfTablesAgree == AnalysisSpec => []TablesAgree
<1>1. AnalysisInit => TablesInv
  BY TablesInvInit
<1>2. TablesInv /\ [AnalysisNext]_analysisVars => TablesInv'
  BY TablesInvNext
<1>3. TablesInv => TablesAgree
  BY DEF TablesInv, WriteInv, Together, TablesAgree
<1> QED
  BY <1>1, <1>2, <1>3, PTL DEF AnalysisSpec

-----------------------------------------------------------------------------
(* What is in the tables.  A second inductive invariant: it relates the    *)
(* group files to what each session has read of them.                      *)

(* A published group file. *)
Content == [gen : Nat, members : Seq(Members) \ {<<>>}, fit : BOOLEAN]

(* All groups that are there are of one extraction. *)
OneGen(gs) == \A g, h \in Groups : gs[g] # None /\ gs[h] # None => gs[g].gen = gs[h].gen

(* Some extraction between its groups has replaced the first of them; so   *)
(* did one that ended there.  Otherwise all are of one extraction.         *)
GroupsInv ==
    /\ groups \in [Groups -> Content \cup {None}]
    /\ GroupFilesTypeOK
    /\ ext = NoExtraction <=> ext.todo = <<>>
    /\ ext = [gen |-> ext.gen, puts |-> ext.puts, todo |-> ext.todo]
    /\ ext.todo \in Seq(Groups) /\ Len(ext.todo) <= Len(GroupOrder)
    /\ ext # NoExtraction =>
          \A g \in Groups : \/ \E i \in DOMAIN ext.todo : ext.todo[i] = g
                            \/ groups[g] # None /\ groups[g].gen = ext.gen
    /\ (ext = NoExtraction \/ ext.todo = GroupOrder) /\ ~halfway => OneGen(groups)

-----------------------------------------------------------------------------
(* What a session holds. *)

Pcs == {"idle", "cell1", "open", "cell2", "load2", "cell3", "load3", "cell4", "load4",
        "open table", "close table", "read", "read seasonal"} \cup Later

(* A session that has its members has opened every group, and each has     *)
(* them.                                                                   *)
HasMembers(r) ==
    /\ r.opened \in [Groups -> Content]
    /\ r.models = r.opened[Burden].members
    /\ \A g \in Groups : Labels(r.opened[Burden]) \subseteq Labels(r.opened[g])

(* Of rows: numbers of the extraction whose files gs holds, each under its *)
(* member's name.                                                          *)
RowsOf(rows, gs) ==
    \A m \in DOMAIN rows, g \in Groups :
        rows[m][g] # None =>
            rows[m][g].member = m /\ gs[g] # None /\ rows[m][g].gen = gs[g].gen

Quiet(r, gs) ==
    /\ OneGen(gs)
    /\ \A g \in Groups : r.opened[g] # None => r.opened[g] = gs[g]
    /\ RowsOf(r.rows, gs)

Computing(r, gs) ==
    /\ r.models = <<>> \/ HasMembers(r)
    /\ r.pc = "cell1" => r.opened = NoValues
    /\ r.pc \in {"cell1", "open"} => r.models = <<>>
    /\ r.pc \in {"cell1", "open", "cell2"} => r.rows = NoRows
    /\ r.pc \in {"cell1", "open", "cell2", "load2"} => ~r.target
    /\ r.pc = "open" =>
          /\ r.todo \in Seq(Groups)
          /\ r.opened \in [Groups -> Content \cup {None}]
          /\ \A g \in Groups :
                /\ gs[g] # None
                /\ (\E i \in DOMAIN r.todo : r.todo[i] = g) \/ r.opened[g] # None
    /\ r.pc = "load2" => DOMAIN r.rows = {r.models[j] : j \in 1 .. (r.i - 1)}
    /\ r.pc \in {"load2", "load3", "load4"} => r.i \in DOMAIN r.models
    /\ r.pc \in {"load3", "load4", "open table", "close table"} => r.target
    /\ r.target => r.models # <<>>
    /\ r.target /\ (r.derived \/ r.pc \notin {"open table", "close table"}) =>
          DOMAIN r.rows = Labels(r.opened[Burden])
    /\ r.pc \in {"cell4", "load4", "open table", "close table"} /\ r.target
          => r.derived \/ TRUE \in r.saw
    /\ r.quiet /\ (r.pc = "open" \/ r.models # <<>>) => Quiet(r, gs)

DataInv(r, gs, done) ==
    /\ r.pc \in Pcs
    /\ r.derived => r.target
    /\ r.pc \in Later => r.rows # NoRows /\ r.from \in done
    /\ r.pc \notin Later \cup {"idle"} => Computing(r, gs)

(* The numbers in rows are of one extraction, each under its own name. *)
OneExtraction(rows) ==
    \A m, k \in DOMAIN rows : \A g, h \in Groups :
        rows[m][g] # None /\ rows[k][h] # None =>
            rows[m][g].gen = rows[k][h].gen /\ rows[m][g].member = m

TableData(f) ==
    /\ f.state \in {"none", "torn", "whole"} /\ f.n \in 0 .. started
    /\ f.state = "whole" /\ f.quiet => OneExtraction(f.rows)
    /\ f.state = "whole" /\ ~f.shared /\ ~f.flipped => DOMAIN f.rows = f.asked

RecordsInv ==
    /\ \A s \in Sessions : DataInv(sess[s], groups, complete)
    /\ \A t \in TheTables : TableData(table[t])
    /\ table["seasonal"].state = "whole" => table["seasonal"].n \in complete
    /\ complete \cup crossed \subseteq 0 .. started
    /\ started <= MaxStarts /\ l2 \in Archives

-----------------------------------------------------------------------------
(* The group files. *)

LEMMA GroupFileIsContent ==
    ASSUME NEW gen \in Nat, NEW puts \in Extracts, NEW g \in Groups
    PROVE  /\ GroupFile(gen, puts, g) \in Content /\ GroupFile(gen, puts, g) # None
           /\ GroupFile(gen, puts, g).gen = gen
<1>1. puts[g] \in Contents
  BY GroupFilesAssumption
<1>2. PICK members, fit : /\ members = puts[g].members /\ fit = puts[g].fit
                          /\ members \in Seq(Members) \ {<<>>} /\ fit \in BOOLEAN
  BY <1>1 DEF Contents
<1>3. GroupFile(gen, puts, g) = [gen |-> gen, members |-> members, fit |-> fit]
  BY <1>2 DEF GroupFile
<1>4. GroupFile(gen, puts, g) \in Content
  BY <1>2, <1>3 DEF Content
<1> QED
  BY <1>2, <1>3, <1>4, NoneIsNoFile

LEMMA ContentIsNoNone == None \notin Content
BY NoneIsNoFile DEF Content

LEMMA GroupsInit == ASSUME AnalysisInit PROVE GroupsInv
<1>1. ext = NoExtraction /\ halfway = FALSE /\ started = 0
  BY DEF AnalysisInit, GroupFilesInit, LaunchInit
<1>2. \/ groups = [g \in Groups |-> None]
      \/ \E puts \in Extracts : groups = [g \in Groups |-> GroupFile(0, puts, g)]
  BY DEF AnalysisInit, GroupFilesInit
<1>3. /\ groups \in [Groups -> Content \cup {None}] /\ OneGen(groups)
      /\ \A g \in Groups : groups[g] # None =>
            /\ groups[g].gen = 0
            /\ \E puts \in Extracts : groups[g] = GroupFile(groups[g].gen, puts, g)
  <2>1. CASE groups = [g \in Groups |-> None]
    BY <2>1 DEF OneGen
  <2>2. CASE groups # [g \in Groups |-> None]
    <3>1. PICK puts \in Extracts : groups = [g \in Groups |-> GroupFile(0, puts, g)]
      BY <1>2, <2>2
    <3>2. \A g \in Groups : /\ groups[g] = GroupFile(0, puts, g) /\ groups[g] \in Content
                            /\ groups[g].gen = 0
      BY <3>1, GroupFileIsContent
    <3>3. groups = [g \in Groups |-> groups[g]]
      BY <3>1
    <3> QED
      BY <3>2, <3>3 DEF OneGen
  <2> QED
    BY <2>1, <2>2
<1>4. /\ NoExtraction.gen = 0 /\ NoExtraction.todo = <<>>
      /\ NoExtraction = [gen |-> NoExtraction.gen, puts |-> NoExtraction.puts,
                         todo |-> NoExtraction.todo]
  BY DEF NoExtraction
<1>5. Len(GroupOrder) \in Nat /\ Len(<<>>) = 0 /\ <<>> \in Seq(Groups)
  BY GroupFilesAssumption
<1>6. GroupFilesTypeOK
  <2>1. 0 \in 0 .. started
    BY <1>1
  <2>2. \A g \in Groups : groups[g] # None => groups[g].gen \in 0 .. started
    BY <1>3, <2>1
  <2>3. ext.gen \in 0 .. started /\ halfway \in BOOLEAN
    BY <1>1, <1>4, <2>1
  <2> QED
    BY <1>1, <1>3, <2>2, <2>3 DEF GroupFilesTypeOK
<1> QED
  BY <1>1, <1>3, <1>4, <1>5, <1>6 DEF GroupsInv

(* The next group file is written. *)
LEMMA GroupWritten ==
    ASSUME GroupsInv, started \in Nat, PublishGroup
    PROVE  /\ GroupsInv'
           /\ \A g \in Groups : groups[g] # None => groups'[g] # None
<1>1. PICK g, gen, puts : g = Head(ext.todo) /\ gen = ext.gen /\ puts = ext.puts
  OBVIOUS
<1>2. /\ ext.todo # <<>> /\ ext.todo \in Seq(Groups) /\ ext # NoExtraction
      /\ Len(ext.todo) <= Len(GroupOrder)
  BY DEF PublishGroup, GroupsInv
<1>3. g \in Groups /\ gen \in 0 .. started /\ gen \in Nat /\ puts \in Extracts /\ started' = started
  BY <1>1, <1>2 DEF PublishGroup, GroupsInv, GroupFilesTypeOK
<1>4. PICK file : /\ file = GroupFile(gen, puts, g)
                  /\ file \in Content /\ file # None /\ file.gen = gen
  BY <1>3, GroupFileIsContent
<1>5. groups' = [groups EXCEPT ![g] = file] /\ NextGroup
  BY <1>1, <1>4 DEF PublishGroup
<1>6. /\ groups' \in [Groups -> Content \cup {None}] /\ groups'[g] = file
      /\ \A h \in Groups \ {g} : groups'[h] = groups[h]
  BY <1>3, <1>4, <1>5 DEF GroupsInv
<1>7. \A h \in Groups : groups'[h] # None =>
         /\ groups'[h].gen \in 0 .. started
         /\ \E some \in Extracts : groups'[h] = GroupFile(groups'[h].gen, some, h)
  <2> SUFFICES ASSUME NEW h \in Groups, groups'[h] # None
               PROVE  /\ groups'[h].gen \in 0 .. started
                      /\ \E some \in Extracts : groups'[h] = GroupFile(groups'[h].gen, some, h)
    OBVIOUS
  <2>1. CASE h = g
    BY <1>3, <1>4, <1>6, <2>1
  <2>2. CASE h # g
    BY <1>6, <2>2 DEF GroupsInv, GroupFilesTypeOK
  <2> QED
    BY <2>1, <2>2
<1>8. \A h \in Groups : \/ \E i \in DOMAIN ext.todo : i # 1 /\ ext.todo[i] = h
                        \/ groups'[h] # None /\ groups'[h].gen = gen
  <2> SUFFICES ASSUME NEW h \in Groups, h # g,
                      ~(groups[h] # None /\ groups[h].gen = gen)
               PROVE  \E i \in DOMAIN ext.todo : i # 1 /\ ext.todo[i] = h
    BY <1>4, <1>6
  <2>1. PICK i \in DOMAIN ext.todo : ext.todo[i] = h
    BY <1>1, <1>2 DEF GroupsInv
  <2> QED
    BY <1>1, <1>2, <2>1
<1>9. CASE Tail(ext.todo) = <<>>
  <2>1. ext' = NoExtraction /\ halfway' = FALSE
    BY <1>5, <1>9 DEF NextGroup
  <2>2. \A i \in DOMAIN ext.todo : i = 1
    <3>1. PICK todo : todo = ext.todo /\ todo \in Seq(Groups) /\ todo # <<>> /\ Tail(todo) = <<>>
      BY <1>2, <1>9
    <3>2. Len(Tail(todo)) = Len(todo) - 1
      BY <3>1
    <3>3. Len(todo) = 1
      <4>1. Len(<<>>) = 0
        OBVIOUS
      <4>2. Len(todo) \in Nat
        BY <3>1
      <4>3. Len(Tail(todo)) = 0
        BY <3>1, <4>1
      <4> QED
        BY <3>2, <4>2, <4>3
    <3>4. DOMAIN todo = 1 .. Len(todo)
      BY <3>1
    <3> QED
      BY <3>1, <3>3, <3>4
  <2>3. OneGen(groups')
    BY <1>8, <2>2 DEF OneGen
  <2>4. /\ NoExtraction.gen = 0 /\ NoExtraction.todo = <<>>
        /\ NoExtraction = [gen |-> NoExtraction.gen, puts |-> NoExtraction.puts,
                           todo |-> NoExtraction.todo]
    BY DEF NoExtraction
  <2>5. Len(GroupOrder) \in Nat /\ Len(<<>>) = 0 /\ <<>> \in Seq(Groups)
    BY GroupFilesAssumption
  <2>6. 0 \in 0 .. started
    OBVIOUS
  <2>7. GroupFilesTypeOK'
    BY <1>3, <1>7, <2>1, <2>4, <2>6 DEF GroupFilesTypeOK
  <2> QED
    BY <1>4, <1>6, <2>1, <2>3, <2>4, <2>5, <2>7 DEF GroupsInv
<1>10. CASE Tail(ext.todo) # <<>>
  <2>1. PICK old, rest : old = ext /\ rest = Tail(ext.todo)
    OBVIOUS
  <2>2. ext' = [old EXCEPT !.todo = rest] /\ halfway' = halfway
    BY <1>5, <1>10, <2>1 DEF NextGroup
  <2>3. old = [gen |-> old.gen, puts |-> old.puts, todo |-> old.todo]
    BY <2>1 DEF GroupsInv
  <2>4. ext'.gen = gen /\ ext'.puts = puts /\ ext'.todo = rest
        /\ ext' = [gen |-> ext'.gen, puts |-> ext'.puts, todo |-> ext'.todo]
    BY <1>1, <2>1, <2>2, <2>3
  <2>5. /\ rest \in Seq(Groups) /\ rest # <<>> /\ Len(rest) < Len(GroupOrder)
        /\ rest # GroupOrder
    BY <1>2, <1>10, <2>1, GroupFilesAssumption
  <2>6. ext' # NoExtraction
    BY <2>4, <2>5 DEF NoExtraction
  <2>7. \A h \in Groups : \/ \E i \in DOMAIN rest : rest[i] = h
                          \/ groups'[h] # None /\ groups'[h].gen = gen
    <3> SUFFICES ASSUME NEW h \in Groups, ~(groups'[h] # None /\ groups'[h].gen = gen)
                 PROVE  \E i \in DOMAIN rest : rest[i] = h
      OBVIOUS
    <3>1. PICK i \in DOMAIN ext.todo : i # 1 /\ ext.todo[i] = h
      BY <1>8
    <3>2. i - 1 \in DOMAIN rest /\ rest[i - 1] = h
      BY <1>2, <2>1, <3>1
    <3> QED
      BY <3>2
  <2>8. GroupFilesTypeOK'
    BY <1>3, <1>7, <2>2, <2>4, <2>5 DEF GroupFilesTypeOK, GroupsInv
  <2>9. Len(rest) <= Len(GroupOrder)
    BY <2>5, GroupFilesAssumption
  <2> QED
    BY <1>4, <1>6, <2>4, <2>5, <2>6, <2>7, <2>8, <2>9 DEF GroupsInv
<1> QED
  BY <1>4, <1>6, <1>9, <1>10

LEMMA GroupsNext ==
    ASSUME GroupsInv, started \in Nat, [AnalysisNext]_analysisVars
    PROVE  /\ GroupsInv'
           /\ \A g \in Groups : groups[g] # None => groups'[g] # None
<1>1. CASE PublishGroup
  BY <1>1, GroupWritten
<1>2. CASE StartExtraction
  <2>1. PICK puts \in Extracts :
            ext' = [gen |-> started', puts |-> puts, todo |-> GroupOrder]
    BY <1>2 DEF StartExtraction
  <2>2. /\ ext = NoExtraction /\ started' = started + 1
        /\ groups' = groups /\ halfway' = halfway
    BY <1>2 DEF StartExtraction, StartProgram
  <2>3. /\ GroupOrder \in Seq(Groups) /\ GroupOrder # <<>>
        /\ Len(GroupOrder) <= Len(GroupOrder)
        /\ \A g \in Groups : \E i \in DOMAIN GroupOrder : GroupOrder[i] = g
    BY GroupFilesAssumption DEF Groups
  <2>4. ext'.todo = GroupOrder /\ ext'.gen = started' /\ ext'.puts = puts
    BY <2>1
  <2>5. ext' # NoExtraction
    BY <2>3, <2>4 DEF NoExtraction
  <2>6. /\ started' \in 0 .. started'
        /\ \A x : x \in 0 .. started => x \in 0 .. started'
    BY <2>2
  <2>7. GroupFilesTypeOK'
    BY <2>1, <2>2, <2>3, <2>4, <2>6 DEF GroupFilesTypeOK, GroupsInv
  <2> QED
    BY <2>1, <2>2, <2>3, <2>4, <2>5, <2>7 DEF GroupsInv
<1>3. CASE GroupFails
  <2>1. /\ ext' = NoExtraction /\ halfway' = (halfway \/ ext.todo # GroupOrder)
        /\ groups' = groups /\ started' = started
    BY <1>3 DEF GroupFails
  <2>2. /\ NoExtraction.gen = 0 /\ NoExtraction.todo = <<>>
        /\ NoExtraction = [gen |-> NoExtraction.gen, puts |-> NoExtraction.puts,
                           todo |-> NoExtraction.todo]
    BY DEF NoExtraction
  <2>3. /\ Len(GroupOrder) \in Nat /\ Len(<<>>) = 0 /\ <<>> \in Seq(Groups)
        /\ 0 \in 0 .. started
    BY GroupFilesAssumption
  <2>4. ~halfway' => OneGen(groups')
    BY <2>1 DEF GroupsInv
  <2>5. halfway' \in BOOLEAN
    BY <2>1
  <2>6. GroupFilesTypeOK'
    BY <2>1, <2>2, <2>3, <2>5 DEF GroupFilesTypeOK, GroupsInv
  <2> QED
    BY <2>1, <2>2, <2>3, <2>4, <2>6 DEF GroupsInv
<1>4. CASE UNCHANGED groupVars /\ started' \in {started, started + 1}
  <2>1. groups' = groups /\ ext' = ext /\ halfway' = halfway
    BY <1>4 DEF groupVars
  <2>2. \A x : x \in 0 .. started => x \in 0 .. started'
    BY <1>4
  <2>3. GroupFilesTypeOK'
    BY <2>1, <2>2 DEF GroupFilesTypeOK, GroupsInv
  <2> QED
    BY <2>1, <2>3 DEF GroupsInv
<1>5. GroupFilesNext \/ (UNCHANGED groupVars /\ started' \in {started, started + 1})
  <2>1. CASE UNCHANGED analysisVars
    BY <2>1 DEF analysisVars
  <2>2. CASE \E s \in Sessions : StartSession(s) /\ UNCHANGED groupVars
    BY <2>2 DEF StartSession, StartProgram
  <2>3. CASE UNCHANGED <<started, groupVars>>
    BY <2>3
  <2>4. CASE SpexoneNext /\ UNCHANGED groupVars
    BY <2>4 DEF SpexoneNext, StartTask, StartProgram, TaskStep, RemoveOld, SkipSparse, OpenGrid,
                AppendGrid, TaskRaises, CloseGrid, KillTask
  <2> QED
    BY <2>1, <2>2, <2>3, <2>4 DEF AnalysisNext
<1> QED
  BY <1>1, <1>2, <1>3, <1>4, <1>5 DEF GroupFilesNext

-----------------------------------------------------------------------------
(* The sessions. *)

LEMMA NoRowsEmpty == DOMAIN NoRows = {}
BY DEF NoRows

LEMMA SameData ==
    ASSUME NEW r, NEW q, NEW gs,
           q.opened = r.opened, q.models = r.models, q.rows = r.rows
    PROVE  /\ HasMembers(q) <=> HasMembers(r)
           /\ Quiet(q, gs) <=> Quiet(r, gs)
BY DEF HasMembers, Quiet

LEMMA IdleFields ==
    /\ SIdle.pc = "idle" /\ SIdle.opened = NoValues /\ SIdle.models = <<>>
    /\ SIdle.rows = NoRows /\ ~SIdle.target /\ ~SIdle.derived /\ SIdle.saw = {}
    /\ SIdle.n = 0 /\ SIdle = [f \in Fields |-> SIdle[f]]
BY DEF SIdle, Fields

LEMMA DataIdle ==
    ASSUME NEW gs, NEW done, NEW q, q = SIdle
    PROVE  DataInv(q, gs, done)
BY IdleFields DEF DataInv, Pcs, Later

(* More sessions may have ended. *)
LEMMA DataLonger ==
    ASSUME NEW r, NEW gs, NEW done, NEW more, DataInv(r, gs, done), done \subseteq more
    PROVE  DataInv(r, gs, more)
BY DEF DataInv

LEMMA StopData ==
    ASSUME SessionsInv, NEW s \in Sessions, Stop(s), NEW done
    PROVE  DataInv(sess'[s], groups, done)
<1>1. sess'[s] = SIdle
  BY DEF Stop, Become, SessionsInv
<1>2. PICK q, gs : q = sess'[s] /\ gs = groups
  OBVIOUS
<1>3. DataInv(q, gs, done)
  BY <1>1, <1>2, DataIdle
<1> QED
  BY <1>2, <1>3

LEMMA StartData ==
    ASSUME SessionsInv, NEW s \in Sessions, StartSession(s)
    PROVE  DataInv(sess'[s], groups, complete)
<1>1. PICK cached : Become(s, [SIdle EXCEPT !.pc = "cell1", !.n = started', !.cached = cached])
  BY DEF StartSession
<1>2. PICK r, n : r = SIdle /\ n = started'
  OBVIOUS
<1> DEFINE q == [r EXCEPT !.pc = "cell1", !.n = n, !.cached = cached]
<1>3. sess'[s] = q
  BY <1>1, <1>2 DEF Become, SessionsInv
<1>4. Shape(r) /\ r.opened = NoValues /\ r.models = <<>> /\ r.rows = NoRows
      /\ ~r.target /\ ~r.derived
  BY <1>2, IdleFields DEF Shape
<1>5. /\ q.pc = "cell1" /\ q.opened = r.opened /\ q.models = r.models /\ q.rows = r.rows
      /\ q.target = r.target /\ q.derived = r.derived
  BY <1>4 DEF Shape, Fields
<1> HIDE DEF q
<1>6. q.pc \in Pcs /\ q.pc \notin Later
  BY <1>5 DEF Pcs, Later
<1>7. Computing(q, groups)
  BY <1>4, <1>5 DEF Computing
<1> QED
  BY <1>3, <1>4, <1>5, <1>6, <1>7 DEF DataInv

LEMMA CellOneData ==
    ASSUME SessionsInv, GroupsInv, NEW s \in Sessions, DataInv(sess[s], groups, complete),
           CellOne(s)
    PROVE  DataInv(sess'[s], groups, complete)
<1>1. PICK r, hit : r = Saw(s) /\ hit = CacheHit(s)
  OBVIOUS
<1>2. PICK o, gs, done : o = sess[s] /\ gs = groups /\ done = complete
  OBVIOUS
<1>3. /\ Shape(o) /\ r = [o EXCEPT !.saw = @ \cup {hit}] /\ o.pc = "cell1"
      /\ DataInv(o, gs, done) /\ sess = [x \in Sessions |-> sess[x]]
  BY <1>1, <1>2, SawFacts DEF Saw, CellOne, SessionsInv
<1>4. /\ Shape(r) /\ r.opened = o.opened /\ r.models = o.models /\ r.rows = o.rows
      /\ r.target = o.target /\ r.derived = o.derived /\ r.quiet = o.quiet
  BY <1>3 DEF Shape, Fields
<1>5. /\ r.models = <<>> /\ r.opened = NoValues /\ r.rows = NoRows /\ ~r.target /\ ~r.derived
  BY <1>3, <1>4 DEF DataInv, Computing, Later
<1>6. CASE Stop(s)
  BY <1>6, StopData
<1>7. CASE Become(s, [Saw(s) EXCEPT !.pc = "cell2"])
  <2> DEFINE q == [r EXCEPT !.pc = "cell2"]
  <2>1. sess'[s] = q
    BY <1>1, <1>3, <1>7 DEF Become
  <2>2. /\ q.pc = "cell2" /\ q.opened = r.opened /\ q.models = r.models /\ q.rows = r.rows
        /\ q.target = r.target /\ q.derived = r.derived
    BY <1>4 DEF Shape, Fields
  <2> HIDE DEF q
  <2>3. Computing(q, gs)
    BY <1>5, <2>2 DEF Computing
  <2>4. DataInv(q, gs, done)
    BY <1>5, <2>2, <2>3 DEF DataInv, Pcs, Later
  <2> QED
    BY <1>2, <2>1, <2>4
<1>8. CASE /\ \A g \in Groups : groups[g] # None
           /\ Become(s, [Saw(s) EXCEPT !.pc = "open", !.todo = GroupOrder,
                                !.quiet = (ext = NoExtraction /\ ~halfway)])
  <2>1. PICK quiet \in BOOLEAN : quiet = (ext = NoExtraction /\ ~halfway)
    OBVIOUS
  <2> DEFINE q == [r EXCEPT !.pc = "open", !.todo = GroupOrder, !.quiet = quiet]
  <2>2. sess'[s] = q
    BY <1>1, <1>3, <1>8, <2>1 DEF Become
  <2>3. /\ q.pc = "open" /\ q.opened = r.opened /\ q.models = r.models /\ q.rows = r.rows
        /\ q.target = r.target /\ q.derived = r.derived /\ q.quiet = quiet
        /\ q.todo = GroupOrder
    BY <1>4 DEF Shape, Fields
  <2> HIDE DEF q
  <2>4. quiet => OneGen(gs)
    BY <1>2, <2>1 DEF GroupsInv
  <2>5. \A g \in Groups : q.opened[g] = None
    BY <1>5, <2>3 DEF NoValues
  <2>6. q.opened \in [Groups -> Content \cup {None}]
    BY <1>5, <2>3 DEF NoValues
  <2>7. quiet => Quiet(q, gs)
    BY <1>5, <2>3, <2>4, <2>5, NoRowsEmpty DEF Quiet, RowsOf
  <2>8. /\ GroupOrder \in Seq(Groups)
        /\ \A g \in Groups : \E i \in DOMAIN GroupOrder : GroupOrder[i] = g
    BY GroupFilesAssumption DEF Groups
  <2>9. \A g \in Groups : gs[g] # None
    BY <1>2, <1>8
  <2>10. Computing(q, gs)
    BY <1>5, <2>3, <2>6, <2>7, <2>8, <2>9 DEF Computing
  <2>11. DataInv(q, gs, done)
    BY <1>5, <2>3, <2>10 DEF DataInv, Pcs, Later
  <2> QED
    BY <1>2, <2>2, <2>11
<1> QED
  BY <1>6, <1>7, <1>8 DEF CellOne

LEMMA OpenGroupData ==
    ASSUME SessionsInv, GroupsInv, NEW s \in Sessions, DataInv(sess[s], groups, complete),
           OpenGroup(s)
    PROVE  DataInv(sess'[s], groups, complete)
<1>1. PICK r, gs, done, g : r = sess[s] /\ gs = groups /\ done = complete /\ g = Head(r.todo)
  OBVIOUS
<1>2. PICK file : file = gs[g]
  OBVIOUS
<1>3. PICK opened, rest : opened = [r.opened EXCEPT ![g] = file] /\ rest = Tail(r.todo)
  OBVIOUS
<1> DEFINE q == [r EXCEPT !.opened = opened, !.todo = rest]
<1>4. /\ Shape(r) /\ r.pc = "open" /\ r.todo # <<>> /\ DataInv(r, gs, done)
      /\ sess = [x \in Sessions |-> sess[x]]
  BY <1>1, SawFacts DEF OpenGroup, SessionsInv
<1>5. sess'[s] = q
  BY <1>1, <1>2, <1>3, <1>4 DEF OpenGroup, Become
<1>6. /\ q.pc = "open" /\ q.opened = opened /\ q.todo = rest /\ q.models = r.models
      /\ q.rows = r.rows /\ q.target = r.target /\ q.derived = r.derived /\ q.quiet = r.quiet
  BY <1>4 DEF Shape, Fields
<1> HIDE DEF q
<1>7. Computing(r, gs)
  BY <1>4 DEF DataInv, Later
<1>8. /\ r.models = <<>> /\ r.rows = NoRows /\ ~r.target /\ (r.quiet => Quiet(r, gs))
      /\ r.todo \in Seq(Groups) /\ r.opened \in [Groups -> Content \cup {None}]
      /\ \A h \in Groups : /\ gs[h] # None
                           /\ (\E i \in DOMAIN r.todo : r.todo[i] = h) \/ r.opened[h] # None
  BY <1>4, <1>7 DEF Computing
<1>9. g \in Groups /\ rest \in Seq(Groups)
  BY <1>1, <1>3, <1>4, <1>8
<1>10. file \in Content /\ file # None
  BY <1>1, <1>2, <1>8, <1>9 DEF GroupsInv
<1>11. /\ opened \in [Groups -> Content \cup {None}] /\ opened[g] = file
       /\ \A h \in Groups \ {g} : opened[h] = r.opened[h]
  BY <1>3, <1>8, <1>9, <1>10
<1>12. \A h \in Groups : (\E i \in DOMAIN rest : rest[i] = h) \/ opened[h] # None
  <2> SUFFICES ASSUME NEW h \in Groups, h # g, r.opened[h] = None
               PROVE  \E i \in DOMAIN rest : rest[i] = h
    BY <1>10, <1>11
  <2>1. PICK i \in DOMAIN r.todo : r.todo[i] = h
    BY <1>8
  <2>2. i - 1 \in DOMAIN rest /\ rest[i - 1] = h
    BY <1>1, <1>3, <1>4, <1>8, <2>1
  <2> QED
    BY <2>2
<1>13. r.quiet => Quiet(q, gs)
  BY <1>2, <1>6, <1>8, <1>11 DEF Quiet
<1>14. Computing(q, gs)
  BY <1>6, <1>8, <1>9, <1>11, <1>12, <1>13 DEF Computing
<1>15. DataInv(q, gs, done)
  BY <1>4, <1>6, <1>14 DEF DataInv, Pcs, Later
<1> QED
  BY <1>1, <1>5, <1>15

LEMMA SelectMembersData ==
    ASSUME SessionsInv, NEW s \in Sessions, DataInv(sess[s], groups, complete),
           SelectMembers(s)
    PROVE  DataInv(sess'[s], groups, complete)
<1>1. PICK r, gs, done : r = sess[s] /\ gs = groups /\ done = complete
  OBVIOUS
<1>2. /\ Shape(r) /\ r.pc = "open" /\ r.todo = <<>> /\ DataInv(r, gs, done)
      /\ sess = [x \in Sessions |-> sess[x]]
  BY <1>1, SawFacts DEF SelectMembers, SessionsInv
<1>3. CASE Stop(s)
  BY <1>3, StopData
<1>4. CASE /\ \A g \in Groups : Labels(r.opened[Burden]) \subseteq Labels(r.opened[g])
           /\ Become(s, [r EXCEPT !.pc = "cell2", !.models = r.opened[Burden].members])
  <2>1. PICK models : models = r.opened[Burden].members
    OBVIOUS
  <2> DEFINE q == [r EXCEPT !.pc = "cell2", !.models = models]
  <2>2. sess'[s] = q
    BY <1>2, <1>4, <2>1 DEF Become
  <2>3. /\ q.pc = "cell2" /\ q.opened = r.opened /\ q.models = models
        /\ q.rows = r.rows /\ q.target = r.target /\ q.derived = r.derived
        /\ q.quiet = r.quiet
    BY <1>2 DEF Shape, Fields
  <2> HIDE DEF q
  <2>4. Computing(r, gs)
    BY <1>2 DEF DataInv, Later
  <2>5. DOMAIN r.todo = {}
    BY <1>2
  <2>6. /\ r.rows = NoRows /\ ~r.target /\ (r.quiet => Quiet(r, gs))
        /\ r.opened \in [Groups -> Content \cup {None}]
        /\ \A g \in Groups : r.opened[g] # None
    BY <1>2, <2>4, <2>5 DEF Computing
  <2>7. r.opened \in [Groups -> Content]
    BY <2>6
  <2>8. HasMembers(q)
    BY <1>4, <2>1, <2>3, <2>7 DEF HasMembers
  <2>9. r.quiet => Quiet(q, gs)
    BY <2>3, <2>6 DEF Quiet
  <2>10. Computing(q, gs)
    BY <2>3, <2>6, <2>8, <2>9 DEF Computing
  <2>11. DataInv(q, gs, done)
    BY <1>2, <2>3, <2>10 DEF DataInv, Pcs, Later
  <2> QED
    BY <1>1, <2>2, <2>11
<1> QED
  BY <1>1, <1>3, <1>4 DEF SelectMembers

LEMMA NoPlaces == 1 - 1 = 0 /\ 1 .. 0 = {}
OBVIOUS

LEMMA FirstPlace ==
    ASSUME NEW S, NEW seq \in Seq(S), seq # <<>>
    PROVE  1 \in DOMAIN seq
<1>1. Len(seq) \in Nat /\ DOMAIN seq = 1 .. Len(seq)
  OBVIOUS
<1>2. Len(seq) # 0
  OBVIOUS
<1> QED
  BY <1>1, <1>2

(* q goes on with what r holds, and has seen at least as much. *)
Going(r, q) ==
    /\ Shape(q) /\ q.opened = r.opened /\ q.models = r.models /\ q.rows = r.rows
    /\ q.target = r.target /\ q.derived = r.derived /\ q.quiet = r.quiet
    /\ r.saw \subseteq q.saw

LEMMA GoingData ==
    ASSUME NEW r, NEW q, NEW gs, NEW done, DataInv(r, gs, done), Going(r, q),
           r.pc \notin Later \cup {"idle", "cell1", "open", "open table", "close table"},
           q.pc \in Pcs \ (Later \cup {"idle", "cell1", "open"}),
           q.pc = "cell2" => r.pc = "cell2",
           q.pc = "load2" => r.pc \in {"cell2", "load2"} /\ r.rows = NoRows
                             /\ ~r.target /\ q.i = 1,
           q.pc \in {"load2", "load3", "load4"} => r.models # <<>> /\ q.i = 1,
           q.pc \in {"load3", "load4", "open table", "close table"} => r.target,
           q.pc \in {"cell4", "load4", "open table", "close table"} /\ r.target
               => r.derived \/ TRUE \in q.saw
    PROVE  DataInv(q, gs, done)
<1>1. Computing(r, gs) /\ (r.derived => r.target)
  BY DEF DataInv
<1>2. /\ HasMembers(q) <=> HasMembers(r)
      /\ Quiet(q, gs) <=> Quiet(r, gs)
      /\ q.opened = r.opened /\ q.models = r.models /\ q.rows = r.rows
      /\ q.target = r.target /\ q.derived = r.derived /\ q.quiet = r.quiet
  BY SameData DEF Going
<1>3. q.models # <<>> => 1 \in DOMAIN q.models
  <2>1. CASE r.models # <<>>
    <3>1. r.opened[Burden].members \in Seq(Members) \ {<<>>}
      BY <1>1, <2>1, AnalysisAssumption DEF Computing, HasMembers, Content
    <3>2. r.models \in Seq(Members) /\ r.models # <<>>
      BY <1>1, <2>1, <3>1 DEF Computing, HasMembers
    <3> QED
      BY <1>2, <3>2, FirstPlace
  <2> QED
    BY <1>2, <2>1
<1>4. q.pc = "load2" => DOMAIN q.rows = {q.models[j] : j \in 1 .. (q.i - 1)}
  <2>1. CASE q.pc = "load2"
    <3>1. q.i = 1
      BY <2>1
    <3>2. {q.models[j] : j \in 1 .. (q.i - 1)} = {}
      <4>1. 1 - 1 = 0 /\ 1 .. 0 = {}
        BY NoPlaces
      <4> QED
        BY <3>1, <4>1
    <3> QED
      BY <1>2, <2>1, <3>2, NoRowsEmpty
  <2> QED
    BY <2>1
<1>5. Computing(q, gs)
  <2>1. q.models = <<>> \/ HasMembers(q)
    BY <1>1, <1>2 DEF Computing
  <2>2. /\ q.pc \notin {"cell1", "open"}
        /\ q.pc = "cell2" => q.rows = NoRows
        /\ q.pc \in {"cell2", "load2"} => ~q.target
    BY <1>1, <1>2 DEF Computing
  <2>3. /\ q.pc \in {"load2", "load3", "load4"} => q.i \in DOMAIN q.models
        /\ q.pc \in {"load3", "load4", "open table", "close table"} => q.target
        /\ q.target => q.models # <<>>
    BY <1>1, <1>2, <1>3 DEF Computing
  <2>4. q.target => DOMAIN q.rows = Labels(q.opened[Burden])
    BY <1>1, <1>2 DEF Computing
  <2>5. q.quiet /\ q.models # <<>> => Quiet(q, gs)
    BY <1>1, <1>2 DEF Computing
  <2> QED
    BY <1>2, <1>4, <2>1, <2>2, <2>3, <2>4, <2>5 DEF Computing
<1> QED
  BY <1>1, <1>2, <1>5 DEF DataInv

LEMMA CellsData ==
    ASSUME SessionsInv, NEW s \in Sessions, DataInv(sess[s], groups, complete),
           CellTwo(s) \/ CellThree(s) \/ CellFour(s) \/ ReadMonthly(s)
    PROVE  DataInv(sess'[s], groups, complete)
<1>1. PICK o, gs, done : o = sess[s] /\ gs = groups /\ done = complete
  OBVIOUS
<1>2. PICK r \in {sess[s], Saw(s)} : r = IF ReadMonthly(s) THEN sess[s] ELSE Saw(s)
  OBVIOUS
<1>3. /\ Shape(r) /\ Shape(o) /\ sess = [x \in Sessions |-> sess[x]]
      /\ DataInv(o, gs, done) /\ r.pc = o.pc
  BY <1>1, <1>2, SawFacts DEF SessionsInv
<1>4. Going(o, r)
  <2>1. CASE r = o
    BY <1>3, <2>1 DEF Going
  <2>2. CASE r = Saw(s)
    <3>1. PICK hit : hit = CacheHit(s)
      OBVIOUS
    <3>2. r = [o EXCEPT !.saw = @ \cup {hit}]
      BY <1>1, <2>2, <3>1 DEF Saw
    <3> QED
      BY <1>3, <3>2 DEF Shape, Fields, Going
  <2> QED
    BY <1>1, <1>2, <2>1, <2>2
<1>5. ASSUME NEW q, Going(r, q), sess'[s] = q
      PROVE  Going(o, q)
  BY <1>4, <1>5 DEF Going
<1>6. CASE Stop(s)
  BY <1>6, StopData
<1>7. CASE CellTwo(s)
  <2>1. PICK pc : pc = IF CacheHit(s) \/ sess[s].models = <<>> THEN "cell3" ELSE "load2"
    OBVIOUS
  <2> DEFINE q == [r EXCEPT !.i = 1, !.pc = pc]
  <2>2. r = Saw(s) /\ o.pc = "cell2"
    BY <1>1, <1>2, <1>7 DEF CellTwo, ReadMonthly
  <2>3. sess'[s] = q
    BY <1>3, <1>7, <2>1, <2>2 DEF CellTwo, Become
  <2>4. Going(r, q) /\ q.pc = pc /\ q.i = 1
    BY <1>3 DEF Shape, Fields, Going
  <2> HIDE DEF q
  <2>5. pc = "cell3" \/ (pc = "load2" /\ o.models # <<>>)
    BY <1>1, <2>1
  <2>6. o.rows = NoRows /\ ~o.target
    BY <1>3, <2>2 DEF DataInv, Computing, Later
  <2>7. DataInv(q, gs, done)
    BY <1>3, <1>5, <2>2, <2>3, <2>4, <2>5, <2>6, GoingData DEF Pcs, Later
  <2> QED
    BY <1>1, <2>3, <2>7
<1>8. CASE CellThree(s)
  <2>1. PICK pc : pc = IF CacheHit(s) \/ ~sess[s].target THEN "cell4" ELSE "load3"
    OBVIOUS
  <2> DEFINE q == [r EXCEPT !.i = 1, !.pc = pc]
  <2>2. r = Saw(s) /\ o.pc = "cell3"
    BY <1>1, <1>2, <1>8 DEF CellThree, ReadMonthly
  <2>3. sess'[s] = q
    BY <1>3, <1>8, <2>1, <2>2 DEF CellThree, Become
  <2>4. Going(r, q) /\ q.pc = pc /\ q.i = 1 /\ q.saw = r.saw
    BY <1>3 DEF Shape, Fields, Going
  <2> HIDE DEF q
  <2>5. (pc = "cell4" /\ (CacheHit(s) \/ ~o.target)) \/ (pc = "load3" /\ o.target)
    BY <1>1, <2>1
  <2>6. CacheHit(s) => TRUE \in q.saw
    BY <1>1, <2>2, <2>4, SawFacts
  <2>7. o.target => o.models # <<>>
    BY <1>3, <2>2 DEF DataInv, Computing, Later
  <2>8. DataInv(q, gs, done)
    BY <1>3, <1>5, <2>2, <2>3, <2>4, <2>5, <2>6, <2>7, GoingData DEF Pcs, Later
  <2> QED
    BY <1>1, <2>3, <2>8
<1>9. CASE CellFour(s) /\ ~Stop(s)
  <2>1. r = Saw(s) /\ o.pc = "cell4"
    BY <1>1, <1>2, <1>9 DEF CellFour, ReadMonthly
  <2>2. o.target => o.models # <<>> /\ (o.derived \/ TRUE \in o.saw)
    BY <1>3, <2>1 DEF DataInv, Computing, Later
  <2>3. o.derived => o.target
    BY <1>3 DEF DataInv
  <2>4. CASE CacheHit(s)
    <3> DEFINE q == [r EXCEPT !.pc = "read"]
    <3>1. sess'[s] = q
      BY <1>3, <1>9, <2>1, <2>4 DEF CellFour, Become
    <3>2. Going(r, q) /\ q.pc = "read"
      BY <1>3 DEF Shape, Fields, Going
    <3> HIDE DEF q
    <3>3. DataInv(q, gs, done)
      BY <1>3, <1>5, <2>1, <3>1, <3>2, GoingData DEF Pcs, Later
    <3> QED
      BY <1>1, <3>1, <3>3
  <2>5. CASE ~CacheHit(s)
    <3>1. PICK pc : pc = IF o.derived THEN "load4" ELSE "open table"
      OBVIOUS
    <3> DEFINE q == [r EXCEPT !.i = 1, !.todo = TableOrder, !.pc = pc]
    <3>2. o.target /\ sess'[s] = q
      BY <1>1, <1>3, <1>9, <2>1, <2>5, <3>1 DEF CellFour, Become
    <3>3. Going(r, q) /\ q.pc = pc /\ q.i = 1
      BY <1>3 DEF Shape, Fields, Going
    <3> HIDE DEF q
    <3>4. pc \in {"load4", "open table"}
      BY <3>1
    <3>5. o.derived \/ TRUE \in q.saw
      BY <1>5, <2>2, <3>2, <3>3 DEF Going
    <3>6. DataInv(q, gs, done)
      BY <1>3, <1>5, <2>1, <2>2, <3>2, <3>3, <3>4, <3>5, GoingData DEF Pcs, Later
    <3> QED
      BY <1>1, <3>2, <3>6
  <2> QED
    BY <2>4, <2>5
<1>10. CASE ReadMonthly(s) /\ ~Stop(s)
  <2> DEFINE q == [r EXCEPT !.pc = "read seasonal"]
  <2>1. r = o /\ o.pc = "read" /\ sess'[s] = q
    BY <1>1, <1>2, <1>3, <1>10 DEF ReadMonthly, Become
  <2>2. Going(r, q) /\ q.pc = "read seasonal"
    BY <1>3 DEF Shape, Fields, Going
  <2> HIDE DEF q
  <2>3. DataInv(q, gs, done)
    BY <1>3, <1>5, <2>1, <2>2, GoingData DEF Pcs, Later
  <2> QED
    BY <1>1, <2>1, <2>3
<1> QED
  BY <1>6, <1>7, <1>8, <1>9, <1>10

(* sel finds the member in every group the session opened. *)
LEMMA PositionFacts ==
    ASSUME NEW r, HasMembers(r), NEW m \in Labels(r.opened[Burden]), NEW g \in Groups
    PROVE  r.opened[g].members[Position(r, g, m)] = m
<1>1. m \in Labels(r.opened[g])
  BY DEF HasMembers
<1>2. \E p \in DOMAIN r.opened[g].members : r.opened[g].members[p] = m
  BY <1>1 DEF Labels
<1> QED
  BY <1>2 DEF Position

(* more is rows with a row got for m. *)
Added(rows, m, got, more) ==
    /\ DOMAIN more = {m} \cup DOMAIN rows /\ more[m] = got
    /\ \A k \in DOMAIN rows : k # m => more[k] = rows[k]

LEMMA RowAdded ==
    ASSUME NEW rows, NEW m, NEW got, NEW more,
           more = [k \in {m} \cup DOMAIN rows |-> IF k = m THEN got ELSE rows[k]]
    PROVE  Added(rows, m, got, more)
BY DEF Added

(* A group's value of m is read now or was read in an earlier cell. *)
Loaded(r, m, got) ==
    \A g \in Groups : \/ got[g] \in {Value(r, g, m), None}
                      \/ m \in DOMAIN r.rows /\ got[g] = r.rows[m][g]

(* What one member's values add to what a quiet session holds. *)
LEMMA LoadQuiet ==
    ASSUME NEW r, NEW m, NEW got, NEW rows,
           HasMembers(r), m \in Labels(r.opened[Burden]), Quiet(r, groups),
           Loaded(r, m, got), Added(r.rows, m, got, rows)
    PROVE  RowsOf(rows, groups)
<1>1. /\ DOMAIN rows = {m} \cup DOMAIN r.rows /\ rows[m] = got
      /\ \A k \in DOMAIN r.rows : k # m => rows[k] = r.rows[k]
  BY DEF Added
<1>2. RowsOf(r.rows, groups) /\ \A g \in Groups : r.opened[g] # None => r.opened[g] = groups[g]
  BY DEF Quiet
<1>3. ASSUME NEW g \in Groups, got[g] # None
      PROVE  got[g].member = m /\ groups[g] # None /\ got[g].gen = groups[g].gen
  <2>1. CASE got[g] = Value(r, g, m)
    <3>1. r.opened[g] \in Content /\ r.opened[g] = groups[g] /\ groups[g] # None
      BY <1>2, ContentIsNoNone DEF HasMembers
    <3>2. groups[g].members[Position(r, g, m)] = m
      BY <3>1, PositionFacts
    <3> QED
      BY <2>1, <3>1, <3>2 DEF Value
  <2>2. CASE m \in DOMAIN r.rows /\ got[g] = r.rows[m][g]
    BY <1>2, <1>3, <2>2 DEF RowsOf
  <2> QED
    BY <1>3, <2>1, <2>2 DEF Loaded
<1>4. ASSUME NEW k \in DOMAIN rows, NEW g \in Groups, rows[k][g] # None
      PROVE  rows[k][g].member = k /\ groups[g] # None /\ rows[k][g].gen = groups[g].gen
  <2>1. CASE k = m
    BY <1>1, <1>3, <1>4, <2>1
  <2>2. CASE k # m
    BY <1>1, <1>2, <1>4, <2>2 DEF RowsOf
  <2> QED
    BY <2>1, <2>2
<1> QED
  BY <1>4 DEF RowsOf

LEMMA LoadData ==
    ASSUME SessionsInv, NEW s \in Sessions, DataInv(sess[s], groups, complete),
           NEW cell \in 2 .. 4, Load(s, cell),
           cell = 2 => sess[s].pc = "load2", cell = 3 => sess[s].pc = "load3",
           cell = 4 => sess[s].pc = "load4"
    PROVE  DataInv(sess'[s], groups, complete)
<1>1. PICK r, gs, done : r = sess[s] /\ gs = groups /\ done = complete
  OBVIOUS
<1>2. PICK m, here, old :
          /\ m = r.models[r.i]
          /\ here = {g \in Groups : CellOf[g] = cell /\ r.opened[g].fit}
          /\ old = IF m \in DOMAIN r.rows THEN r.rows[m] ELSE NoValues
  OBVIOUS
<1>3. PICK got : got = [g \in Groups |-> IF g \in here /\ Readable(r, g, m) THEN Value(r, g, m)
                                         ELSE old[g]]
  OBVIOUS
<1>4. PICK rows, next, target :
          /\ rows = [k \in {m} \cup DOMAIN r.rows |-> IF k = m THEN got ELSE r.rows[k]]
          /\ next = r.i + 1
          /\ target = \A g \in NeededGroups : r.opened[g].fit
  OBVIOUS
<1>5. PICK last \in BOOLEAN : last = ~(r.i < Len(r.models))
  OBVIOUS
<1>6. /\ Shape(r) /\ DataInv(r, gs, done) /\ sess = [x \in Sessions |-> sess[x]]
      /\ \/ cell = 2 /\ r.pc = "load2"
         \/ cell = 3 /\ r.pc = "load3"
         \/ cell = 4 /\ r.pc = "load4"
  <2>1. cell = 2 \/ cell = 3 \/ cell = 4
    OBVIOUS
  <2> QED
    BY <1>1, <2>1, SawFacts DEF SessionsInv
<1>7. Computing(r, gs) /\ (r.derived => r.target)
  BY <1>6 DEF DataInv, Later
<1>8. r.i \in DOMAIN r.models /\ r.models # <<>>
  <2>1. r.i \in DOMAIN r.models
    BY <1>6, <1>7 DEF Computing
  <2> QED
    BY <2>1
<1>9. /\ HasMembers(r) /\ m \in Labels(r.opened[Burden])
      /\ r.models \in Seq(Members) /\ r.i \in 1 .. Len(r.models)
      /\ Labels(r.opened[Burden]) = {r.models[j] : j \in DOMAIN r.models}
      /\ r.quiet => Quiet(r, gs)
  <2>1. HasMembers(r)
    BY <1>7, <1>8 DEF Computing
  <2>2. r.opened[Burden].members \in Seq(Members) /\ r.models = r.opened[Burden].members
    BY <2>1, AnalysisAssumption DEF HasMembers, Content
  <2>3. r.quiet => Quiet(r, gs)
    BY <1>7, <1>8 DEF Computing
  <2> QED
    BY <1>2, <1>8, <2>1, <2>2, <2>3 DEF Labels
<1>10. Added(r.rows, m, got, rows) /\ DOMAIN rows = {m} \cup DOMAIN r.rows
  <2>1. Added(r.rows, m, got, rows)
    BY <1>4, RowAdded
  <2> QED
    BY <2>1 DEF Added
<1>11. r.quiet => OneGen(gs) /\ RowsOf(rows, gs)
       /\ \A g \in Groups : r.opened[g] # None => r.opened[g] = gs[g]
  <2> SUFFICES ASSUME r.quiet
               PROVE  OneGen(gs) /\ RowsOf(rows, gs)
                      /\ \A g \in Groups : r.opened[g] # None => r.opened[g] = gs[g]
    OBVIOUS
  <2>1. Loaded(r, m, got)
    BY <1>2, <1>3 DEF Loaded, NoValues
  <2>2. Quiet(r, groups)
    BY <1>1, <1>9
  <2>3. RowsOf(rows, groups)
    BY <1>9, <1>10, <2>1, <2>2, LoadQuiet
  <2> QED
    BY <1>1, <2>2, <2>3 DEF Quiet
<1> DEFINE more  == [r EXCEPT !.rows = rows, !.i = next]
           two   == [r EXCEPT !.rows = rows, !.i = next, !.pc = "cell3", !.target = target]
           three == [r EXCEPT !.rows = rows, !.i = next, !.pc = "cell4", !.derived = TRUE]
           four  == [r EXCEPT !.rows = rows, !.i = next, !.pc = "open table"]
<1>12. \/ Stop(s)
       \/ ~last /\ sess'[s] = more
       \/ last /\ \/ cell = 2 /\ sess'[s] = two
                  \/ cell = 3 /\ sess'[s] = three
                  \/ cell = 4 /\ sess'[s] = four
  <2> DEFINE M  == r.models[r.i]
             H  == {g \in Groups : CellOf[g] = cell /\ r.opened[g].fit}
             O  == IF M \in DOMAIN r.rows THEN r.rows[M] ELSE NoValues
             G  == [g \in Groups |-> IF g \in H /\ Readable(r, g, M) THEN Value(r, g, M)
                                     ELSE O[g]]
             Q  == [k \in {M} \cup DOMAIN r.rows |-> IF k = M THEN G ELSE r.rows[k]]
             A  == [r EXCEPT !.rows = Q, !.i = @ + 1]
             A2 == [A EXCEPT !.pc = "cell3", !.target = \A g \in NeededGroups : r.opened[g].fit]
             A3 == [A EXCEPT !.pc = "cell4", !.derived = TRUE]
             A4 == [A EXCEPT !.pc = "open table"]
             AL == CASE cell = 2 -> A2 [] cell = 3 -> A3 [] cell = 4 -> A4
  <2>1. Stop(s) \/ (~last /\ Become(s, A)) \/ (last /\ Become(s, AL))
    BY <1>1, <1>5 DEF Load
  <2>2. A = more
    BY <1>2, <1>3, <1>4
  <2>3. A2 = two /\ A3 = three /\ A4 = four
    <3> HIDE DEF A
    <3>1. A2 = [more EXCEPT !.pc = "cell3", !.target = target]
      BY <1>4, <2>2
    <3>2. A3 = [more EXCEPT !.pc = "cell4", !.derived = TRUE]
      BY <2>2
    <3>3. A4 = [more EXCEPT !.pc = "open table"]
      BY <2>2
    <3>4. [more EXCEPT !.pc = "cell3", !.target = target] = two
      BY <1>6 DEF Shape, Fields
    <3>5. [more EXCEPT !.pc = "cell4", !.derived = TRUE] = three
      BY <1>6 DEF Shape, Fields
    <3>6. [more EXCEPT !.pc = "open table"] = four
      BY <1>6 DEF Shape, Fields
    <3> HIDE DEF A2, A3, A4, more, two, three, four
    <3> QED
      BY <3>1, <3>2, <3>3, <3>4, <3>5, <3>6
  <2> HIDE DEF A, A2, A3, A4, more, two, three, four
  <2>4. \/ cell = 2 /\ AL = two
        \/ cell = 3 /\ AL = three
        \/ cell = 4 /\ AL = four
    BY <2>3
  <2> HIDE DEF AL
  <2> QED
    BY <1>6, <2>1, <2>2, <2>4 DEF Become
<1>13. ASSUME NEW q, q \in {more, two, three, four}
       PROVE  /\ q.rows = rows /\ q.i = next /\ q.opened = r.opened /\ q.models = r.models
              /\ q.quiet = r.quiet /\ q.saw = r.saw
              /\ q = more => q.pc = r.pc /\ q.target = r.target /\ q.derived = r.derived
              /\ q = two => q.pc = "cell3" /\ q.target = target /\ q.derived = r.derived
              /\ q = three => q.pc = "cell4" /\ q.target = r.target /\ q.derived
              /\ q = four => q.pc = "open table" /\ q.target = r.target /\ q.derived = r.derived
  BY <1>6, <1>13 DEF Shape, Fields
<1> HIDE DEF more, two, three, four
<1>14. ASSUME NEW q, q \in {more, two, three, four}
       PROVE  /\ HasMembers(q) /\ (q.quiet => Quiet(q, gs)) /\ q.models # <<>>
              /\ q.opened = r.opened /\ q.rows = rows
  <2>1. /\ q.rows = rows /\ q.opened = r.opened /\ q.models = r.models
        /\ q.quiet = r.quiet
    BY <1>13, <1>14
  <2>2. HasMembers(q)
    BY <1>9, <2>1 DEF HasMembers
  <2>3. q.quiet => Quiet(q, gs)
    BY <1>11, <2>1 DEF Quiet
  <2> QED
    BY <1>8, <2>1, <2>2, <2>3
<1>15. r.pc # "load2" => /\ r.target /\ DOMAIN rows = Labels(r.opened[Burden])
                         /\ r.pc = "load4" => r.derived \/ TRUE \in r.saw
  BY <1>6, <1>7, <1>9, <1>10 DEF Computing
<1>16. r.pc = "load2" => /\ ~r.target /\ ~r.derived
                         /\ DOMAIN rows = {r.models[j] : j \in 1 .. (next - 1)}
  <2> SUFFICES ASSUME r.pc = "load2"
               PROVE  /\ ~r.target /\ ~r.derived
                      /\ DOMAIN rows = {r.models[j] : j \in 1 .. (next - 1)}
    OBVIOUS
  <2>1. ~r.target /\ ~r.derived /\ DOMAIN r.rows = {r.models[j] : j \in 1 .. (r.i - 1)}
    BY <1>7 DEF Computing
  <2>2. \A j : j \in 1 .. (next - 1) <=> j = r.i \/ j \in 1 .. (r.i - 1)
    BY <1>4, <1>9
  <2> QED
    BY <1>2, <1>10, <2>1, <2>2
<1>17. /\ DOMAIN r.models = 1 .. Len(r.models) /\ Len(r.models) \in Nat /\ r.i \in Nat
       /\ r.i >= 1 /\ r.i <= Len(r.models) /\ (last <=> ~(r.i < Len(r.models)))
       /\ (last => r.i = Len(r.models)) /\ next \in Nat /\ next - 1 = r.i
       /\ (~last => next <= Len(r.models))
  <2>1. Len(r.models) \in Nat /\ DOMAIN r.models = 1 .. Len(r.models)
    BY <1>9
  <2>2. r.i \in Nat /\ r.i >= 1 /\ r.i <= Len(r.models)
    BY <1>9, <2>1
  <2>3. PICK i \in Nat, len \in Nat : i = r.i /\ len = Len(r.models) /\ i <= len
    BY <2>1, <2>2
  <2>4. last <=> ~(i < len)
    BY <1>5, <2>3
  <2>5. next = i + 1
    BY <1>4, <2>3
  <2>6. (last => i = len) /\ next \in Nat /\ next - 1 = i /\ (~last => next <= len)
    BY <2>3, <2>4, <2>5
  <2> QED
    BY <2>1, <2>2, <2>3, <2>4, <2>6
<1>18. last => DOMAIN rows = Labels(r.opened[Burden])
  <2>1. CASE r.pc = "load2" /\ last
    <3>1. 1 .. (next - 1) = DOMAIN r.models
      <4>1. next - 1 = r.i /\ r.i = Len(r.models)
        BY <1>17, <2>1
      <4> QED
        BY <1>17, <4>1
    <3> QED
      BY <1>9, <1>16, <2>1, <3>1
  <2> QED
    BY <1>15, <2>1
<1>19. ~last => next \in DOMAIN r.models
  <2>1. CASE ~last
    <3>1. next \in 1 .. Len(r.models)
      BY <1>17, <2>1
    <3> QED
      BY <1>17, <3>1
  <2> QED
    BY <2>1
<1>20. CASE Stop(s)
  BY <1>20, StopData
<1>21. CASE ~last /\ sess'[s] = more
  <2>1. /\ more.pc = r.pc /\ more.target = r.target /\ more.derived = r.derived
        /\ more.rows = rows /\ more.i = next /\ more.opened = r.opened
        /\ more.models = r.models /\ more.quiet = r.quiet /\ more.saw = r.saw
    BY <1>13
  <2>2. HasMembers(more) /\ (more.quiet => Quiet(more, gs)) /\ more.models # <<>>
    BY <1>14
  <2>3. Computing(more, gs)
    <3>1. CASE r.pc = "load2"
      BY <1>16, <1>19, <1>21, <2>1, <2>2, <3>1 DEF Computing
    <3>2. CASE r.pc \in {"load3", "load4"}
      BY <1>15, <1>19, <1>21, <2>1, <2>2, <3>2 DEF Computing
    <3> QED
      BY <1>6, <3>1, <3>2
  <2>4. DataInv(more, gs, done)
    BY <1>6, <1>7, <2>1, <2>3 DEF DataInv, Pcs, Later
  <2> QED
    BY <1>1, <1>21, <2>4
<1>22. CASE last /\ cell = 2 /\ sess'[s] = two
  <2>1. /\ two.pc = "cell3" /\ two.target = target /\ two.derived = r.derived
        /\ two.rows = rows /\ two.opened = r.opened
    BY <1>13
  <2>2. HasMembers(two) /\ (two.quiet => Quiet(two, gs)) /\ two.models # <<>>
    BY <1>14
  <2>3. Computing(two, gs)
    BY <1>18, <1>22, <2>1, <2>2 DEF Computing
  <2>4. ~r.derived
    BY <1>6, <1>16, <1>22
  <2>5. DataInv(two, gs, done)
    BY <2>1, <2>3, <2>4 DEF DataInv, Pcs, Later
  <2> QED
    BY <1>1, <1>22, <2>5
<1>23. CASE last /\ cell = 3 /\ sess'[s] = three
  <2>1. /\ three.pc = "cell4" /\ three.target = r.target /\ three.derived
        /\ three.rows = rows /\ three.opened = r.opened
    BY <1>13
  <2>2. HasMembers(three) /\ (three.quiet => Quiet(three, gs)) /\ three.models # <<>>
    BY <1>14
  <2>3. Computing(three, gs)
    BY <1>18, <1>23, <2>1, <2>2 DEF Computing
  <2>4. r.target
    BY <1>6, <1>15, <1>23
  <2>5. DataInv(three, gs, done)
    BY <2>1, <2>3, <2>4 DEF DataInv, Pcs, Later
  <2> QED
    BY <1>1, <1>23, <2>5
<1>24. CASE last /\ cell = 4 /\ sess'[s] = four
  <2>1. /\ four.pc = "open table" /\ four.target = r.target /\ four.derived = r.derived
        /\ four.rows = rows /\ four.opened = r.opened /\ four.saw = r.saw
    BY <1>13
  <2>2. HasMembers(four) /\ (four.quiet => Quiet(four, gs)) /\ four.models # <<>>
    BY <1>14
  <2>3. r.target /\ (r.derived \/ TRUE \in r.saw)
    BY <1>6, <1>15, <1>24
  <2>4. Computing(four, gs)
    BY <1>18, <1>24, <2>1, <2>2, <2>3 DEF Computing
  <2>5. DataInv(four, gs, done)
    BY <2>1, <2>3, <2>4 DEF DataInv, Pcs, Later
  <2> QED
    BY <1>1, <1>24, <2>5
<1> QED
  BY <1>12, <1>20, <1>21, <1>22, <1>23, <1>24

LEMMA ComputeData ==
    ASSUME SessionsInv, NEW s \in Sessions, DataInv(sess[s], groups, complete), Compute(s)
    PROVE  DataInv(sess'[s], groups, complete)
<1>1. CASE sess[s].pc = "load2" /\ Load(s, 2)
  BY <1>1, LoadData
<1>2. CASE sess[s].pc = "load3" /\ Load(s, 3)
  BY <1>2, LoadData
<1>3. CASE sess[s].pc = "load4" /\ Load(s, 4)
  BY <1>3, LoadData
<1> QED
  BY <1>1, <1>2, <1>3 DEF Compute

(* The seasonal table is of a session that wrote both. *)
LEMMA ReadSeasonalData ==
    ASSUME SessionsInv, NEW s \in Sessions, DataInv(sess[s], groups, complete),
           table["seasonal"].state = "whole" => table["seasonal"].n \in complete,
           ReadSeasonal(s)
    PROVE  DataInv(sess'[s], groups, complete)
<1>1. PICK r, gs, done, rows, n, quiet :
          /\ r = sess[s] /\ gs = groups /\ done = complete
          /\ rows = table["seasonal"].rows /\ n = table["seasonal"].n
          /\ quiet = (r.quiet /\ table["seasonal"].quiet)
  OBVIOUS
<1>2. CASE Stop(s)
  BY <1>2, StopData
<1>3. CASE /\ table["seasonal"].state = "whole" /\ rows # NoRows
           /\ Become(s, [r EXCEPT !.pc = "months", !.opened = NoValues, !.todo = <<>>,
                                  !.grids = r.rows, !.rows = rows, !.from = n,
                                  !.quiet = quiet])
  <2> DEFINE q == [r EXCEPT !.pc = "months", !.opened = NoValues, !.todo = <<>>,
                            !.grids = r.rows, !.rows = rows, !.from = n, !.quiet = quiet]
  <2>1. Shape(r) /\ DataInv(r, gs, done) /\ n \in done
    BY <1>1, <1>3, SawFacts
  <2>2. /\ q.pc = "months" /\ q.rows = rows /\ q.from = n /\ q.target = r.target
        /\ q.derived = r.derived
    BY <2>1 DEF Shape, Fields
  <2>3. sess'[s] = q
    BY <1>3 DEF Become, SessionsInv
  <2> HIDE DEF q
  <2>4. DataInv(q, gs, done)
    BY <1>3, <2>1, <2>2 DEF DataInv, Pcs, Later
  <2> QED
    BY <1>1, <2>3, <2>4
<1> QED
  BY <1>1, <1>2, <1>3 DEF ReadSeasonal

LEMMA LaterData ==
    ASSUME NEW r, NEW q, NEW gs, NEW done, DataInv(r, gs, done),
           r.pc \in Later, q.pc \in Later, q.rows = r.rows, q.from = r.from,
           q.target = r.target, q.derived = r.derived
    PROVE  DataInv(q, gs, done)
BY DEF DataInv, Pcs

LEMMA MonthsData ==
    ASSUME SessionsInv, NEW s \in Sessions, DataInv(sess[s], groups, complete),
           LookForMonths(s) \/ ReadMonth(s)
    PROVE  DataInv(sess'[s], groups, complete)
<1>1. PICK r, gs, done : r = sess[s] /\ gs = groups /\ done = complete
  OBVIOUS
<1>2. Shape(r) /\ DataInv(r, gs, done) /\ sess = [x \in Sessions |-> sess[x]]
  BY <1>1, SawFacts DEF SessionsInv
<1>3. CASE LookForMonths(s)
  <2>1. PICK found, missing, pc :
            /\ found = {m \in Months : grid[m] # NoGrid} /\ missing = Listed(found)
            /\ pc = IF found = {} THEN "report" ELSE "read months"
    OBVIOUS
  <2>2. PICK failed \in BOOLEAN : failed = (found = {})
    OBVIOUS
  <2> DEFINE q == [r EXCEPT !.left = found, !.failed = failed, !.missing = missing, !.pc = pc]
  <2>3. sess'[s] = q /\ r.pc = "months"
    BY <1>1, <1>2, <1>3, <2>1, <2>2 DEF LookForMonths, Become
  <2>4. /\ q.pc = pc /\ q.rows = r.rows /\ q.from = r.from /\ q.target = r.target
        /\ q.derived = r.derived
    BY <1>2 DEF Shape, Fields
  <2> HIDE DEF q
  <2>5. pc \in Later /\ r.pc \in Later
    BY <2>1, <2>3 DEF Later
  <2>6. DataInv(q, gs, done)
    BY <1>2, <2>4, <2>5, LaterData
  <2> QED
    BY <1>1, <2>3, <2>6
<1>4. CASE ReadMonth(s)
  <2>1. PICK m, x : m = First(r.left) /\ x = grid[m]
    OBVIOUS
  <2>2. r.pc = "read months"
    BY <1>1, <1>4 DEF ReadMonth
  <2>3. PICK pc, used : /\ pc = IF r.left = {m} THEN "report" ELSE r.pc
                        /\ used = [r.used EXCEPT ![m] = x]
    OBVIOUS
  <2> DEFINE q == [r EXCEPT !.pc = "report", !.failed = TRUE, !.left = {},
                            !.used = NothingRead]
             p == [r EXCEPT !.left = @ \ {m}, !.used = used, !.pc = pc]
  <2>4. sess'[s] = q \/ sess'[s] = p
    <3>1. Become(s, IF x = NoGrid \/ ~x.whole
                 THEN [r EXCEPT !.pc = "report", !.failed = TRUE, !.left = {},
                                !.used = NothingRead]
                 ELSE [r EXCEPT !.left = @ \ {m}, !.used[m] = x,
                                !.pc = IF r.left = {m} THEN "report" ELSE @])
      BY <1>1, <1>4, <2>1 DEF ReadMonth
    <3>2. [r EXCEPT !.left = @ \ {m}, !.used[m] = x,
                    !.pc = IF r.left = {m} THEN "report" ELSE @] = p
      BY <2>3
    <3>3. Become(s, q) \/ Become(s, p)
      BY <3>1, <3>2
    <3> QED
      BY <1>2, <3>3 DEF Become
  <2>5. /\ q.pc = "report" /\ q.rows = r.rows /\ q.from = r.from /\ q.target = r.target
        /\ q.derived = r.derived
    BY <1>2 DEF Shape, Fields
  <2>6. /\ p.pc = pc /\ p.rows = r.rows /\ p.from = r.from /\ p.target = r.target
        /\ p.derived = r.derived
    BY <1>2 DEF Shape, Fields
  <2> HIDE DEF q, p
  <2>7. pc \in Later /\ r.pc \in Later /\ "report" \in Later
    BY <2>2, <2>3 DEF Later
  <2>8. DataInv(q, gs, done)
    BY <1>2, <2>5, <2>7, LaterData
  <2>9. DataInv(p, gs, done)
    BY <1>2, <2>6, <2>7, LaterData
  <2> QED
    BY <1>1, <2>4, <2>8, <2>9
<1> QED
  BY <1>3, <1>4

(* A group file is replaced: whoever runs is no longer quiet. *)
LEMMA DisturbData ==
    ASSUME SessionsInv, Disturb, NEW o \in Sessions, DataInv(sess[o], groups, complete),
           \A g \in Groups : groups[g] # None => groups'[g] # None
    PROVE  DataInv(sess'[o], groups', complete)
<1>1. PICK r, gs, new, done : r = sess[o] /\ gs = groups /\ new = groups' /\ done = complete
  OBVIOUS
<1>2. Shape(r) /\ DataInv(r, gs, done) /\ \A g \in Groups : gs[g] # None => new[g] # None
  BY <1>1, SawFacts
<1>3. CASE new = gs
  BY <1>1, <1>2, <1>3 DEF Disturb
<1>4. CASE new # gs /\ r.pc = "idle"
  <2>1. sess'[o] = r
    BY <1>1, <1>4 DEF Disturb
  <2>2. DataInv(r, new, done)
    BY <1>2, <1>4 DEF DataInv, Later
  <2> QED
    BY <1>1, <2>1, <2>2
<1>5. CASE new # gs /\ r.pc # "idle"
  <2> DEFINE q == [r EXCEPT !.quiet = FALSE]
  <2>1. sess'[o] = q
    BY <1>1, <1>5 DEF Disturb
  <2>2. /\ q.quiet = FALSE /\ q.pc = r.pc /\ q.models = r.models /\ q.opened = r.opened
        /\ q.rows = r.rows /\ q.target = r.target /\ q.derived = r.derived
        /\ q.todo = r.todo /\ q.i = r.i /\ q.saw = r.saw /\ q.from = r.from
    BY <1>2 DEF Shape, Fields
  <2> HIDE DEF q
  <2>3. HasMembers(q) <=> HasMembers(r)
    BY <2>2, SameData
  <2>4. Computing(r, gs) => Computing(q, new)
    <3> SUFFICES ASSUME Computing(r, gs) PROVE Computing(q, new)
      OBVIOUS
    <3>1. {q.models[j] : j \in 1 .. (q.i - 1)} = {r.models[j] : j \in 1 .. (r.i - 1)}
      BY <2>2
    <3>2. /\ q.pc = "open" => q.todo \in Seq(Groups)
          /\ q.pc = "open" => q.opened \in [Groups -> Content \cup {None}]
          /\ q.pc = "open" =>
                \A g \in Groups :
                   /\ new[g] # None
                   /\ (\E i \in DOMAIN q.todo : q.todo[i] = g) \/ q.opened[g] # None
      BY <1>2, <2>2 DEF Computing
    <3>3. q.models = <<>> \/ HasMembers(q)
      BY <2>2, <2>3 DEF Computing
    <3>4. q.pc = "load2" => DOMAIN q.rows = {q.models[j] : j \in 1 .. (q.i - 1)}
      BY <2>2, <3>1 DEF Computing
    <3> QED
      BY <2>2, <3>2, <3>3, <3>4 DEF Computing
  <2>5. DataInv(q, new, done)
    BY <1>2, <2>2, <2>4 DEF DataInv
  <2> QED
    BY <1>1, <2>1, <2>5
<1> QED
  BY <1>3, <1>4, <1>5

-----------------------------------------------------------------------------
(* The tables. *)

LEMMA NoTableData ==
    ASSUME started \in Nat
    PROVE  TableData(NoTable) /\ NoTable.state = "none"
<1>1. PICK r, f : r = SIdle /\ f = NoTable
  OBVIOUS
<1>2. f = Table("none", r, FALSE)
  BY <1>1 DEF NoTable
<1>3. f.state = "none" /\ f.n = r.n /\ r.n = 0
  BY <1>1, <1>2, IdleFields DEF Table
<1>4. 0 \in 0 .. started
  OBVIOUS
<1> QED
  BY <1>1, <1>2, <1>3, <1>4 DEF TableData

(* A session that has a table open for writing writes what it computed. *)
LEMMA WrittenData ==
    ASSUME NEW r, NEW gs, NEW done, NEW state \in {"torn", "whole"}, NEW shared, NEW f,
           f = Table(state, r, shared), r.n \in 0 .. started,
           r.pc = "close table", DataInv(r, gs, done), CacheSeen(r)
    PROVE  TableData(f)
<1>1. Computing(r, gs) /\ r.target /\ r.models # <<>> /\ HasMembers(r)
  BY DEF DataInv, Computing, Later
<1>2. r.opened[Burden] \in Content /\ r.opened[Burden] # None
  BY <1>1, AnalysisAssumption, ContentIsNoNone DEF HasMembers
<1>3. PICK asked : asked = Labels(r.opened[Burden])
  OBVIOUS
<1>4. PICK flipped \in BOOLEAN : flipped = (r.saw = BOOLEAN)
  OBVIOUS
<1>5. /\ f.state = state /\ f.n = r.n /\ f.rows = r.rows /\ f.asked = asked
      /\ f.quiet = r.quiet /\ f.flipped = flipped
  <2>1. f.state = state /\ f.n = r.n /\ f.rows = r.rows
    BY DEF Table
  <2>2. f.asked = asked
    BY <1>2, <1>3 DEF Table
  <2>3. f.quiet = r.quiet
    BY DEF Table
  <2>4. f.flipped = (r.saw = BOOLEAN)
    BY DEF Table
  <2> QED
    BY <1>4, <2>1, <2>2, <2>3, <2>4
<1>6. f.quiet => OneExtraction(f.rows)
  <2> SUFFICES ASSUME r.quiet
               PROVE  OneExtraction(r.rows)
    BY <1>5
  <2>1. OneGen(gs) /\ RowsOf(r.rows, gs)
    BY <1>1 DEF Computing, Quiet
  <2>2. PICK rows : rows = r.rows
    OBVIOUS
  <2>3. ASSUME NEW m \in DOMAIN rows, NEW k \in DOMAIN rows,
               NEW g \in Groups, NEW h \in Groups,
               rows[m][g] # None /\ rows[k][h] # None
        PROVE  rows[m][g].gen = rows[k][h].gen /\ rows[m][g].member = m
    <3>1. rows[m][g].member = m /\ gs[g] # None /\ rows[m][g].gen = gs[g].gen
      BY <2>1, <2>2, <2>3 DEF RowsOf
    <3>2. gs[h] # None /\ rows[k][h].gen = gs[h].gen
      BY <2>1, <2>2, <2>3 DEF RowsOf
    <3> QED
      BY <2>1, <3>1, <3>2 DEF OneGen
  <2>4. OneExtraction(rows)
    BY <2>3 DEF OneExtraction
  <2> QED
    BY <2>2, <2>4
<1>7. ~f.flipped => DOMAIN f.rows = f.asked
  <2>1. CASE r.derived
    BY <1>1, <1>3, <1>5, <2>1 DEF Computing
  <2>2. CASE ~r.derived
    <3>1. TRUE \in r.saw
      BY <1>1, <2>2 DEF Computing
    <3>2. FALSE \in r.saw /\ r.saw \subseteq BOOLEAN
      BY <1>1 DEF CacheSeen
    <3>3. r.saw = BOOLEAN
      BY <3>1, <3>2
    <3>4. flipped
      BY <1>4, <3>3
    <3>5. f.flipped
      BY <1>5, <3>4
    <3> QED
      BY <3>5
  <2> QED
    BY <2>1, <2>2
<1> QED
  BY <1>5, <1>6, <1>7 DEF TableData

LEMMA OpenData ==
    ASSUME SessionsInv, NEW s \in Sessions, DataInv(sess[s], groups, complete),
           sess[s].n \in 0 .. started, OpenTable(s)
    PROVE  /\ DataInv(sess'[s], groups, complete)
           /\ \E f : /\ table' = [table EXCEPT ![Head(sess[s].todo)] = f]
                     /\ TableData(f) /\ f.state = "torn"
<1>1. PICK o, r, gs, done : /\ o = sess[s] /\ r = Tabled(sess[s])
                            /\ gs = groups /\ done = complete
  OBVIOUS
<1>2. Shape(o) /\ DataInv(o, gs, done) /\ sess = [x \in Sessions |-> sess[x]]
  BY <1>1, SawFacts DEF SessionsInv
<1>3. /\ Shape(r) /\ r.pc = o.pc /\ r.opened = o.opened /\ r.models = o.models
      /\ r.target = o.target /\ r.derived = o.derived /\ r.quiet = o.quiet /\ r.saw = o.saw
      /\ r.n = o.n /\ r.todo = o.todo /\ r.rows = (IF o.derived THEN o.rows ELSE NoRows)
  <2>1. CASE o.derived
    <3>1. r = o
      BY <1>1, <2>1 DEF Tabled
    <3> QED
      BY <1>2, <2>1, <3>1
  <2>2. CASE ~o.derived
    <3>1. r = [o EXCEPT !.rows = NoRows]
      BY <1>1, <2>2 DEF Tabled
    <3> QED
      BY <1>2, <2>2, <3>1 DEF Shape, Fields
  <2> QED
    BY <2>1, <2>2
<1>4. r.pc = "open table"
  BY <1>1 DEF OpenTable
<1> DEFINE q == [r EXCEPT !.pc = "close table", !.at = "path"]
<1>5. sess'[s] = q
  BY <1>1, <1>2 DEF OpenTable, Become
<1>6. /\ q.pc = "close table" /\ q.opened = r.opened /\ q.models = r.models /\ q.rows = r.rows
      /\ q.target = r.target /\ q.derived = r.derived /\ q.quiet = r.quiet /\ q.saw = r.saw
  BY <1>3 DEF Shape, Fields
<1> HIDE DEF q
<1>7. Computing(o, gs) /\ (o.derived => o.target)
  BY <1>2, <1>3, <1>4 DEF DataInv, Later
<1>8. o.quiet => Quiet(q, gs)
  <2> SUFFICES ASSUME o.quiet PROVE Quiet(q, gs)
    OBVIOUS
  <2>1. Quiet(o, gs)
    BY <1>3, <1>4, <1>7 DEF Computing
  <2>2. RowsOf(q.rows, gs)
    <3>1. q.rows = o.rows \/ q.rows = NoRows
      BY <1>3, <1>6
    <3>2. RowsOf(o.rows, gs)
      BY <2>1 DEF Quiet
    <3>3. RowsOf(NoRows, gs)
      BY NoRowsEmpty DEF RowsOf
    <3> QED
      BY <3>1, <3>2, <3>3
  <2> QED
    BY <1>3, <1>6, <2>1, <2>2 DEF Quiet
<1>9. HasMembers(q)
  BY <1>3, <1>4, <1>6, <1>7 DEF Computing, HasMembers
<1>10. Computing(q, gs)
  BY <1>3, <1>4, <1>6, <1>7, <1>8, <1>9 DEF Computing
<1>11. DataInv(q, gs, done)
  BY <1>3, <1>6, <1>7, <1>10 DEF DataInv, Pcs, Later
<1>12. \E f : /\ table' = [table EXCEPT ![Head(sess[s].todo)] = f]
              /\ TableData(f) /\ f.state = "torn"
  <2>1. PICK f, t : f = Table("torn", r, Holders(Head(r.todo)) # {}) /\ t = Head(r.todo)
    OBVIOUS
  <2>2. table' = [table EXCEPT ![t] = f] /\ t = Head(sess[s].todo)
    BY <1>1, <1>3, <2>1 DEF OpenTable
  <2>3. f.state = "torn" /\ f.n = r.n
    BY <2>1 DEF Table
  <2>4. TableData(f)
    BY <1>1, <1>3, <2>3 DEF TableData
  <2> QED
    BY <2>2, <2>3, <2>4
<1> QED
  BY <1>1, <1>5, <1>11, <1>12

LEMMA CloseData ==
    ASSUME SessionsInv, NEW s \in Sessions, DataInv(sess[s], groups, complete),
           sess[s].n \in 0 .. started, CloseTable(s)
    PROVE  /\ DataInv(sess'[s], groups, complete')
           /\ complete \subseteq complete'
           /\ \/ table' = table
              \/ \E f : /\ table' = [table EXCEPT ![Head(sess[s].todo)] = f]
                        /\ TableData(f) /\ f.n = sess[s].n
<1>1. PICK r, gs, done, more : /\ r = sess[s] /\ gs = groups /\ done = complete
                               /\ more = complete'
  OBVIOUS
<1>2. /\ Shape(r) /\ DataInv(r, gs, done) /\ sess = [x \in Sessions |-> sess[x]]
      /\ CacheSeen(r) /\ r.pc = "close table"
  BY <1>1, SawFacts DEF SessionsInv, CloseTable
<1>3. Computing(r, gs) /\ (r.derived => r.target)
  BY <1>2 DEF DataInv, Later
<1>4. \/ table' = table
      \/ \E f : /\ table' = [table EXCEPT ![Head(sess[s].todo)] = f]
                /\ TableData(f) /\ f.n = sess[s].n
  <2>1. PICK t : t = Head(r.todo)
    OBVIOUS
  <2>2. CASE r.at # "path"
    BY <1>1, <2>2 DEF CloseTable
  <2>3. CASE r.at = "path"
    <3>1. PICK state \in {"torn", "whole"} :
              table' = [table EXCEPT ![t] = Table(state, r, @.shared)]
      BY <1>1, <2>1, <2>3 DEF CloseTable
    <3>2. PICK shared, f : shared = table[t].shared /\ f = Table(state, r, shared)
      OBVIOUS
    <3>3. table' = [table EXCEPT ![Head(sess[s].todo)] = f]
      BY <1>1, <2>1, <3>1, <3>2
    <3>4. TableData(f)
      BY <1>1, <1>2, <3>2, WrittenData
    <3>5. f.n = sess[s].n
      BY <1>1, <3>2 DEF Table
    <3> QED
      BY <3>3, <3>4, <3>5
  <2> QED
    BY <2>2, <2>3
<1>5. CASE Tail(r.todo) # <<>>
  <2>1. PICK rest : rest = Tail(r.todo)
    OBVIOUS
  <2> DEFINE q == [r EXCEPT !.pc = "open table", !.at = "none", !.todo = rest]
  <2>2. sess'[s] = q /\ complete' = complete
    BY <1>1, <1>2, <1>5, <2>1 DEF CloseTable, Become
  <2>3. /\ q.pc = "open table" /\ q.opened = r.opened /\ q.models = r.models
        /\ q.rows = r.rows /\ q.target = r.target /\ q.derived = r.derived
        /\ q.quiet = r.quiet /\ q.saw = r.saw
    BY <1>2 DEF Shape, Fields
  <2> HIDE DEF q
  <2>4. /\ HasMembers(q) <=> HasMembers(r)
        /\ Quiet(q, gs) <=> Quiet(r, gs)
    BY <2>3, SameData
  <2>5. Computing(q, gs)
    BY <1>2, <1>3, <2>3, <2>4 DEF Computing
  <2>6. DataInv(q, gs, done)
    BY <1>3, <2>3, <2>5 DEF DataInv, Pcs, Later
  <2> QED
    BY <1>1, <1>4, <2>2, <2>6
<1>6. CASE Tail(r.todo) = <<>>
  <2>1. complete' = complete \cup {r.n}
    BY <1>1, <1>6 DEF CloseTable
  <2>2. CASE Stop(s)
    BY <1>4, <2>1, <2>2, StopData
  <2>3. CASE /\ r.rows # NoRows
             /\ Become(s, [r EXCEPT !.pc = "months", !.at = "none", !.todo = <<>>,
                                    !.opened = NoValues, !.from = r.n, !.grids = r.rows])
    <3> DEFINE q == [r EXCEPT !.pc = "months", !.at = "none", !.todo = <<>>,
                              !.opened = NoValues, !.from = r.n, !.grids = r.rows]
    <3>1. sess'[s] = q
      BY <1>2, <2>3 DEF Become
    <3>2. /\ q.pc = "months" /\ q.rows = r.rows /\ q.from = r.n /\ q.target = r.target
          /\ q.derived = r.derived
      BY <1>2 DEF Shape, Fields
    <3> HIDE DEF q
    <3>3. r.n \in more
      BY <1>1, <2>1
    <3>4. DataInv(q, gs, more)
      BY <1>3, <2>3, <3>2, <3>3 DEF DataInv, Pcs, Later
    <3> QED
      BY <1>1, <1>4, <2>1, <3>1, <3>4
  <2> QED
    BY <1>1, <1>6, <2>2, <2>3 DEF CloseTable
<1> QED
  BY <1>5, <1>6

LEMMA FailData ==
    ASSUME SessionsInv, NEW s \in Sessions, TableFails(s),
           NEW o \in Sessions, DataInv(sess[o], groups, complete)
    PROVE  DataInv(sess'[o], groups, complete)
<1>1. PICK r, gs, done : r = sess[o] /\ gs = groups /\ done = complete
  OBVIOUS
<1>2. Shape(r) /\ DataInv(r, gs, done) /\ sess = [x \in Sessions |-> sess[x]]
  BY <1>1, SawFacts DEF SessionsInv
<1>3. PICK t : t = Head(sess[s].todo)
  OBVIOUS
<1> DEFINE q == [r EXCEPT !.at = "gone"]
<1>4. sess'[o] \in {SIdle, r, q}
  <2>1. CASE Stop(s)
    <3>1. sess'[o] = SIdle \/ sess'[o] = sess[o]
      BY <1>2, <2>1 DEF Stop, Become
    <3> QED
      BY <1>1, <3>1
  <2>2. CASE sess' = [x \in Sessions |->
                         IF x = s THEN SIdle
                         ELSE IF x \in Holders(t) THEN [sess[x] EXCEPT !.at = "gone"]
                         ELSE sess[x]]
    <3>1. \/ sess'[o] = SIdle \/ sess'[o] = sess[o]
          \/ sess'[o] = [sess[o] EXCEPT !.at = "gone"]
      BY <2>2
    <3> QED
      BY <1>1, <3>1
  <2> QED
    BY <1>3, <2>1, <2>2 DEF TableFails
<1>5. /\ q.pc = r.pc /\ q.models = r.models /\ q.opened = r.opened /\ q.rows = r.rows
      /\ q.target = r.target /\ q.derived = r.derived /\ q.todo = r.todo /\ q.i = r.i
      /\ q.saw = r.saw /\ q.from = r.from /\ q.quiet = r.quiet
  BY <1>2 DEF Shape, Fields
<1> HIDE DEF q
<1>6. DataInv(SIdle, gs, done)
  BY DataIdle
<1>7. DataInv(q, gs, done)
  <2>1. /\ HasMembers(q) <=> HasMembers(r)
        /\ Quiet(q, gs) <=> Quiet(r, gs)
    BY <1>5, SameData
  <2>2. Computing(r, gs) => Computing(q, gs)
    <3>1. {q.models[j] : j \in 1 .. (q.i - 1)} = {r.models[j] : j \in 1 .. (r.i - 1)}
      BY <1>5
    <3>2. Computing(r, gs) /\ q.pc = "load2"
              => DOMAIN q.rows = {q.models[j] : j \in 1 .. (q.i - 1)}
      BY <1>5, <3>1 DEF Computing
    <3> QED
      BY <1>5, <2>1, <3>2 DEF Computing
  <2> QED
    BY <1>2, <1>5, <2>2 DEF DataInv
<1> QED
  BY <1>1, <1>2, <1>4, <1>6, <1>7

-----------------------------------------------------------------------------
(* Sessions and tables together. *)

(* What an earlier session left. *)
LEMMA EarlierData ==
    ASSUME NEW f, f = Table("whole", Earlier, FALSE), started \in Nat,
           groups[Burden] # None
    PROVE  TableData(f) /\ f.n = 0
<1>1. PICK r, rows, asked, gs :
          /\ r = SIdle /\ gs = groups /\ asked = Labels(groups[Burden])
          /\ rows = [m \in Labels(groups[Burden]) |->
                        [g \in Groups |-> [gen |-> 0, member |-> m]]]
  OBVIOUS
<1> DEFINE q == [r EXCEPT !.opened = gs, !.derived = TRUE, !.rows = rows]
<1>2. Earlier = q
  BY <1>1 DEF Earlier
<1>3. Shape(r) /\ r.saw = {} /\ r.n = 0
  BY <1>1, IdleFields DEF Shape
<1>4. q.opened = gs /\ q.rows = rows /\ q.saw = {} /\ q.n = 0
  BY <1>3 DEF Shape, Fields
<1> HIDE DEF q
<1>5. f = Table("whole", q, FALSE)
  BY <1>2
<1>6. f.state = "whole" /\ f.n = 0 /\ f.rows = rows
  BY <1>4, <1>5 DEF Table
<1>7. f.asked = asked
  BY <1>1, <1>4, <1>5 DEF Table
<1>8. DOMAIN rows = asked
  BY <1>1
<1>9. OneExtraction(rows)
  <2>1. \A m \in DOMAIN rows, g \in Groups : rows[m][g].gen = 0 /\ rows[m][g].member = m
    BY <1>1
  <2> QED
    BY <2>1 DEF OneExtraction
<1>10. 0 \in 0 .. started
  OBVIOUS
<1> QED
  BY <1>6, <1>7, <1>8, <1>9, <1>10 DEF TableData

LEMMA RecordsInit == ASSUME AnalysisInit PROVE RecordsInv
<1>1. /\ sess = [s \in Sessions |-> SIdle] /\ started = 0 /\ crossed = {} /\ l2 \in Archives
      /\ started \in Nat /\ started <= MaxStarts
  BY LaunchAssumption DEF AnalysisInit, LaunchInit, SpexoneInit
<1>2. ASSUME NEW s \in Sessions
      PROVE  DataInv(sess[s], groups, complete)
  <2>1. PICK q, gs, done : q = sess[s] /\ gs = groups /\ done = complete
    OBVIOUS
  <2>2. q = SIdle
    BY <1>1, <2>1
  <2>3. DataInv(q, gs, done)
    BY <2>2, DataIdle
  <2> QED
    BY <2>1, <2>3
<1>3. /\ \A t \in TheTables : TableData(table[t])
      /\ table["seasonal"].state = "whole" => table["seasonal"].n \in complete
      /\ complete \subseteq {0}
  <2>1. CASE table = [t \in TheTables |-> NoTable] /\ complete = {}
    <3>1. \A t \in TheTables : table[t] = NoTable
      BY <2>1
    <3>2. TableData(NoTable) /\ NoTable.state = "none"
      BY <1>1, NoTableData
    <3> QED
      BY <2>1, <3>1, <3>2 DEF TheTables
  <2>2. CASE /\ table = [t \in TheTables |-> Table("whole", Earlier, FALSE)]
             /\ complete = {0} /\ \A g \in Groups : groups[g] # None
    <3>1. PICK f : f = Table("whole", Earlier, FALSE)
      OBVIOUS
    <3>2. TableData(f) /\ f.n = 0
      BY <1>1, <2>2, <3>1, EarlierData, AnalysisAssumption
    <3>3. \A t \in TheTables : table[t] = f
      BY <2>2, <3>1
    <3> QED
      BY <2>2, <3>2, <3>3 DEF TheTables
  <2> QED
    BY <2>1, <2>2 DEF AnalysisInit, TheTables
<1>4. complete \cup crossed \subseteq 0 .. started
  BY <1>1, <1>3
<1> QED
  BY <1>1, <1>2, <1>3, <1>4 DEF RecordsInv

(* More programs may have been started. *)
LEMMA TableDataKept ==
    ASSUME NEW f, TableData(f), started \in Nat, started' \in {started, started + 1}
    PROVE  TableData(f)'
<1>1. \A x : x \in 0 .. started => x \in 0 .. started'
  OBVIOUS
<1> QED
  BY <1>1 DEF TableData, OneExtraction

(* A step that changes no table, or puts one file in the place of another. *)
LEMMA TablesDataKept ==
    ASSUME RecordsInv, started \in Nat, started' \in {started, started + 1},
           UNCHANGED tables
    PROVE  /\ \A t \in TheTables : TableData(table[t])'
           /\ table'["seasonal"].state = "whole" => table'["seasonal"].n \in complete'
           /\ complete' \cup crossed' \subseteq 0 .. started'
<1>1. table' = table /\ complete' = complete /\ crossed' = crossed
  BY DEF tables
<1>2. ASSUME NEW t \in TheTables
      PROVE  TableData(table[t])'
  <2>1. PICK f : f = table[t]
    OBVIOUS
  <2>2. TableData(f)
    BY <2>1 DEF RecordsInv
  <2>3. TableData(f)'
    BY <2>2, TableDataKept
  <2>4. f = table'[t]
    BY <1>1, <2>1
  <2> QED
    BY <2>3, <2>4 DEF TableData
<1>3. \A x : x \in 0 .. started => x \in 0 .. started'
  OBVIOUS
<1>4. complete \cup crossed \subseteq 0 .. started
  BY DEF RecordsInv
<1>5. complete' \cup crossed' \subseteq 0 .. started'
  BY <1>1, <1>3, <1>4
<1> QED
  BY <1>1, <1>2, <1>5 DEF RecordsInv

LEMMA TablesDataChanged ==
    ASSUME RecordsInv, WriteInv, started' = started, started \in Nat,
           NEW h, NEW f, table' = [table EXCEPT ![h] = f], TableData(f)
    PROVE  /\ \A t \in TheTables : TableData(table[t])'
           /\ h \in TheTables => table'[h] = f
           /\ \A t \in TheTables : t # h => table'[t] = table[t]
<1>1. table = [t \in TheTables |-> table[t]]
  BY DEF WriteInv
<1>2. /\ h \in TheTables => table'[h] = f
      /\ \A t \in TheTables : t # h => table'[t] = table[t]
  BY <1>1
<1>3. ASSUME NEW t \in TheTables
      PROVE  TableData(table[t])'
  <2>1. PICK x : x = table'[t]
    OBVIOUS
  <2>2. TableData(x)
    BY <1>2, <2>1 DEF RecordsInv
  <2>3. TableData(x)'
    BY <2>2, TableDataKept
  <2> QED
    BY <2>1, <2>3 DEF TableData
<1> QED
  BY <1>2, <1>3

(* A step of session s that is nobody else's business. *)
LEMMA OthersData ==
    ASSUME SessionsInv, RecordsInv, NEW s \in Sessions,
           sess' = [sess EXCEPT ![s] = sess'[s]],
           DataInv(sess'[s], groups, complete'), complete \subseteq complete',
           groups' = groups
    PROVE  \A o \in Sessions : DataInv(sess[o], groups, complete)'
<1>1. \A o \in Sessions \ {s} : sess'[o] = sess[o]
  BY DEF SessionsInv
<1>2. ASSUME NEW o \in Sessions
      PROVE  DataInv(sess'[o], groups', complete')
  <2>1. CASE o = s
    BY <2>1
  <2>2. CASE o # s
    <3>1. PICK r, gs, done, more : /\ r = sess[o] /\ gs = groups /\ done = complete
                                   /\ more = complete'
      OBVIOUS
    <3>2. DataInv(r, gs, done) /\ done \subseteq more
      BY <3>1 DEF RecordsInv
    <3>3. DataInv(r, gs, more)
      BY <3>2, DataLonger
    <3>4. sess'[o] = r
      BY <1>1, <2>2, <3>1
    <3> QED
      BY <3>1, <3>3, <3>4
  <2> QED
    BY <2>1, <2>2
<1> QED
  BY <1>2

(* The steps of a session that change no table. *)
LEMMA SessionData ==
    ASSUME SessionsInv, GroupsInv, RecordsInv, NEW s \in Sessions,
           SessionStep(s) \/ KillSession(s),
           ~OpenTable(s), ~CloseTable(s), ~TableFails(s)
    PROVE  /\ DataInv(sess'[s], groups, complete)
           /\ sess' = [sess EXCEPT ![s] = sess'[s]]
           /\ UNCHANGED tables
<1>1. /\ DataInv(sess[s], groups, complete)
      /\ table["seasonal"].state = "whole" => table["seasonal"].n \in complete
  BY DEF RecordsInv
<1>2. CASE CellOne(s)
  <2>1. UNCHANGED tables /\ \E q : Become(s, q)
    BY <1>2 DEF CellOne, Stop
  <2> QED
    BY <1>1, <1>2, <2>1, CellOneData, BecomeFacts DEF Become
<1>3. CASE OpenGroup(s)
  <2>1. UNCHANGED tables /\ \E q : Become(s, q)
    BY <1>3 DEF OpenGroup
  <2> QED
    BY <1>1, <1>3, <2>1, OpenGroupData, BecomeFacts DEF Become
<1>4. CASE SelectMembers(s)
  <2>1. UNCHANGED tables /\ \E q : Become(s, q)
    BY <1>4 DEF SelectMembers, Stop
  <2> QED
    BY <1>1, <1>4, <2>1, SelectMembersData, BecomeFacts DEF Become
<1>5. CASE CellTwo(s) \/ CellThree(s) \/ CellFour(s) \/ ReadMonthly(s)
  <2>1. UNCHANGED tables /\ \E q : Become(s, q)
    BY <1>5 DEF CellTwo, CellThree, CellFour, ReadMonthly, Stop
  <2> QED
    BY <1>1, <1>5, <2>1, CellsData, BecomeFacts DEF Become
<1>6. CASE Compute(s)
  <2>1. UNCHANGED tables /\ \E q : Become(s, q)
    BY <1>6 DEF Compute, Load, Stop
  <2> QED
    BY <1>1, <1>6, <2>1, ComputeData, BecomeFacts DEF Become
<1>7. CASE ReadSeasonal(s)
  <2>1. UNCHANGED tables /\ \E q : Become(s, q)
    BY <1>7 DEF ReadSeasonal, Stop
  <2> QED
    BY <1>1, <1>7, <2>1, ReadSeasonalData, BecomeFacts DEF Become
<1>8. CASE LookForMonths(s) \/ ReadMonth(s)
  <2>1. UNCHANGED tables /\ \E q : Become(s, q)
    BY <1>8 DEF LookForMonths, ReadMonth
  <2> QED
    BY <1>1, <1>8, <2>1, MonthsData, BecomeFacts DEF Become
<1>9. CASE WriteReport(s) \/ KillSession(s)
  <2>1. UNCHANGED tables /\ Stop(s)
    BY <1>9 DEF WriteReport, KillSession
  <2> QED
    BY <2>1, StopData, BecomeFacts DEF Stop, Become
<1> QED
  BY <1>2, <1>3, <1>4, <1>5, <1>6, <1>7, <1>8, <1>9 DEF SessionStep

LEMMA CrossedOpened ==
    ASSUME SessionsInv, NumbersInv, NEW s \in Sessions, OpenTable(s),
           crossed \subseteq 0 .. started
    PROVE  crossed' \subseteq 0 .. started
<1>1. PICK r : r = Tabled(sess[s])
  OBVIOUS
<1>2. r.n = sess[s].n /\ r.pc = sess[s].pc /\ r.pc = "open table"
  BY <1>1, TabledFacts DEF Alike, Kept, OpenTable
<1> DEFINE others == {o \in Sessions \ {s} : Writing(o)}
<1>3. crossed' = IF others = {} THEN crossed
                 ELSE crossed \cup {r.n} \cup {sess[o].n : o \in others}
  BY <1>1 DEF OpenTable
<1>4. \A x : x \in 1 .. started => x \in 0 .. started
  BY DEF NumbersInv
<1>5. r.n \in 0 .. started
  BY <1>2, <1>4 DEF NumbersInv
<1>6. \A o \in others : sess[o].n \in 0 .. started
  BY <1>4 DEF NumbersInv, Writing
<1> QED
  BY <1>3, <1>5, <1>6

LEMMA RecordsOpened ==
    ASSUME SessionsInv, NumbersInv, WriteInv, RecordsInv, NEW s \in Sessions, OpenTable(s),
           UNCHANGED <<started, groups, l2>>
    PROVE  RecordsInv'
<1>1. /\ DataInv(sess[s], groups, complete) /\ started \in Nat
      /\ sess[s].pc = "open table" /\ started' = started /\ groups' = groups /\ l2' = l2
      /\ sess' = [sess EXCEPT ![s] = sess'[s]] /\ complete' = complete
  BY OpenFacts DEF RecordsInv, NumbersInv
<1>2. sess[s].n \in 0 .. started
  <2>1. sess[s].n \in 1 .. started
    BY <1>1 DEF NumbersInv
  <2>2. \A x : x \in 1 .. started => x \in 0 .. started
    BY DEF NumbersInv
  <2> QED
    BY <2>1, <2>2
<1>3. DataInv(sess'[s], groups, complete)
  BY <1>1, <1>2, OpenData
<1>4. \A o \in Sessions : DataInv(sess[o], groups, complete)'
  BY <1>1, <1>3, OthersData
<1>5. PICK f : /\ table' = [table EXCEPT ![Head(sess[s].todo)] = f]
               /\ TableData(f) /\ f.state = "torn"
  BY <1>1, <1>2, OpenData
<1>6. PICK h : h = Head(sess[s].todo)
  OBVIOUS
<1>7. h \in TheTables
  BY <1>1, <1>6, NextTable DEF Writing
<1>8. /\ \A t \in TheTables : TableData(table[t])'
      /\ table'[h] = f
      /\ \A t \in TheTables : t # h => table'[t] = table[t]
  BY <1>1, <1>5, <1>6, <1>7, TablesDataChanged
<1>9. table'["seasonal"].state = "whole" => table'["seasonal"].n \in complete'
  <2>1. CASE h = "seasonal"
    <3>1. table'["seasonal"].state = "torn"
      BY <1>5, <1>8, <2>1
    <3> QED
      BY <3>1
  <2>2. CASE h # "seasonal"
    <3>1. table'["seasonal"] = table["seasonal"] /\ complete' = complete
      BY <1>1, <1>8, <2>2 DEF TheTables
    <3> QED
      BY <3>1 DEF RecordsInv
  <2> QED
    BY <2>1, <2>2
<1>10. complete' \cup crossed' \subseteq 0 .. started'
  <2>1. complete \subseteq 0 .. started /\ crossed \subseteq 0 .. started
    BY DEF RecordsInv
  <2>2. crossed' \subseteq 0 .. started
    BY <2>1, CrossedOpened
  <2> QED
    BY <1>1, <2>1, <2>2
<1> QED
  BY <1>1, <1>4, <1>8, <1>9, <1>10 DEF RecordsInv

LEMMA RecordsClosed ==
    ASSUME SessionsInv, NumbersInv, WriteInv, RecordsInv, NEW s \in Sessions, CloseTable(s),
           UNCHANGED <<started, groups, l2>>
    PROVE  RecordsInv'
<1>1. /\ DataInv(sess[s], groups, complete) /\ started \in Nat
      /\ sess[s].pc = "close table" /\ started' = started /\ groups' = groups /\ l2' = l2
      /\ sess' = [sess EXCEPT ![s] = sess'[s]] /\ crossed' = crossed
  BY CloseFacts DEF RecordsInv, NumbersInv
<1>2. sess[s].n \in 0 .. started
  <2>1. sess[s].n \in 1 .. started
    BY <1>1 DEF NumbersInv
  <2>2. \A x : x \in 1 .. started => x \in 0 .. started
    BY DEF NumbersInv
  <2> QED
    BY <2>1, <2>2
<1>3. DataInv(sess'[s], groups, complete') /\ complete \subseteq complete'
  BY <1>1, <1>2, CloseData
<1>4. \A o \in Sessions : DataInv(sess[o], groups, complete)'
  BY <1>1, <1>3, OthersData
<1>5. PICK h : h = Head(sess[s].todo)
  OBVIOUS
<1>6. /\ h \in TheTables
      /\ sess[s].todo = TableOrder => h = "monthly"
      /\ sess[s].todo = <<"seasonal">> => h = "seasonal"
  BY <1>1, <1>5, NextTable DEF Writing
<1>7. \/ /\ h = "monthly" /\ complete' = complete
      \/ /\ h = "seasonal" /\ complete' = complete \cup {sess[s].n}
  BY <1>1, <1>6, CloseFacts
<1>8. /\ \A t \in TheTables : TableData(table[t])'
      /\ table'["seasonal"].state = "whole" => table'["seasonal"].n \in complete'
  <2>1. CASE table' = table
    <3>1. \A t \in TheTables : TableData(table'[t])
      BY <2>1 DEF RecordsInv
    <3>2. \A t \in TheTables : TableData(table[t])'
      BY <1>1, <3>1 DEF TableData
    <3> QED
      BY <1>3, <2>1, <3>2 DEF RecordsInv
  <2>2. CASE table' # table
    <3>1. PICK f : table' = [table EXCEPT ![h] = f] /\ TableData(f) /\ f.n = sess[s].n
      BY <1>1, <1>2, <1>5, <2>2, CloseData
    <3>2. /\ \A t \in TheTables : TableData(table[t])'
          /\ table'[h] = f
          /\ \A t \in TheTables : t # h => table'[t] = table[t]
      BY <1>1, <1>6, <3>1, TablesDataChanged
    <3> QED
      BY <1>7, <3>1, <3>2 DEF RecordsInv, TheTables
  <2> QED
    BY <2>1, <2>2
<1>9. complete' \cup crossed' \subseteq 0 .. started'
  <2>1. complete \subseteq 0 .. started /\ crossed \subseteq 0 .. started
    BY DEF RecordsInv
  <2> QED
    BY <1>1, <1>2, <1>7, <2>1
<1> QED
  BY <1>1, <1>4, <1>8, <1>9 DEF RecordsInv

LEMMA RecordsFailed ==
    ASSUME SessionsInv, NumbersInv, WriteInv, RecordsInv, NEW s \in Sessions, TableFails(s),
           UNCHANGED <<started, groups, l2>>
    PROVE  RecordsInv'
<1>1. /\ started \in Nat /\ started' = started /\ groups' = groups /\ l2' = l2
      /\ complete' = complete /\ crossed' = crossed
  BY DEF TableFails, NumbersInv
<1>2. \A o \in Sessions : DataInv(sess'[o], groups, complete)
  BY FailData DEF RecordsInv
<1>3. table' = table \/ table' = [table EXCEPT ![Head(sess[s].todo)] = NoTable]
  BY DEF TableFails
<1>4. /\ \A t \in TheTables : TableData(table[t])'
      /\ table'["seasonal"].state = "whole" => table'["seasonal"].n \in complete
  <2>1. CASE table' = table
    <3>1. \A t \in TheTables : TableData(table'[t])
      BY <2>1 DEF RecordsInv
    <3>2. \A t \in TheTables : TableData(table[t])'
      BY <1>1, <3>1 DEF TableData
    <3> QED
      BY <2>1, <3>2 DEF RecordsInv
  <2>2. CASE table' # table
    <3>1. PICK h, f : h = Head(sess[s].todo) /\ f = NoTable
      OBVIOUS
    <3>2. TableData(f) /\ f.state = "none" /\ table' = [table EXCEPT ![h] = f]
      BY <1>1, <1>3, <2>2, <3>1, NoTableData
    <3>3. h \in TheTables
      BY <3>1, NextTable DEF TableFails, Writing
    <3>4. /\ \A t \in TheTables : TableData(table[t])'
          /\ table'[h] = f
          /\ \A t \in TheTables : t # h => table'[t] = table[t]
      BY <1>1, <3>2, <3>3, TablesDataChanged
    <3> QED
      BY <3>2, <3>4 DEF RecordsInv, TheTables
  <2> QED
    BY <2>1, <2>2
<1>5. complete' \cup crossed' \subseteq 0 .. started'
  BY <1>1 DEF RecordsInv
<1> QED
  BY <1>1, <1>2, <1>4, <1>5 DEF RecordsInv

LEMMA RecordsStep ==
    ASSUME SessionsInv, NumbersInv, WriteInv, GroupsInv, RecordsInv, NEW s \in Sessions,
           SessionStep(s) \/ KillSession(s), UNCHANGED <<started, groupVars, l2>>
    PROVE  RecordsInv'
<1>1. started' = started /\ started \in Nat /\ groups' = groups /\ l2' = l2
  BY DEF groupVars, NumbersInv
<1>2. CASE OpenTable(s)
  BY <1>1, <1>2, RecordsOpened
<1>3. CASE CloseTable(s)
  BY <1>1, <1>3, RecordsClosed
<1>4. CASE TableFails(s)
  BY <1>1, <1>4, RecordsFailed
<1>5. CASE ~OpenTable(s) /\ ~CloseTable(s) /\ ~TableFails(s)
  <2>1. /\ DataInv(sess'[s], groups, complete)
        /\ sess' = [sess EXCEPT ![s] = sess'[s]]
        /\ UNCHANGED tables
    BY <1>5, SessionData
  <2>2. complete' = complete
    BY <2>1 DEF tables
  <2>3. \A o \in Sessions : DataInv(sess[o], groups, complete)'
    BY <1>1, <2>1, <2>2, OthersData
  <2>4. /\ \A t \in TheTables : TableData(table[t])'
        /\ table'["seasonal"].state = "whole" => table'["seasonal"].n \in complete'
        /\ complete' \cup crossed' \subseteq 0 .. started'
    BY <1>1, <2>1, TablesDataKept
  <2> QED
    BY <1>1, <2>3, <2>4 DEF RecordsInv
<1> QED
  BY <1>2, <1>3, <1>4, <1>5

LEMMA RecordsNext ==
    ASSUME TablesInv, GroupsInv, RecordsInv, [AnalysisNext]_analysisVars
    PROVE  RecordsInv'
<1>1. SessionsInv /\ NumbersInv /\ WriteInv /\ started \in Nat
  BY DEF TablesInv, AnalysisInv, NumbersInv
<1>2. /\ l2 \in Archives /\ started <= MaxStarts /\ MaxStarts \in Nat
      /\ \A o \in Sessions : DataInv(sess[o], groups, complete)
  BY LaunchAssumption DEF RecordsInv
<1>3. ASSUME l2' = l2, started' \in {started, started + 1}, started' <= MaxStarts,
             UNCHANGED tables, \A o \in Sessions : DataInv(sess[o], groups, complete)'
      PROVE  RecordsInv'
  BY <1>1, <1>2, <1>3, TablesDataKept DEF RecordsInv
<1>4. ASSUME StartProgram
      PROVE  started' \in {started, started + 1} /\ started' <= MaxStarts
  BY <1>1, <1>2, <1>4 DEF StartProgram
<1>5. CASE UNCHANGED analysisVars
  <2>1. /\ sess' = sess /\ groups' = groups /\ l2' = l2 /\ started' = started
        /\ UNCHANGED tables /\ complete' = complete
    BY <1>5 DEF analysisVars, groupVars, spexone, tables
  <2>2. \A o \in Sessions : DataInv(sess[o], groups, complete)'
    BY <1>2, <2>1
  <2> QED
    BY <1>2, <1>3, <2>1, <2>2
<1>6. ASSUME NEW s \in Sessions, StartSession(s), UNCHANGED <<groupVars, spexone>>
      PROVE  RecordsInv'
  <2>1. /\ groups' = groups /\ l2' = l2 /\ UNCHANGED tables /\ complete' = complete
        /\ StartProgram
    BY <1>6 DEF groupVars, spexone, tables, StartSession
  <2>2. sess' = [sess EXCEPT ![s] = sess'[s]]
    BY <1>1, <1>6, <2>1, StartFacts
  <2>3. DataInv(sess'[s], groups, complete)
    BY <1>1, <1>6, StartData
  <2>4. \A o \in Sessions : DataInv(sess[o], groups, complete)'
    BY <1>1, <2>1, <2>2, <2>3, OthersData
  <2> QED
    BY <1>3, <1>4, <2>1, <2>4
<1>7. ASSUME NEW s \in Sessions, SessionStep(s) \/ KillSession(s),
             UNCHANGED <<started, groupVars, spexone>>
      PROVE  RecordsInv'
  <2>1. UNCHANGED <<started, groupVars, l2>>
    BY <1>7 DEF spexone
  <2> QED
    BY <1>1, <1>7, <2>1, RecordsStep
<1>8. CASE GroupFilesNext /\ Disturb /\ UNCHANGED <<spexone, tables, report>>
  <2>1. l2' = l2 /\ complete' = complete
    BY <1>8 DEF spexone, tables
  <2>2. started' \in {started, started + 1} /\ started' <= MaxStarts
    BY <1>1, <1>2, <1>4, <1>8 DEF GroupFilesNext, StartExtraction, PublishGroup, GroupFails
  <2>3. \A g \in Groups : groups[g] # None => groups'[g] # None
    BY <1>1, GroupsNext
  <2>4. \A o \in Sessions : DataInv(sess'[o], groups', complete)
    BY <1>1, <1>2, <1>8, <2>3, DisturbData
  <2> QED
    BY <1>3, <1>8, <2>1, <2>2, <2>4
<1>9. CASE SpexoneNext /\ UNCHANGED <<groupVars, sess, tables, report>>
  <2>1. /\ sess' = sess /\ groups' = groups /\ complete' = complete
        /\ l2' = l2
    BY <1>9 DEF groupVars, tables, SpexoneNext, TaskStep, StartTask, RemoveOld, SkipSparse,
                OpenGrid, AppendGrid, TaskRaises, CloseGrid, KillTask
  <2>2. started' \in {started, started + 1} /\ started' <= MaxStarts
    BY <1>1, <1>2, <1>4, <1>9 DEF SpexoneNext, TaskStep, StartTask, RemoveOld, SkipSparse,
                OpenGrid, AppendGrid, TaskRaises, CloseGrid, KillTask
  <2>3. \A o \in Sessions : DataInv(sess[o], groups, complete)'
    BY <1>2, <2>1
  <2> QED
    BY <1>3, <1>9, <2>1, <2>2, <2>3
<1> QED
  BY <1>5, <1>6, <1>7, <1>8, <1>9 DEF AnalysisNext

PpeAnalysisInv == TablesInv /\ GroupsInv /\ RecordsInv

LEMMA PpeAnalysisInvInit == ASSUME AnalysisInit PROVE PpeAnalysisInv
BY TablesInvInit, GroupsInit, RecordsInit DEF PpeAnalysisInv

LEMMA PpeAnalysisInvNext ==
    ASSUME PpeAnalysisInv, [AnalysisNext]_analysisVars
    PROVE  PpeAnalysisInv'
<1>1. TablesInv /\ GroupsInv /\ RecordsInv /\ started \in Nat
  BY DEF PpeAnalysisInv, TablesInv, NumbersInv
<1>2. TablesInv'
  BY <1>1, TablesInvNext
<1>3. GroupsInv'
  BY <1>1, GroupsNext
<1>4. RecordsInv'
  BY <1>1, RecordsNext
<1> QED
  BY <1>2, <1>3, <1>4 DEF PpeAnalysisInv

LEMMA SessionIsOK ==
    ASSUME PpeAnalysisInv, NEW s \in Sessions
    PROVE  SessionOK(sess[s])
<1>1. PICK r, gs, done : r = sess[s] /\ gs = groups /\ done = complete
  OBVIOUS
<1>2. DataInv(r, gs, done) /\ TablesToWrite(r) /\ MonthsRead(r)
  BY <1>1 DEF PpeAnalysisInv, RecordsInv, TablesInv, AnalysisInv, SessionsInv, SessionInv
<1>3. r.pc \in {"load2", "load3", "load4"} =>
          /\ r.i \in DOMAIN r.models
          /\ \A g \in Groups : r.opened[g] # None /\ Labels(r.opened[Burden]) \subseteq
                                                     Labels(r.opened[g])
  <2> SUFFICES ASSUME r.pc \in {"load2", "load3", "load4"}
               PROVE  /\ r.i \in DOMAIN r.models
                      /\ \A g \in Groups : r.opened[g] # None /\
                             Labels(r.opened[Burden]) \subseteq Labels(r.opened[g])
    OBVIOUS
  <2>1. Computing(r, gs)
    BY <1>2 DEF DataInv, Later
  <2>2. r.i \in DOMAIN r.models /\ (r.models = <<>> \/ HasMembers(r))
    BY <2>1 DEF Computing
  <2>3. HasMembers(r)
    BY <2>2
  <2>4. \A g \in Groups : r.opened[g] # None
    BY <2>3, ContentIsNoNone DEF HasMembers
  <2> QED
    BY <2>2, <2>3, <2>4 DEF HasMembers
<1>4. r.pc \in {"open table", "close table"} => r.todo # <<>> /\ r.target
  <2>1. TableOrder # <<>> /\ <<"seasonal">> # <<>>
    BY DEF TableOrder
  <2>2. r.pc \in {"open table", "close table"} => r.todo # <<>>
    BY <1>2, <2>1 DEF TablesToWrite
  <2>3. r.pc \in {"open table", "close table"} => r.target
    BY <1>2 DEF DataInv, Computing, Later
  <2> QED
    BY <2>2, <2>3
<1>5. /\ r.derived => r.target
      /\ r.pc = "read months" => r.left # {}
      /\ r.pc \in {"months", "read months", "report"} => r.rows # NoRows /\ r.from \in done
  BY <1>2 DEF DataInv, MonthsRead, Later
<1> QED
  BY <1>1, <1>3, <1>4, <1>5 DEF SessionOK

(* For any number of sessions, groups, members and extractions: a session  *)
(* loads only members that every group it opened has, writes tables only   *)
(* when it has its targets, and goes on to the satellite only with rows of *)
(* a session that wrote both tables (L309-347, L635-731).                  *)
THEOREM AnalysisTypeCorrect == AnalysisSpec => []AnalysisTypeOK
<1>1. AnalysisInit => PpeAnalysisInv
  BY PpeAnalysisInvInit
<1>2. PpeAnalysisInv /\ [AnalysisNext]_analysisVars => PpeAnalysisInv'
  BY PpeAnalysisInvNext
<1>3. PpeAnalysisInv => AnalysisTypeOK
  <2> SUFFICES ASSUME PpeAnalysisInv PROVE AnalysisTypeOK
    OBVIOUS
  <2>1. /\ started \in 0 .. MaxStarts /\ GroupFilesTypeOK
        /\ complete \cup crossed \subseteq 0 .. started
    BY LaunchAssumption DEF PpeAnalysisInv, TablesInv, NumbersInv, GroupsInv, RecordsInv
  <2>2. SpexoneTypeOK
    <3>1. MonthInv /\ l2 \in Archives
      BY DEF PpeAnalysisInv, TablesInv, AnalysisInv, RecordsInv
    <3> QED
      BY <3>1 DEF MonthInv, Shapes, TaskPhase, OpenMonth, ClosedMonth, SpexoneTypeOK,
                  TaskRecords
  <2>3. \A t \in DOMAIN table : /\ table[t].state \in {"none", "torn", "whole"}
                               /\ table[t].n \in 0 .. started
    BY DEF PpeAnalysisInv, TablesInv, WriteInv, RecordsInv, TableData
  <2> QED
    BY <2>1, <2>2, <2>3, SessionIsOK DEF AnalysisTypeOK
<1> QED
  BY <1>1, <1>2, <1>3, PTL DEF AnalysisSpec

LEMMA TablesData ==
    ASSUME PpeAnalysisInv, NEW t \in DOMAIN table
    PROVE  TableData(table[t])
BY DEF PpeAnalysisInv, TablesInv, WriteInv, RecordsInv

(* For any number of sessions and extractions, whatever order they run in: *)
(* a whole table of a session that was not disturbed has numbers of one    *)
(* extraction only, each under its member's name (L314-347; main of        *)
(* ppe_extract_monthly.py L609-614).                                       *)
THEOREM OneExtractionInATable == AnalysisSpec => []TableIsOfOneExtraction
<1>1. AnalysisInit => PpeAnalysisInv
  BY PpeAnalysisInvInit
<1>2. PpeAnalysisInv /\ [AnalysisNext]_analysisVars => PpeAnalysisInv'
  BY PpeAnalysisInvNext
<1>3. PpeAnalysisInv => TableIsOfOneExtraction
  <2> SUFFICES ASSUME PpeAnalysisInv PROVE TableIsOfOneExtraction
    OBVIOUS
  <2> SUFFICES ASSUME NEW t \in DOMAIN table,
                      table[t].state = "whole" /\ table[t].quiet /\ ~table[t].flipped
               PROVE  LET values == {<<m, table[t].rows[m][g]>> :
                                        m \in DOMAIN table[t].rows, g \in Groups}
                          known  == {v \in values : v[2] # None}
                      IN  \A v, w \in known : v[2].gen = w[2].gen /\ v[2].member = v[1]
    BY DEF TableIsOfOneExtraction
  <2>1. PICK rows : rows = table[t].rows
    OBVIOUS
  <2>2. OneExtraction(rows)
    BY <2>1, TablesData DEF TableData
  <2> DEFINE values == {<<m, rows[m][g]>> : m \in DOMAIN rows, g \in Groups}
  <2>3. ASSUME NEW v \in values, NEW w \in values, v[2] # None, w[2] # None
        PROVE  v[2].gen = w[2].gen /\ v[2].member = v[1]
    <3>1. PICK m \in DOMAIN rows, g \in Groups : v = <<m, rows[m][g]>>
      OBVIOUS
    <3>2. PICK k \in DOMAIN rows, h \in Groups : w = <<k, rows[k][h]>>
      OBVIOUS
    <3>3. v[1] = m /\ v[2] = rows[m][g] /\ w[2] = rows[k][h]
      BY <3>1, <3>2
    <3> QED
      BY <2>2, <2>3, <3>3 DEF OneExtraction
  <2> QED
    BY <2>1, <2>3
<1> QED
  BY <1>1, <1>2, <1>3, PTL DEF AnalysisSpec

(* A readable table that one session wrote has a row of every member of    *)
(* the burden file that session opened, whatever extractions put in its    *)
(* place since, unless the cache appeared or vanished in between           *)
(* (L326-328).                                                             *)
THEOREM MembersOfATable == AnalysisSpec => []TableHasItsMembers
<1>1. AnalysisInit => PpeAnalysisInv
  BY PpeAnalysisInvInit
<1>2. PpeAnalysisInv /\ [AnalysisNext]_analysisVars => PpeAnalysisInv'
  BY PpeAnalysisInvNext
<1>3. PpeAnalysisInv => TableHasItsMembers
  BY TablesData DEF TableData, TableHasItsMembers
<1> QED
  BY <1>1, <1>2, <1>3, PTL DEF AnalysisSpec

-----------------------------------------------------------------------------
(* Fits.  A session with grids in memory that will read the tables found   *)
(* none when it was about to load its grids, so the table it reads was     *)
(* written since.  As long as no group file has been replaced since, that  *)
(* table, the grids and the group files are of one extraction.             *)

Trusts(r) ==
    /\ r.quiet
    /\ \/ r.cached /\ (r.pc = "load3" \/ (r.derived /\ r.pc = "cell4"))
       \/ r.derived /\ r.pc \in {"read", "read seasonal"}

(* Of session r, beside the seasonal table f and the group files gs. *)
FitInv(r, f, gs) ==
    /\ r.pc \in {"cell3", "load3"} => ~r.derived
    /\ Trusts(r) /\ f.state = "whole" /\ f.quiet => RowsOf(f.rows, gs)
    /\ r.pc \in Later /\ r.quiet /\ r.derived =>
          OneGen(gs) /\ RowsOf(r.grids, gs) /\ RowsOf(r.rows, gs)

FitsInv ==
    /\ \A s \in Sessions : FitInv(sess[s], table["seasonal"], groups)
    /\ FitIsOfOneExtraction

FitsCritical == {"cell3", "load3", "cell4", "read", "read seasonal"} \cup Later

LEMMA FitElsewhere ==
    ASSUME NEW r, NEW f, NEW gs, r.pc \notin FitsCritical
    PROVE  FitInv(r, f, gs)
BY DEF FitInv, Trusts, FitsCritical, Later

LEMMA FitSame ==
    ASSUME NEW r, NEW q, NEW f, NEW gs, FitInv(r, f, gs), q.pc = r.pc,
           q.quiet = r.quiet, q.cached = r.cached, q.derived = r.derived,
           q.grids = r.grids, q.rows = r.rows
    PROVE  FitInv(q, f, gs)
BY DEF FitInv, Trusts

(* The seasonal table has been written, opened or removed. *)
LEMMA FitOtherTable ==
    ASSUME NEW r, NEW f, NEW h, NEW gs, FitInv(r, f, gs),
           h = f \/ h.state # "whole" \/ ~h.quiet \/ RowsOf(h.rows, gs)
    PROVE  FitInv(r, h, gs)
BY DEF FitInv

(* A session that has its targets and was not disturbed. *)
LEMMA QuietRows ==
    ASSUME NEW r, NEW gs, NEW done, DataInv(r, gs, done), r.pc \notin Later \cup {"idle"},
           r.quiet, r.target
    PROVE  OneGen(gs) /\ RowsOf(r.rows, gs)
<1>1. Computing(r, gs)
  BY DEF DataInv
<1>2. r.models # <<>>
  BY <1>1 DEF Computing
<1> QED
  BY <1>1, <1>2 DEF Computing, Quiet

LEMMA FitsInit == ASSUME AnalysisInit PROVE FitsInv
<1>1. sess = [s \in Sessions |-> SIdle] /\ report = NoReport
  BY DEF AnalysisInit
<1>2. \A s \in Sessions : sess[s].pc = "idle"
  BY <1>1, IdleFields
<1>3. "idle" \notin FitsCritical
  BY DEF FitsCritical, Later
<1>4. \A s \in Sessions : FitInv(sess[s], table["seasonal"], groups)
  BY <1>2, <1>3, FitElsewhere
<1>5. report.fitted = FALSE
  BY <1>1 DEF NoReport
<1> QED
  BY <1>4, <1>5 DEF FitsInv, FitIsOfOneExtraction

(* What a session has seen changes nothing here. *)
LEMMA SawData ==
    ASSUME SessionsInv, NEW s \in Sessions, NEW r, r = Saw(s)
    PROVE  /\ Shape(r) /\ r.pc = sess[s].pc /\ r.quiet = sess[s].quiet
           /\ r.cached = sess[s].cached /\ r.derived = sess[s].derived
<1>1. PICK o, hit : o = sess[s] /\ hit = CacheHit(s)
  OBVIOUS
<1>2. r = [o EXCEPT !.saw = @ \cup {hit}]
  BY <1>1 DEF Saw
<1>3. Shape(o)
  BY <1>1, SawFacts
<1> QED
  BY <1>1, <1>2, <1>3 DEF Shape, Fields

(* The first two cells, up to their end. *)
LEMMA EarlyFit ==
    ASSUME SessionsInv, NEW s \in Sessions, DataInv(sess[s], groups, complete),
           CellOne(s) \/ OpenGroup(s) \/ SelectMembers(s) \/ CellTwo(s)
    PROVE  FitInv(sess'[s], table["seasonal"], groups)
<1>1. PICK f, gs : f = table["seasonal"] /\ gs = groups
  OBVIOUS
<1>2. /\ sess[s].pc \in {"cell1", "open", "cell2"} /\ Shape(sess[s])
      /\ sess = [x \in Sessions |-> sess[x]]
  BY SawFacts DEF CellOne, OpenGroup, SelectMembers, CellTwo, SessionsInv
<1>3. ~sess[s].derived
  BY <1>2 DEF DataInv, Computing, Later
<1>4. ASSUME NEW q, Become(s, q), q.pc \in {"idle", "open", "cell2", "load2", "cell3"},
             q.pc = "cell3" => ~q.derived
      PROVE  FitInv(sess'[s], table["seasonal"], groups)
  <2>1. sess'[s] = q
    BY <1>2, <1>4 DEF Become
  <2>2. FitInv(q, f, gs)
    BY <1>4 DEF FitInv, Trusts, Later
  <2> QED
    BY <1>1, <2>1, <2>2
<1>5. CASE Stop(s)
  BY <1>4, <1>5, IdleFields DEF Stop
<1>6. CASE CellOne(s)
  <2>1. PICK r : r = Saw(s)
    OBVIOUS
  <2>2. Shape(r)
    BY <2>1, SawData
  <2>3. PICK quiet : quiet = (ext = NoExtraction /\ ~halfway)
    OBVIOUS
  <2> DEFINE q == [r EXCEPT !.pc = "cell2"]
             p == [r EXCEPT !.pc = "open", !.todo = GroupOrder, !.quiet = quiet]
  <2>4. Stop(s) \/ Become(s, q) \/ Become(s, p)
    BY <1>6, <2>1, <2>3 DEF CellOne
  <2>5. q.pc = "cell2" /\ p.pc = "open"
    BY <2>2 DEF Shape, Fields
  <2> HIDE DEF q, p
  <2> QED
    BY <1>4, <1>5, <2>4, <2>5
<1>7. CASE OpenGroup(s)
  <2>1. PICK r, g, file : r = sess[s] /\ g = Head(r.todo) /\ file = groups[g]
    OBVIOUS
  <2> DEFINE q == [r EXCEPT !.opened[g] = file, !.todo = Tail(r.todo)]
  <2>2. Become(s, q) /\ r.pc = "open"
    BY <1>7, <2>1 DEF OpenGroup
  <2>3. q.pc = "open"
    BY <1>2, <2>1, <2>2 DEF Shape, Fields
  <2> HIDE DEF q
  <2> QED
    BY <1>4, <2>2, <2>3
<1>8. CASE SelectMembers(s)
  <2>1. PICK r, models : r = sess[s] /\ models = r.opened[Burden].members
    OBVIOUS
  <2> DEFINE q == [r EXCEPT !.pc = "cell2", !.models = models]
  <2>2. Stop(s) \/ Become(s, q)
    BY <1>8, <2>1 DEF SelectMembers
  <2>3. q.pc = "cell2"
    BY <1>2, <2>1 DEF Shape, Fields
  <2> HIDE DEF q
  <2> QED
    BY <1>4, <1>5, <2>2, <2>3
<1>9. CASE CellTwo(s)
  <2>1. PICK r, pc : /\ r = Saw(s)
                     /\ pc = IF CacheHit(s) \/ sess[s].models = <<>> THEN "cell3" ELSE "load2"
    OBVIOUS
  <2> DEFINE q == [r EXCEPT !.i = 1, !.pc = pc]
  <2>2. Become(s, q)
    BY <1>9, <2>1 DEF CellTwo
  <2>3. Shape(r) /\ r.derived = sess[s].derived
    BY <2>1, SawData
  <2>4. q.pc = pc /\ q.derived = r.derived
    BY <2>3 DEF Shape, Fields
  <2> HIDE DEF q
  <2>5. pc \in {"cell3", "load2"}
    BY <2>1
  <2> QED
    BY <1>3, <1>4, <2>2, <2>3, <2>4, <2>5
<1> QED
  BY <1>6, <1>7, <1>8, <1>9

(* Cell 3 loads the grids only where there is no table to be had. *)
LEMMA CellThreeFit ==
    ASSUME SessionsInv, NEW s \in Sessions, CellThree(s),
           FitInv(sess[s], table["seasonal"], groups)
    PROVE  FitInv(sess'[s], table["seasonal"], groups)
<1>1. PICK r, pc, f, gs :
          /\ r = Saw(s) /\ f = table["seasonal"] /\ gs = groups
          /\ pc = IF CacheHit(s) \/ ~sess[s].target THEN "cell4" ELSE "load3"
  OBVIOUS
<1> DEFINE q == [r EXCEPT !.i = 1, !.pc = pc]
<1>2. Become(s, q) /\ sess[s].pc = "cell3"
  BY <1>1 DEF CellThree
<1>3. /\ Shape(r) /\ r.derived = sess[s].derived /\ r.cached = sess[s].cached
      /\ ~r.derived
  BY <1>1, <1>2, SawData DEF FitInv
<1>4. q.pc = pc /\ ~q.derived /\ q.cached = sess[s].cached
  BY <1>3 DEF Shape, Fields
<1>5. sess'[s] = q
  BY <1>2 DEF Become, SessionsInv
<1> HIDE DEF q
<1>6. pc \in {"cell4", "load3"} /\ (pc = "load3" => ~CacheHit(s))
  BY <1>1
<1>7. pc = "load3" => ~q.cached \/ f.state # "whole"
  BY <1>1, <1>4, <1>6 DEF CacheHit
<1>8. FitInv(q, f, gs)
  BY <1>4, <1>6, <1>7 DEF FitInv, Trusts, Later
<1> QED
  BY <1>1, <1>5, <1>8

LEMMA CellFourFit ==
    ASSUME SessionsInv, NEW s \in Sessions, CellFour(s) \/ ReadMonthly(s),
           FitInv(sess[s], table["seasonal"], groups)
    PROVE  FitInv(sess'[s], table["seasonal"], groups)
<1>1. PICK r, f, gs : r = sess[s] /\ f = table["seasonal"] /\ gs = groups
  OBVIOUS
<1>2. FitInv(r, f, gs) /\ sess = [x \in Sessions |-> sess[x]]
  BY <1>1 DEF SessionsInv
<1>3. ASSUME NEW q, Become(s, q), q.pc \in {"idle", "load4", "open table"}
      PROVE  FitInv(sess'[s], table["seasonal"], groups)
  <2>1. sess'[s] = q
    BY <1>2, <1>3 DEF Become
  <2>2. FitInv(q, f, gs)
    BY <1>3 DEF FitInv, Trusts, Later
  <2> QED
    BY <1>1, <2>1, <2>2
<1>4. ASSUME NEW q, Become(s, q), q.pc \in {"read", "read seasonal"}, q.quiet = r.quiet,
             q.derived = r.derived, r.pc = "read" \/ (r.pc = "cell4" /\ r.cached)
      PROVE  FitInv(sess'[s], table["seasonal"], groups)
  <2>1. sess'[s] = q
    BY <1>2, <1>4 DEF Become
  <2>2. Trusts(q) => Trusts(r)
    BY <1>4 DEF Trusts
  <2>3. FitInv(q, f, gs)
    BY <1>2, <1>4, <2>2 DEF FitInv, Later
  <2> QED
    BY <1>1, <2>1, <2>3
<1>5. CASE Stop(s)
  BY <1>3, <1>5, IdleFields DEF Stop
<1>6. CASE CellFour(s)
  <2>1. PICK x, pc : x = Saw(s) /\ pc = IF sess[s].derived THEN "load4" ELSE "open table"
    OBVIOUS
  <2>2. /\ Shape(x) /\ x.quiet = r.quiet /\ x.cached = r.cached /\ x.derived = r.derived
        /\ r.pc = "cell4"
    BY <1>1, <1>6, <2>1, SawData DEF CellFour
  <2> DEFINE q == [x EXCEPT !.pc = "read"]
             p == [x EXCEPT !.i = 1, !.todo = TableOrder, !.pc = pc]
  <2>3. (CacheHit(s) /\ Become(s, q)) \/ Stop(s) \/ Become(s, p)
    BY <1>6, <2>1 DEF CellFour
  <2>4. q.pc = "read" /\ q.quiet = x.quiet /\ q.derived = x.derived /\ p.pc = pc
    BY <2>2 DEF Shape, Fields
  <2> HIDE DEF q, p
  <2>5. CacheHit(s) => r.cached
    BY <1>1 DEF CacheHit
  <2>6. pc \in {"load4", "open table"}
    BY <2>1
  <2> QED
    BY <1>3, <1>4, <1>5, <2>2, <2>3, <2>4, <2>5, <2>6
<1>7. CASE ReadMonthly(s)
  <2> DEFINE q == [r EXCEPT !.pc = "read seasonal"]
  <2>1. (Stop(s) \/ Become(s, q)) /\ r.pc = "read"
    BY <1>1, <1>7 DEF ReadMonthly
  <2>2. Shape(r)
    BY <1>1, SawFacts
  <2>3. q.pc = "read seasonal" /\ q.quiet = r.quiet /\ q.derived = r.derived
    BY <2>2 DEF Shape, Fields
  <2> HIDE DEF q
  <2> QED
    BY <1>4, <1>5, <2>1, <2>3
<1> QED
  BY <1>6, <1>7

(* Cell 3 ends with the grids in memory, and no table older than them. *)
LEMMA LoadFit ==
    ASSUME SessionsInv, NEW s \in Sessions, NEW cell \in 2 .. 4, Load(s, cell),
           cell = 2 => sess[s].pc = "load2", cell = 3 => sess[s].pc = "load3",
           cell = 4 => sess[s].pc = "load4", DataInv(sess[s], groups, complete),
           FitInv(sess[s], table["seasonal"], groups)
    PROVE  FitInv(sess'[s], table["seasonal"], groups)
<1> DEFINE R    == sess[s]
           M    == R.models[R.i]
           Here == {g \in Groups : CellOf[g] = cell /\ R.opened[g].fit}
           Old  == IF M \in DOMAIN R.rows THEN R.rows[M] ELSE NoValues
           Got  == [g \in Groups |->
                      IF g \in Here /\ Readable(R, g, M) THEN Value(R, g, M) ELSE Old[g]]
           Rows == [k \in {M} \cup DOMAIN R.rows |-> IF k = M THEN Got ELSE R.rows[k]]
           More == [R EXCEPT !.rows = Rows, !.i = @ + 1]
           Two   == [More EXCEPT !.pc = "cell3",
                               !.target = \A g \in NeededGroups : R.opened[g].fit]
           Three == [More EXCEPT !.pc = "cell4", !.derived = TRUE]
           Four  == [More EXCEPT !.pc = "open table"]
<1>1. \/ Stop(s) \/ Become(s, More)
      \/ cell = 2 /\ Become(s, Two)
      \/ cell = 3 /\ Become(s, Three)
      \/ cell = 4 /\ Become(s, Four)
  <2> DEFINE Last == CASE cell = 2 -> Two [] cell = 3 -> Three [] cell = 4 -> Four
  <2>1. Stop(s) \/ Become(s, More) \/ Become(s, Last)
    BY DEF Load
  <2> HIDE DEF Two, Three, Four, More
  <2>2. \/ cell = 2 /\ Last = Two
        \/ cell = 3 /\ Last = Three
        \/ cell = 4 /\ Last = Four
    OBVIOUS
  <2> QED
    BY <2>1, <2>2
<1>2. PICK r, rows, target, f, gs :
          /\ r = R /\ rows = Rows /\ target = \A g \in NeededGroups : R.opened[g].fit
          /\ f = table["seasonal"] /\ gs = groups
  OBVIOUS
<1> DEFINE more == [r EXCEPT !.rows = rows, !.i = @ + 1]
<1>3. More = more
  BY <1>2
<1>4. /\ Shape(r) /\ FitInv(r, f, gs) /\ sess = [x \in Sessions |-> sess[x]]
      /\ DataInv(r, gs, complete)
  BY <1>2, SawFacts DEF SessionsInv
<1>5. /\ Shape(more) /\ more.pc = r.pc /\ more.quiet = r.quiet
      /\ more.cached = r.cached /\ more.derived = r.derived
  BY <1>4 DEF Shape, Fields
<1> HIDE DEF more
<1>6. r.pc \in {"load2", "load3", "load4"}
  <2>1. cell = 2 \/ cell = 3 \/ cell = 4
    OBVIOUS
  <2>2. /\ cell = 2 => r.pc = "load2"
        /\ cell = 3 => r.pc = "load3"
        /\ cell = 4 => r.pc = "load4"
    BY <1>2
  <2> QED
    BY <2>1, <2>2
<1>7. ASSUME NEW q, Become(s, q), FitInv(q, f, gs)
      PROVE  FitInv(sess'[s], table["seasonal"], groups)
  <2>1. sess'[s] = q
    BY <1>4, <1>7 DEF Become
  <2> QED
    BY <1>2, <1>7, <2>1
<1>8. CASE Stop(s)
  <2>1. SIdle.pc \notin FitsCritical
    BY IdleFields DEF FitsCritical, Later
  <2> QED
    BY <1>7, <1>8, <2>1, FitElsewhere DEF Stop
<1>9. CASE Become(s, More)
  <2>1. Become(s, more)
    BY <1>3, <1>9
  <2>2. FitInv(more, f, gs)
    BY <1>4, <1>5, <1>6 DEF FitInv, Trusts, Later
  <2> QED
    BY <1>7, <2>1, <2>2
<1> HIDE DEF Two, Three, Four, More
<1>10. CASE cell = 2 /\ Become(s, Two)
  <2> DEFINE q == [more EXCEPT !.pc = "cell3", !.target = target]
  <2>1. Become(s, q)
    BY <1>2, <1>3, <1>10 DEF Two
  <2>2. q.pc = "cell3" /\ q.derived = r.derived
    BY <1>5 DEF Shape, Fields
  <2> HIDE DEF q
  <2>3. ~r.derived
    BY <1>2, <1>4, <1>10 DEF DataInv, Computing, Later
  <2>4. FitInv(q, f, gs)
    BY <2>2, <2>3 DEF FitInv, Trusts, Later
  <2> QED
    BY <1>7, <2>1, <2>4
<1>11. CASE cell = 3 /\ Become(s, Three)
  <2> DEFINE q == [more EXCEPT !.pc = "cell4", !.derived = TRUE]
  <2>1. Become(s, q)
    BY <1>3, <1>11 DEF Three
  <2>2. /\ q.pc = "cell4" /\ q.quiet = r.quiet /\ q.cached = r.cached
        /\ r.pc = "load3"
    BY <1>2, <1>5, <1>11 DEF Shape, Fields
  <2> HIDE DEF q
  <2>3. FitInv(q, f, gs)
    BY <1>4, <2>2 DEF FitInv, Trusts, Later
  <2> QED
    BY <1>7, <2>1, <2>3
<1>12. CASE cell = 4 /\ Become(s, Four)
  <2> DEFINE q == [more EXCEPT !.pc = "open table"]
  <2>1. Become(s, q)
    BY <1>3, <1>12 DEF Four
  <2>2. q.pc = "open table"
    BY <1>5 DEF Shape, Fields
  <2> HIDE DEF q
  <2>3. q.pc \notin FitsCritical
    BY <2>2 DEF FitsCritical, Later
  <2> QED
    BY <1>7, <2>1, <2>3, FitElsewhere
<1> QED
  BY <1>1, <1>8, <1>9, <1>10, <1>11, <1>12

(* The table that is read, the grids that stay and the group files are of  *)
(* one extraction.                                                         *)
LEMMA ReadSeasonalFit ==
    ASSUME SessionsInv, NEW s \in Sessions, ReadSeasonal(s),
           DataInv(sess[s], groups, complete), FitInv(sess[s], table["seasonal"], groups)
    PROVE  FitInv(sess'[s], table["seasonal"], groups)
<1>1. PICK r, f, gs, done, quiet : /\ r = sess[s] /\ f = table["seasonal"] /\ gs = groups
                                   /\ done = complete /\ quiet = (r.quiet /\ f.quiet)
  OBVIOUS
<1>2. /\ Shape(r) /\ DataInv(r, gs, done) /\ FitInv(r, f, gs) /\ r.pc = "read seasonal"
      /\ sess = [x \in Sessions |-> sess[x]]
  BY <1>1, SawFacts DEF ReadSeasonal, SessionsInv
<1> DEFINE q == [r EXCEPT !.pc = "months", !.opened = NoValues, !.todo = <<>>,
                          !.grids = r.rows, !.rows = f.rows, !.from = f.n, !.quiet = quiet]
<1>3. Stop(s) \/ (f.state = "whole" /\ Become(s, q))
  BY <1>1 DEF ReadSeasonal
<1>4. CASE Stop(s)
  <2>1. SIdle.pc \notin FitsCritical /\ sess'[s] = SIdle
    BY <1>2, <1>4, IdleFields DEF FitsCritical, Later, Stop, Become
  <2> QED
    BY <2>1, FitElsewhere
<1>5. CASE f.state = "whole" /\ Become(s, q)
  <2>1. sess'[s] = q
    BY <1>2, <1>5 DEF Become
  <2>2. /\ q.pc = "months" /\ q.grids = r.rows /\ q.rows = f.rows
        /\ q.derived = r.derived /\ q.quiet = quiet
    BY <1>2 DEF Shape, Fields
  <2> HIDE DEF q
  <2>3. ASSUME quiet, r.derived
        PROVE  OneGen(gs) /\ RowsOf(r.rows, gs) /\ RowsOf(f.rows, gs)
    <3>1. r.quiet /\ f.quiet /\ r.target
      BY <1>1, <1>2, <2>3 DEF DataInv
    <3>2. OneGen(gs) /\ RowsOf(r.rows, gs)
      BY <1>2, <3>1, QuietRows DEF Later
    <3>3. RowsOf(f.rows, gs)
      BY <1>2, <1>5, <2>3, <3>1 DEF FitInv, Trusts
    <3> QED
      BY <3>2, <3>3
  <2>4. FitInv(q, f, gs)
    BY <2>2, <2>3 DEF FitInv, Trusts, Later
  <2> QED
    BY <1>1, <2>1, <2>4
<1> QED
  BY <1>3, <1>4, <1>5

LEMMA MonthsFit ==
    ASSUME SessionsInv, NEW s \in Sessions, LookForMonths(s) \/ ReadMonth(s),
           FitInv(sess[s], table["seasonal"], groups)
    PROVE  FitInv(sess'[s], table["seasonal"], groups)
<1>1. PICK r, f, gs : r = sess[s] /\ f = table["seasonal"] /\ gs = groups
  OBVIOUS
<1>2. Shape(r) /\ FitInv(r, f, gs) /\ sess = [x \in Sessions |-> sess[x]]
  BY <1>1, SawFacts DEF SessionsInv
<1>3. ASSUME NEW q, Become(s, q), q.pc \in Later, r.pc \in Later, q.quiet = r.quiet,
             q.derived = r.derived, q.grids = r.grids, q.rows = r.rows
      PROVE  FitInv(sess'[s], table["seasonal"], groups)
  <2>1. sess'[s] = q
    BY <1>2, <1>3 DEF Become
  <2>2. FitInv(q, f, gs)
    BY <1>2, <1>3 DEF FitInv, Trusts, Later
  <2> QED
    BY <1>1, <2>1, <2>2
<1>4. CASE LookForMonths(s)
  <2>1. PICK found, missing, pc :
            /\ found = {m \in Months : grid[m] # NoGrid} /\ missing = Listed(found)
            /\ pc = IF found = {} THEN "report" ELSE "read months"
    OBVIOUS
  <2>2. PICK failed \in BOOLEAN : failed = (found = {})
    OBVIOUS
  <2> DEFINE q == [r EXCEPT !.left = found, !.failed = failed, !.missing = missing, !.pc = pc]
  <2>3. Become(s, q) /\ r.pc = "months"
    BY <1>1, <1>4, <2>1, <2>2 DEF LookForMonths
  <2>4. /\ q.pc = pc /\ q.quiet = r.quiet /\ q.derived = r.derived /\ q.grids = r.grids
        /\ q.rows = r.rows
    BY <1>2 DEF Shape, Fields
  <2> HIDE DEF q
  <2>5. pc \in Later /\ r.pc \in Later
    BY <2>1, <2>3 DEF Later
  <2> QED
    BY <1>3, <2>3, <2>4, <2>5
<1>5. CASE ReadMonth(s)
  <2>1. PICK m, x : m = First(r.left) /\ x = grid[m]
    OBVIOUS
  <2>2. r.pc = "read months"
    BY <1>1, <1>5 DEF ReadMonth
  <2>3. PICK pc, used : /\ pc = IF r.left = {m} THEN "report" ELSE r.pc
                        /\ used = [r.used EXCEPT ![m] = x]
    OBVIOUS
  <2> DEFINE q == [r EXCEPT !.pc = "report", !.failed = TRUE, !.left = {},
                            !.used = NothingRead]
             p == [r EXCEPT !.left = @ \ {m}, !.used = used, !.pc = pc]
  <2>4. Become(s, q) \/ Become(s, p)
    <3>1. Become(s, IF x = NoGrid \/ ~x.whole
                 THEN [r EXCEPT !.pc = "report", !.failed = TRUE, !.left = {},
                                !.used = NothingRead]
                 ELSE [r EXCEPT !.left = @ \ {m}, !.used[m] = x,
                                !.pc = IF r.left = {m} THEN "report" ELSE @])
      BY <1>1, <1>5, <2>1 DEF ReadMonth
    <3>2. [r EXCEPT !.left = @ \ {m}, !.used[m] = x,
                    !.pc = IF r.left = {m} THEN "report" ELSE @] = p
      BY <2>3
    <3> QED
      BY <3>1, <3>2
  <2>5. /\ q.pc = "report" /\ q.quiet = r.quiet /\ q.derived = r.derived
        /\ q.grids = r.grids /\ q.rows = r.rows
        /\ p.pc = pc /\ p.quiet = r.quiet /\ p.derived = r.derived /\ p.grids = r.grids
        /\ p.rows = r.rows
    BY <1>2 DEF Shape, Fields
  <2> HIDE DEF q, p
  <2>6. pc \in Later /\ r.pc \in Later /\ "report" \in Later
    BY <2>2, <2>3 DEF Later
  <2> QED
    BY <1>3, <2>4, <2>5, <2>6
<1> QED
  BY <1>4, <1>5

(* The report is of a session whose means and grids are of one extraction. *)
LEMMA ReportFit ==
    ASSUME NEW s \in Sessions, WriteReport(s), FitInv(sess[s], table["seasonal"], groups)
    PROVE  FitIsOfOneExtraction'
<1>1. PICK r, gs : r = sess[s] /\ gs = groups
  OBVIOUS
<1>2. /\ report'.fitted => r.derived
      /\ report'.quiet = r.quiet /\ r.pc = "report"
      /\ report'.grids = Extractions(r.grids) /\ report'.means = Extractions(r.rows)
  BY <1>1 DEF WriteReport
<1>3. SUFFICES ASSUME r.derived, r.quiet,
                      NEW x \in Extractions(r.grids), NEW y \in Extractions(r.rows)
               PROVE  x = y
  BY <1>2 DEF FitIsOfOneExtraction
<1>4. OneGen(gs) /\ RowsOf(r.grids, gs) /\ RowsOf(r.rows, gs)
  BY <1>1, <1>2, <1>3 DEF FitInv, Later
<1>5. ASSUME NEW rows, RowsOf(rows, gs), NEW v \in Extractions(rows)
      PROVE  \E g \in Groups : gs[g] # None /\ v = gs[g].gen
  <2>1. PICK w \in (DOMAIN rows) \X Groups :
            rows[w[1]][w[2]] # None /\ v = rows[w[1]][w[2]].gen
    BY <1>5 DEF Extractions
  <2>2. w[1] \in DOMAIN rows /\ w[2] \in Groups
    BY <2>1
  <2> QED
    BY <1>5, <2>1, <2>2 DEF RowsOf
<1>6. PICK g \in Groups : gs[g] # None /\ x = gs[g].gen
  BY <1>4, <1>5
<1>7. PICK h \in Groups : gs[h] # None /\ y = gs[h].gen
  BY <1>4, <1>5
<1> QED
  BY <1>4, <1>6, <1>7 DEF OneGen

(* The steps of a session that change no table. *)
LEMMA SessionFit ==
    ASSUME SessionsInv, RecordsInv, FitsInv, NEW s \in Sessions,
           SessionStep(s) \/ KillSession(s),
           ~OpenTable(s), ~CloseTable(s), ~TableFails(s)
    PROVE  /\ FitInv(sess'[s], table["seasonal"], groups)
           /\ FitIsOfOneExtraction'
<1>1. DataInv(sess[s], groups, complete) /\ FitInv(sess[s], table["seasonal"], groups)
  BY DEF RecordsInv, FitsInv
<1>2. report' = report => FitIsOfOneExtraction'
  BY DEF FitsInv, FitIsOfOneExtraction
<1>3. CASE CellOne(s) \/ OpenGroup(s) \/ SelectMembers(s) \/ CellTwo(s)
  BY <1>1, <1>2, <1>3, EarlyFit DEF CellOne, OpenGroup, SelectMembers, CellTwo
<1>4. CASE CellThree(s)
  BY <1>1, <1>2, <1>4, CellThreeFit DEF CellThree
<1>5. CASE CellFour(s) \/ ReadMonthly(s)
  BY <1>1, <1>2, <1>5, CellFourFit DEF CellFour, ReadMonthly
<1>6. CASE Compute(s)
  BY <1>1, <1>2, <1>6, LoadFit DEF Compute
<1>7. CASE ReadSeasonal(s)
  BY <1>1, <1>2, <1>7, ReadSeasonalFit DEF ReadSeasonal
<1>8. CASE LookForMonths(s) \/ ReadMonth(s)
  BY <1>1, <1>2, <1>8, MonthsFit DEF LookForMonths, ReadMonth
<1>9. Stop(s) => FitInv(sess'[s], table["seasonal"], groups)
  BY IdleFields, FitElsewhere DEF Stop, Become, SessionsInv, FitsCritical, Later
<1>10. CASE WriteReport(s)
  BY <1>1, <1>9, <1>10, ReportFit DEF WriteReport
<1>11. CASE KillSession(s)
  BY <1>2, <1>9, <1>11 DEF KillSession
<1> QED
  BY <1>3, <1>4, <1>5, <1>6, <1>7, <1>8, <1>10, <1>11 DEF SessionStep

(* The session that closes the second table goes on with what it computed, *)
(* and what it wrote is of the extraction whose files are there.           *)
LEMMA CloseFit ==
    ASSUME SessionsInv, WriteInv, NEW s \in Sessions, CloseTable(s),
           DataInv(sess[s], groups, complete)
    PROVE  /\ FitInv(sess'[s], table'["seasonal"], groups)
           /\ \/ table'["seasonal"] = table["seasonal"]
              \/ table'["seasonal"].quiet => RowsOf(table'["seasonal"].rows, groups)
<1>1. PICK r, gs, done : r = sess[s] /\ gs = groups /\ done = complete
  OBVIOUS
<1>2. /\ Shape(r) /\ DataInv(r, gs, done) /\ r.pc = "close table"
      /\ sess = [x \in Sessions |-> sess[x]] /\ table = [x \in TheTables |-> table[x]]
  BY <1>1, SawFacts DEF CloseTable, SessionsInv, WriteInv
<1>3. r.target
  BY <1>2 DEF DataInv, Computing, Later
<1>4. r.quiet => OneGen(gs) /\ RowsOf(r.rows, gs)
  BY <1>2, <1>3, QuietRows DEF Later
<1>5. \/ table'["seasonal"] = table["seasonal"]
      \/ table'["seasonal"].quiet => RowsOf(table'["seasonal"].rows, gs)
  <2>1. CASE r.at # "path"
    BY <1>1, <2>1 DEF CloseTable
  <2>2. CASE r.at = "path"
    <3>1. PICK t : t = Head(r.todo)
      OBVIOUS
    <3>2. PICK state : table' = [table EXCEPT ![t] = Table(state, r, @.shared)]
      BY <1>1, <2>2, <3>1 DEF CloseTable
    <3>3. PICK shared, f : shared = table[t].shared /\ f = Table(state, r, shared)
      OBVIOUS
    <3>4. table' = [table EXCEPT ![t] = f]
      BY <3>2, <3>3
    <3>5. f.quiet = r.quiet /\ f.rows = r.rows
      BY <3>3 DEF Table
    <3>6. table'["seasonal"] = table["seasonal"] \/ table'["seasonal"] = f
      BY <1>2, <3>4 DEF TheTables
    <3> QED
      BY <1>4, <3>5, <3>6
  <2> QED
    BY <2>1, <2>2
<1>6. PICK h : h = table'["seasonal"]
  OBVIOUS
<1>7. ASSUME NEW q, Become(s, q), FitInv(q, h, gs)
      PROVE  FitInv(sess'[s], table'["seasonal"], groups)
  <2>1. sess'[s] = q
    BY <1>2, <1>7 DEF Become
  <2> QED
    BY <1>1, <1>6, <1>7, <2>1
<1>8. CASE Stop(s)
  <2>1. SIdle.pc \notin FitsCritical
    BY IdleFields DEF FitsCritical, Later
  <2> QED
    BY <1>1, <1>5, <1>7, <1>8, <2>1, FitElsewhere DEF Stop
<1>9. PICK rest : rest = Tail(r.todo)
  OBVIOUS
<1> DEFINE p == [r EXCEPT !.pc = "open table", !.at = "none", !.todo = rest]
           q == [r EXCEPT !.pc = "months", !.at = "none", !.todo = <<>>,
                          !.opened = NoValues, !.from = r.n, !.grids = r.rows]
<1>10. Stop(s) \/ Become(s, p) \/ Become(s, q)
  BY <1>1, <1>9 DEF CloseTable
<1>11. /\ p.pc = "open table"
       /\ q.pc = "months" /\ q.grids = r.rows /\ q.rows = r.rows
       /\ q.quiet = r.quiet
  BY <1>2 DEF Shape, Fields
<1> HIDE DEF p, q
<1>12. FitInv(p, h, gs)
  BY <1>11, FitElsewhere DEF FitsCritical, Later
<1>13. FitInv(q, h, gs)
  <2>1. q.quiet => OneGen(gs) /\ RowsOf(q.grids, gs) /\ RowsOf(q.rows, gs)
    BY <1>4, <1>11
  <2> QED
    BY <1>11, <2>1 DEF FitInv, Trusts, Later
<1> QED
  BY <1>1, <1>5, <1>7, <1>8, <1>10, <1>12, <1>13

(* A table that is opened cannot be read yet, one that is removed is gone. *)
LEMMA OpenFit ==
    ASSUME SessionsInv, WriteInv, NEW s \in Sessions, OpenTable(s)
    PROVE  /\ \A h, gs : FitInv(sess'[s], h, gs)
           /\ \/ table'["seasonal"] = table["seasonal"]
              \/ table'["seasonal"].state # "whole"
<1>1. PICK r, t, shared : r = Tabled(sess[s]) /\ t = Head(r.todo) /\ shared = (Holders(t) # {})
  OBVIOUS
<1>2. Shape(r) /\ sess = [x \in Sessions |-> sess[x]] /\ table = [x \in TheTables |-> table[x]]
  BY <1>1, TabledFacts DEF Alike, Kept, SessionsInv, WriteInv
<1> DEFINE q == [r EXCEPT !.pc = "close table", !.at = "path"]
<1>3. sess'[s] = q
  BY <1>1, <1>2 DEF OpenTable, Become
<1>4. q.pc = "close table"
  BY <1>2 DEF Shape, Fields
<1> HIDE DEF q
<1>5. \A h, gs : FitInv(sess'[s], h, gs)
  BY <1>3, <1>4, FitElsewhere DEF FitsCritical, Later
<1>6. PICK f : f = Table("torn", r, shared)
  OBVIOUS
<1>7. table' = [table EXCEPT ![t] = f] /\ f.state = "torn"
  BY <1>1, <1>6 DEF OpenTable, Table
<1> QED
  BY <1>2, <1>5, <1>7 DEF TheTables

LEMMA FailFit ==
    ASSUME SessionsInv, WriteInv, FitsInv, NEW s \in Sessions, TableFails(s), NEW o \in Sessions
    PROVE  /\ FitInv(sess'[o], table["seasonal"], groups)
           /\ \/ table'["seasonal"] = table["seasonal"]
              \/ table'["seasonal"].state # "whole"
<1>1. PICK r, f, gs, t : /\ r = sess[o] /\ f = table["seasonal"] /\ gs = groups
                         /\ t = Head(sess[s].todo)
  OBVIOUS
<1>2. /\ Shape(r) /\ FitInv(r, f, gs) /\ sess = [x \in Sessions |-> sess[x]]
      /\ table = [x \in TheTables |-> table[x]]
  BY <1>1, SawFacts DEF SessionsInv, WriteInv, FitsInv
<1> DEFINE q == [r EXCEPT !.at = "gone"]
<1>3. sess'[o] \in {SIdle, r, q}
  <2>1. CASE Stop(s)
    BY <1>1, <1>2, <2>1 DEF Stop, Become
  <2>2. CASE sess' = [x \in Sessions |->
                         IF x = s THEN SIdle
                         ELSE IF x \in Holders(t) THEN [sess[x] EXCEPT !.at = "gone"]
                         ELSE sess[x]]
    BY <1>1, <2>2
  <2> QED
    BY <1>1, <2>1, <2>2 DEF TableFails
<1>4. /\ q.pc = r.pc /\ q.quiet = r.quiet /\ q.cached = r.cached /\ q.derived = r.derived
      /\ q.grids = r.grids /\ q.rows = r.rows
  BY <1>2 DEF Shape, Fields
<1> HIDE DEF q
<1>5. FitInv(q, f, gs) /\ FitInv(r, f, gs)
  BY <1>2, <1>4, FitSame
<1>6. FitInv(SIdle, f, gs)
  BY IdleFields, FitElsewhere DEF FitsCritical, Later
<1>7. table' = table \/ table' = [table EXCEPT ![t] = NoTable]
  BY <1>1 DEF TableFails
<1>8. NoTable.state = "none"
  BY DEF NoTable, Table
<1> QED
  BY <1>1, <1>2, <1>3, <1>5, <1>6, <1>7, <1>8 DEF TheTables

(* A group file is replaced: no session that runs is quiet any more. *)
LEMMA DisturbFit ==
    ASSUME SessionsInv, Disturb, NEW o \in Sessions,
           FitInv(sess[o], table["seasonal"], groups)
    PROVE  FitInv(sess'[o], table["seasonal"], groups')
<1>1. PICK r, f, gs, new : /\ r = sess[o] /\ f = table["seasonal"] /\ gs = groups
                           /\ new = groups'
  OBVIOUS
<1>2. Shape(r) /\ FitInv(r, f, gs)
  BY <1>1, SawFacts
<1>3. CASE new = gs
  BY <1>1, <1>2, <1>3 DEF Disturb
<1>4. CASE new # gs /\ r.pc = "idle"
  <2>1. sess'[o] = r
    BY <1>1, <1>4 DEF Disturb
  <2>2. FitInv(r, f, new)
    BY <1>4, FitElsewhere DEF FitsCritical, Later
  <2> QED
    BY <1>1, <2>1, <2>2
<1>5. CASE new # gs /\ r.pc # "idle"
  <2> DEFINE q == [r EXCEPT !.quiet = FALSE]
  <2>1. sess'[o] = q
    BY <1>1, <1>5 DEF Disturb
  <2>2. q.quiet = FALSE /\ q.pc = r.pc /\ q.derived = r.derived
    BY <1>2 DEF Shape, Fields
  <2> HIDE DEF q
  <2>3. FitInv(q, f, new)
    BY <1>2, <2>2 DEF FitInv, Trusts
  <2> QED
    BY <1>1, <2>1, <2>3
<1> QED
  BY <1>3, <1>4, <1>5

LEMMA FitsStep ==
    ASSUME SessionsInv, WriteInv, RecordsInv, FitsInv, NEW s \in Sessions,
           SessionStep(s) \/ KillSession(s), groups' = groups
    PROVE  FitsInv'
<1>1. PICK f, h, gs : f = table["seasonal"] /\ h = table'["seasonal"] /\ gs = groups
  OBVIOUS
<1>2. /\ \A o \in Sessions : FitInv(sess[o], f, gs) /\ DataInv(sess[o], gs, complete)
      /\ sess = [o \in Sessions |-> sess[o]]
  BY <1>1 DEF FitsInv, RecordsInv, SessionsInv
<1>3. report' = report => FitIsOfOneExtraction'
  BY DEF FitsInv, FitIsOfOneExtraction
<1>4. ASSUME sess' = [sess EXCEPT ![s] = sess'[s]], FitInv(sess'[s], h, gs),
             h = f \/ h.state # "whole" \/ ~h.quiet \/ RowsOf(h.rows, gs),
             FitIsOfOneExtraction'
      PROVE  FitsInv'
  <2>1. \A o \in Sessions : FitInv(sess'[o], h, gs)
    <3>1. ASSUME NEW o \in Sessions
          PROVE  FitInv(sess'[o], h, gs)
      <4>1. CASE o = s
        BY <1>4, <4>1
      <4>2. CASE o # s
        <5>1. PICK r : r = sess[o]
          OBVIOUS
        <5>2. FitInv(r, h, gs)
          BY <1>2, <1>4, <5>1, FitOtherTable
        <5>3. sess'[o] = r
          BY <1>2, <1>4, <4>2, <5>1
        <5> QED
          BY <5>2, <5>3
      <4> QED
        BY <4>1, <4>2
    <3> QED
      BY <3>1
  <2> QED
    BY <1>1, <1>4, <2>1 DEF FitsInv
<1>5. CASE OpenTable(s)
  <2>1. sess' = [sess EXCEPT ![s] = sess'[s]] /\ report' = report
    BY <1>5, BecomeFacts DEF OpenTable, Become
  <2> QED
    BY <1>1, <1>3, <1>4, <1>5, <2>1, OpenFit
<1>6. CASE CloseTable(s)
  <2>1. sess' = [sess EXCEPT ![s] = sess'[s]] /\ report' = report
    <3>1. (\E q : Become(s, q)) /\ report' = report
      BY <1>6 DEF CloseTable, Stop
    <3> QED
      BY <3>1, BecomeFacts DEF Become
  <2>2. DataInv(sess[s], groups, complete)
    BY <1>1, <1>2
  <2> QED
    BY <1>1, <1>3, <1>4, <1>6, <2>1, <2>2, CloseFit
<1>7. CASE TableFails(s)
  <2>1. report' = report
    BY <1>7 DEF TableFails
  <2>2. ASSUME NEW o \in Sessions
        PROVE  FitInv(sess'[o], h, gs)
    <3>1. PICK q : q = sess'[o]
      OBVIOUS
    <3>2. FitInv(q, f, gs) /\ (h = f \/ h.state # "whole")
      BY <1>1, <1>7, <3>1, FailFit
    <3> QED
      BY <3>1, <3>2, FitOtherTable
  <2> QED
    BY <1>1, <1>3, <2>1, <2>2 DEF FitsInv
<1>8. CASE ~OpenTable(s) /\ ~CloseTable(s) /\ ~TableFails(s)
  <2>1. /\ FitInv(sess'[s], table["seasonal"], groups)
        /\ FitIsOfOneExtraction'
    BY <1>8, SessionFit
  <2>2. sess' = [sess EXCEPT ![s] = sess'[s]] /\ UNCHANGED tables
    <3>1. (\E q : Become(s, q)) /\ UNCHANGED tables
      BY <1>8 DEF SessionStep, KillSession, CellOne, OpenGroup, SelectMembers, CellTwo, CellThree,
                  CellFour, Compute, Load, ReadMonthly, ReadSeasonal, LookForMonths,
                  ReadMonth, WriteReport, Stop
    <3> QED
      BY <3>1, BecomeFacts DEF Become
  <2>3. h = f
    BY <1>1, <2>2 DEF tables
  <2> QED
    BY <1>1, <1>4, <2>1, <2>2, <2>3
<1> QED
  BY <1>5, <1>6, <1>7, <1>8

LEMMA FitsNext ==
    ASSUME PpeAnalysisInv, FitsInv, [AnalysisNext]_analysisVars
    PROVE  FitsInv'
<1>1. /\ SessionsInv /\ WriteInv /\ RecordsInv
      /\ \A o \in Sessions : FitInv(sess[o], table["seasonal"], groups)
  BY DEF PpeAnalysisInv, TablesInv, AnalysisInv, FitsInv
<1>2. report' = report => FitIsOfOneExtraction'
  BY DEF FitsInv, FitIsOfOneExtraction
<1>3. ASSUME UNCHANGED <<groups, sess, table, report>>
      PROVE  FitsInv'
  BY <1>1, <1>2, <1>3 DEF FitsInv
<1>4. CASE UNCHANGED analysisVars
  BY <1>3, <1>4 DEF analysisVars, groupVars, tables
<1>5. ASSUME NEW s \in Sessions, StartSession(s), UNCHANGED groupVars
      PROVE  FitsInv'
  <2>1. PICK cached : Become(s, [SIdle EXCEPT !.pc = "cell1", !.n = started', !.cached = cached])
    BY <1>5 DEF StartSession
  <2>2. PICK r, n : r = SIdle /\ n = started'
    OBVIOUS
  <2> DEFINE q == [r EXCEPT !.pc = "cell1", !.n = n, !.cached = cached]
  <2>3. Become(s, q)
    BY <2>1, <2>2
  <2>4. q.pc = "cell1"
    BY <2>2, IdleFields DEF Fields
  <2> HIDE DEF q
  <2>5. /\ sess'[s] = q
        /\ \A o \in Sessions \ {s} : sess'[o] = sess[o]
    BY <1>1, <2>3, BecomeFacts DEF Become
  <2>6. groups' = groups /\ table' = table /\ report' = report
    BY <1>5 DEF StartSession, groupVars, tables
  <2>7. PICK f, gs : f = table["seasonal"] /\ gs = groups
    OBVIOUS
  <2>8. FitInv(q, f, gs)
    BY <2>4, FitElsewhere DEF FitsCritical, Later
  <2>9. \A o \in Sessions : FitInv(sess'[o], table["seasonal"], groups)
    BY <1>1, <2>5, <2>7, <2>8
  <2> QED
    BY <1>2, <2>6, <2>9 DEF FitsInv
<1>6. CASE GroupFilesNext /\ Disturb /\ UNCHANGED <<tables, report>>
  <2>1. \A o \in Sessions : FitInv(sess'[o], table["seasonal"], groups')
    BY <1>1, <1>6, DisturbFit
  <2> QED
    BY <1>2, <1>6, <2>1 DEF FitsInv, tables
<1> QED
  BY <1>1, <1>3, <1>4, <1>5, <1>6, FitsStep DEF AnalysisNext, groupVars, tables

(* For any number of sessions and extractions: a fit whose session, and    *)
(* the session whose table it uses, ran while no group file was replaced   *)
(* takes its grids and its regional means from one extraction, though the  *)
(* cache guard is evaluated again and the table may be another session's   *)
(* (L346, L420, L497, L635).                                               *)
THEOREM FitsAreOfOneExtraction == AnalysisSpec => []FitIsOfOneExtraction
<1> DEFINE Inv == PpeAnalysisInv /\ FitsInv
<1>1. AnalysisInit => Inv
  BY PpeAnalysisInvInit, FitsInit
<1>2. Inv /\ [AnalysisNext]_analysisVars => Inv'
  BY PpeAnalysisInvNext, FitsNext
<1>3. Inv => FitIsOfOneExtraction
  BY DEF FitsInv
<1> HIDE DEF Inv
<1> QED
  BY <1>1, <1>2, <1>3, PTL DEF AnalysisSpec
=============================================================================
