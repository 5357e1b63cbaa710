--------------------------- MODULE Pipeline_proofs ---------------------------
(***************************************************************************)
(* What get_data.py promises beside a running download, proved for any     *)
(* models, variables, globs, server contents and bounds.                   *)
(***************************************************************************)
EXTENDS Pipeline, FetchSource_proofs

-----------------------------------------------------------------------------
(* Only the processor makes a file that is not whole, and it keeps track   *)
(* of the one it has open: either its path names it, or nothing does.      *)

PFields == {"pc", "exit", "renew", "todo", "plan", "file", "body", "named", "summary", "quiet"}

Shape(r) == r = [f \in PFields |-> r[f]]

WholeInv ==
    /\ Shape(proc) /\ DOMAIN processed = Pairs
    /\ proc.pc = "write" /\ ~proc.named /\ WorkPair \in Pairs => processed[WorkPair] = None
    /\ WholeUnlessBroken

(* A step of the processor that leaves the processed files as they are and *)
(* has none open afterwards. *)
LEMMA NothingOpened ==
    ASSUME WholeInv, Shape(proc'), processed' = processed, proc'.pc # "write",
           proc.pc = "write" => broken' = broken \cup {WorkPair},
           proc.pc # "write" => broken' = broken
    PROVE  WholeInv'
<1>1. WholeUnlessBroken'
  <2> SUFFICES ASSUME NEW p \in Pairs, processed'[p] # None, ~processed'[p].whole
               PROVE  p \in broken'
    BY DEF WholeUnlessBroken
  <2>1. p \in broken \/ (proc.pc = "write" /\ WorkPair = p)
    BY DEF WholeInv, WholeUnlessBroken
  <2> QED
    BY <2>1
<1> QED
  BY <1>1 DEF WholeInv

LEMMA IdleShape == Shape(NotProcessing) /\ NotProcessing.pc = "idle"
BY DEF Shape, NotProcessing, PFields

LEMMA QuitShape ==
    ASSUME NEW r, NEW exit
    PROVE  Shape(Quit(r, exit)) /\ Quit(r, exit).pc = "idle"
<1>1. PICK q, s, p, u, w : q = NotProcessing /\ s = r.summary /\ p = r.plan /\ u = r.quiet
                           /\ w = r.renew
  OBVIOUS
<1>2. Quit(r, exit) = [q EXCEPT !.exit = exit, !.summary = s, !.plan = p, !.quiet = u, !.renew = w]
  BY <1>1 DEF Quit
<1> QED
  BY <1>1, <1>2, IdleShape DEF Shape, PFields

LEMMA CountedShape ==
    ASSUME NEW r, NEW outcome, Shape(r)
    PROVE  Shape(Counted(r, outcome)) /\ Counted(r, outcome).pc \in {"idle", "find"}
<1>1. PICK n : n = [r EXCEPT !.summary[outcome] = @ + 1]
  OBVIOUS
<1>2. Shape(n)
  <2>1. PICK s : s = [r.summary EXCEPT ![outcome] = @ + 1]
    OBVIOUS
  <2>2. n = [r EXCEPT !.summary = s]
    BY <1>1, <2>1 DEF Shape, PFields
  <2> QED
    BY <2>2 DEF Shape, PFields
<1>3. Counted(r, outcome) = IF Len(r.todo) = 1 THEN Quit(n, "ok")
         ELSE [n EXCEPT !.pc = "find", !.todo = Tail(@), !.file = NoFile, !.body = None]
  BY <1>1 DEF Counted
<1>4. CASE Len(r.todo) = 1
  BY <1>3, <1>4, QuitShape
<1>5. CASE Len(r.todo) # 1
  <2>1. PICK t, f : t = Tail(n.todo) /\ f = NoFile
    OBVIOUS
  <2>2. Counted(r, outcome) = [n EXCEPT !.pc = "find", !.todo = t, !.file = f, !.body = None]
    BY <1>2, <1>3, <1>5, <2>1 DEF Shape, PFields
  <2> QED
    BY <1>2, <2>2 DEF Shape, PFields
<1> QED
  BY <1>4, <1>5

LEMMA WholeStart ==
    ASSUME WholeInv, ProcessStart
    PROVE  WholeInv'
<1>1. PICK renew, w : proc' = LET r == [NotProcessing EXCEPT !.renew = renew, !.todo = w,
                                                              !.plan = w, !.quiet = TRUE]
                              IN  IF w = <<>> THEN Quit(r, "ok") ELSE [r EXCEPT !.pc = "find"]
  BY DEF ProcessStart
<1>2. PICK r : r = [NotProcessing EXCEPT !.renew = renew, !.todo = w, !.plan = w, !.quiet = TRUE]
  OBVIOUS
<1>3. PICK q : q = NotProcessing /\ Shape(q)
  BY IdleShape
<1>4. Shape(r)
  BY <1>2, <1>3 DEF Shape, PFields
<1>5. proc' = Quit(r, "ok") \/ proc' = [r EXCEPT !.pc = "find"]
  BY <1>1, <1>2
<1>6. Shape(proc') /\ proc'.pc # "write"
  <2>1. CASE proc' = Quit(r, "ok")
    BY <2>1, QuitShape
  <2>2. CASE proc' = [r EXCEPT !.pc = "find"]
    BY <1>4, <2>2 DEF Shape, PFields
  <2> QED
    BY <1>5, <2>1, <2>2
<1> QED
  BY <1>6, NothingOpened DEF ProcessStart, Processing

LEMMA WholeReading ==
    ASSUME WholeInv, Find \/ Stat \/ Read
    PROVE  WholeInv'
<1>1. PICK p, file : p = proc /\ Shape(p)
  BY DEF WholeInv
<1>2. /\ processed' = processed /\ broken' = broken /\ proc.pc # "write"
  BY DEF Find, Stat, Read, catalogue
<1>3. Shape(proc') /\ proc'.pc # "write"
  <2>1. CASE Find
    <3>1. proc' = Counted(p, "missing") \/ \E f : proc' = [p EXCEPT !.pc = "stat", !.file = f]
      BY <1>1, <2>1 DEF Find
    <3>2. ASSUME NEW f, proc' = [p EXCEPT !.pc = "stat", !.file = f]
          PROVE  Shape(proc') /\ proc'.pc # "write"
      BY <1>1, <3>2 DEF Shape, PFields
    <3>3. ASSUME NEW o, proc' = Counted(p, o)
          PROVE  Shape(proc') /\ proc'.pc # "write"
      BY <1>1, <3>3, CountedShape
    <3> QED
      BY <3>1, <3>2, <3>3
  <2>2. CASE Stat
    <3>1. \/ proc' = Quit(p, "crash") \/ proc' = Counted(p, "missing")
          \/ proc' = Counted(p, "skipped") \/ proc' = [p EXCEPT !.pc = "read"]
      BY <1>1, <2>2 DEF Stat
    <3>2. CASE proc' = [p EXCEPT !.pc = "read"]
      BY <1>1, <3>2 DEF Shape, PFields
    <3> QED
      BY <1>1, <3>1, <3>2, CountedShape, QuitShape
  <2>3. CASE Read
    <3>1. \/ proc' = Counted(p, "errors") \/ proc' = Counted(p, "missing")
          \/ \E b : proc' = [p EXCEPT !.pc = "open", !.body = b]
          \/ \E q : proc' = [Counted(p, "errors") EXCEPT !.quiet = q]
      BY <1>1, <2>3 DEF Read
    <3>2. ASSUME NEW b, proc' = [p EXCEPT !.pc = "open", !.body = b]
          PROVE  Shape(proc') /\ proc'.pc # "write"
      BY <1>1, <3>2 DEF Shape, PFields
    <3>3. ASSUME NEW q, proc' = [Counted(p, "errors") EXCEPT !.quiet = q]
          PROVE  Shape(proc') /\ proc'.pc # "write"
      <4>1. PICK c : c = Counted(p, "errors") /\ Shape(c) /\ c.pc # "write"
        BY <1>1, CountedShape
      <4> QED
        BY <3>3, <4>1 DEF Shape, PFields
    <3>4. ASSUME NEW o, proc' = Counted(p, o)
          PROVE  Shape(proc') /\ proc'.pc # "write"
      BY <1>1, <3>4, CountedShape
    <3> QED
      BY <3>1, <3>2, <3>3, <3>4
  <2> QED
    BY <2>1, <2>2, <2>3
<1> QED
  BY <1>2, <1>3, NothingOpened

LEMMA WholeFails ==
    ASSUME WholeInv, WriteFails
    PROVE  WholeInv'
<1>1. PICK p, quiet, named : p = proc /\ Shape(p) /\ quiet = FALSE /\ named = FALSE
  BY DEF WholeInv
<1>2. PICK q : q = [p EXCEPT !.quiet = quiet, !.named = named] /\ proc' = Counted(q, "errors")
  BY <1>1 DEF WriteFails
<1>3. Shape(q)
  BY <1>1, <1>2 DEF Shape, PFields
<1>4. Shape(proc') /\ proc'.pc # "write"
  BY <1>2, <1>3, CountedShape
<1> QED
  BY <1>4, NothingOpened DEF WriteFails

LEMMA WholeKilled ==
    ASSUME WholeInv, ProcessKill
    PROVE  WholeInv'
<1>1. Shape(proc') /\ proc'.pc # "write"
  BY QuitShape DEF ProcessKill
<1> QED
  BY <1>1, NothingOpened DEF ProcessKill, catalogue

LEMMA WholeOpened ==
    ASSUME WholeInv, OpenOutput
    PROVE  WholeInv'
<1>1. PICK p, named : p = proc /\ Shape(p) /\ named = TRUE
  BY DEF WholeInv
<1>2. proc' = [p EXCEPT !.pc = "write", !.named = named] /\ broken' = broken /\ p.pc = "open"
  BY <1>1 DEF OpenOutput
<1>3. Shape(proc') /\ proc'.pc = "write" /\ proc'.todo = p.todo /\ proc'.named = named
  BY <1>1, <1>2 DEF Shape, PFields
<1>4. PICK w, new : /\ w = WorkPair
                    /\ processed' = [processed EXCEPT ![w] = new]
  BY DEF OpenOutput, SetOutput
<1>5. WorkPair' = w
  BY <1>1, <1>3, <1>4 DEF WorkPair
<1>6. \A q \in Pairs : processed'[q] # None /\ ~processed'[q].whole => q \in broken' \/ q = w
  <2> SUFFICES ASSUME NEW q \in Pairs, processed'[q] # None, ~processed'[q].whole, q # w
               PROVE  q \in broken
    BY <1>2
  <2>1. processed'[q] = processed[q]
    BY <1>4 DEF WholeInv
  <2> QED
    BY <1>1, <1>2, <2>1 DEF WholeInv, WholeUnlessBroken
<1>7. DOMAIN processed' = Pairs
  BY <1>4 DEF WholeInv
<1> QED
  BY <1>1, <1>3, <1>5, <1>6, <1>7 DEF WholeInv, WholeUnlessBroken

LEMMA WholeClosed ==
    ASSUME WholeInv, CloseOutput
    PROVE  WholeInv'
<1>1. PICK p, named : p = proc /\ Shape(p) /\ named = FALSE
  BY DEF WholeInv
<1>2. PICK q : q = [p EXCEPT !.named = named] /\ proc' = Counted(q, "saved")
  BY <1>1 DEF CloseOutput
<1>3. Shape(q)
  BY <1>1, <1>2 DEF Shape, PFields
<1>4. Shape(proc') /\ proc'.pc # "write"
  BY <1>2, <1>3, CountedShape
<1>5. PICK w, body : w = WorkPair /\ body = proc.body
  OBVIOUS
<1>6. proc.pc = "write" /\ broken' = broken \ {w}
  BY <1>5 DEF CloseOutput
<1>7. CASE proc.named
  <2>1. PICK new : processed' = [processed EXCEPT ![w] = new] /\ new.whole = TRUE
    <3> DEFINE written == [whole |-> TRUE, mtime |-> clock, body |-> proc.body]
    <3>1. processed' = [processed EXCEPT ![w] = written]
      BY <1>5, <1>7 DEF CloseOutput, SetOutput
    <3>2. written.whole = TRUE
      OBVIOUS
    <3> HIDE DEF written
    <3> QED
      BY <3>1, <3>2
  <2>2. DOMAIN processed' = Pairs
    BY <2>1 DEF WholeInv
  <2>3. \A k \in Pairs : processed'[k] # None /\ ~processed'[k].whole => k \in broken'
    <3> SUFFICES ASSUME NEW k \in Pairs, processed'[k] # None, ~processed'[k].whole
                 PROVE  k \in broken \ {w}
      BY <1>6
    <3>1. k # w
      BY <2>1 DEF WholeInv
    <3>2. processed'[k] = processed[k]
      BY <2>1, <3>1 DEF WholeInv
    <3> QED
      BY <1>5, <3>1, <3>2 DEF WholeInv, WholeUnlessBroken
  <2> QED
    BY <1>4, <2>2, <2>3 DEF WholeInv, WholeUnlessBroken
<1>8. CASE ~proc.named
  <2>1. processed' = processed
    BY <1>8 DEF CloseOutput
  <2>2. \A k \in Pairs : processed[k] # None /\ ~processed[k].whole => k \in broken \ {w}
    BY <1>5, <1>6, <1>8 DEF WholeInv, WholeUnlessBroken
  <2> QED
    BY <1>4, <1>6, <2>1, <2>2 DEF WholeInv, WholeUnlessBroken
<1> QED
  BY <1>7, <1>8

LEMMA FetchProcessed ==
    ASSUME FetchNext, DOMAIN processed = Pairs
    PROVE  /\ DOMAIN processed' = Pairs
           /\ \A p \in Pairs : processed'[p] = processed[p] \/ processed'[p] = None
<1>1. processed' = processed \/ processed' = [processed EXCEPT ![FetchPair] = None]
  BY DEF FetchNext, FetchStart, FetchStep, ShellStep, ScpStep, Wipe, Look, ScpOpen, ScpData,
         ScpDone, ScpEnd, Sweep, ScpFail, FetchKill
<1> QED
  BY <1>1

LEMMA WholeBeside ==
    ASSUME WholeInv, FetchBeside
    PROVE  WholeInv'
<1>1. PICK p, quiet, named :
         /\ p = proc /\ Shape(p)
         /\ quiet = (p.quiet /\ UNCHANGED <<local, processed, made>>)
         /\ named = (p.named /\ processed'[WorkPair] # None)
  BY DEF WholeInv
<1>2. proc' = [p EXCEPT !.quiet = quiet, !.named = named] /\ broken' = broken
  BY <1>1 DEF FetchBeside, Shape, PFields
<1>3. /\ Shape(proc') /\ proc'.pc = p.pc /\ proc'.todo = p.todo /\ proc'.named = named
  BY <1>1, <1>2 DEF Shape, PFields
<1>4. WorkPair' = WorkPair
  BY <1>1, <1>3 DEF WorkPair
<1>5. /\ DOMAIN processed' = Pairs
      /\ \A k \in Pairs : processed'[k] = processed[k] \/ processed'[k] = None
  BY FetchProcessed DEF WholeInv, FetchBeside
<1>6. proc'.pc = "write" /\ ~proc'.named /\ WorkPair' \in Pairs => processed'[WorkPair'] = None
  <2> SUFFICES ASSUME p.pc = "write", ~named, WorkPair \in Pairs
               PROVE  processed'[WorkPair] = None
    BY <1>3, <1>4
  <2>1. CASE p.named
    BY <1>1, <2>1
  <2>2. CASE ~p.named
    BY <1>1, <1>5, <2>2 DEF WholeInv
  <2> QED
    BY <2>1, <2>2
<1>7. WholeUnlessBroken'
  BY <1>1, <1>2, <1>3, <1>4, <1>5 DEF WholeInv, WholeUnlessBroken
<1> QED
  BY <1>3, <1>5, <1>6, <1>7 DEF WholeInv

LEMMA WholeInit == ASSUME PipelineInit PROVE WholeInv
<1>1. proc = NotProcessing /\ processed = [p \in Pairs |-> None]
  BY DEF PipelineInit, FetchInit, ProcessInit, CatalogueInit
<1> QED
  BY <1>1, IdleShape DEF WholeInv, WholeUnlessBroken

LEMMA WholeNext ==
    ASSUME WholeInv, [PipelineNext]_pipelineVars
    PROVE  WholeInv'
<1>1. CASE ProcessNext
  BY <1>1, WholeStart, WholeReading, WholeOpened, WholeClosed, WholeFails, WholeKilled
     DEF ProcessNext, ProcessStep
<1>2. CASE FetchBeside
  BY <1>2, WholeBeside
<1>3. CASE UNCHANGED <<processed, proc, broken>>
  BY <1>3 DEF WholeInv, WholeUnlessBroken, WorkPair
<1>4. World => UNCHANGED processed
  BY DEF World, Upload, Tick
<1> QED
  BY <1>1, <1>2, <1>3, <1>4 DEF PipelineNext, ProcessBeside, pipelineVars, catalogue

(* However writes fail, the processor is killed, or the download removes   *)
(* files under its hands, a processed file that is not whole is the one    *)
(* being written or one whose last writer failed or died (L688-692).       *)
THEOREM Wholeness == PipelineSpec => []WholeUnlessBroken
<1>1. PipelineInit => WholeInv
  BY WholeInit
<1>2. WholeInv /\ [PipelineNext]_pipelineVars => WholeInv'
  BY WholeNext
<1>3. WholeInv => WholeUnlessBroken
  BY DEF WholeInv
<1> QED
  BY <1>1, <1>2, <1>3, PTL DEF PipelineSpec

-----------------------------------------------------------------------------
(* The summary. *)

Outcomes == {"saved", "skipped", "missing", "errors"}

TallyOf(r) == r.summary.saved + r.summary.skipped + r.summary.missing + r.summary.errors

(* What is counted and what is to be done make up the plan of the run.     *)
CountInv(r) ==
    /\ Shape(r)
    /\ r.todo \in Seq(Work) /\ r.plan \in Seq(Work)
    /\ r.summary \in [Outcomes -> Nat]
    /\ r.pc # "idle" =>
          r.exit = "none" /\ r.todo # <<>> /\ TallyOf(r) + Len(r.todo) = Len(r.plan)
    /\ r.exit = "ok" => TallyOf(r) = Len(r.plan)

LEMMA IdleCounts == CountInv(NotProcessing) /\ NotProcessing.todo = <<>>
<1>1. /\ NotProcessing.todo = <<>> /\ NotProcessing.plan = <<>> /\ NotProcessing.exit = "none"
      /\ NotProcessing.pc = "idle" /\ NotProcessing.summary = NoCounts
  BY DEF NotProcessing
<1>2. NoCounts \in [Outcomes -> Nat]
  BY DEF NoCounts, Outcomes
<1> QED
  BY <1>1, <1>2, IdleShape DEF CountInv

(* A run that stops early has nothing to account for. *)
LEMMA QuitCounts ==
    ASSUME NEW r, NEW exit, r.plan \in Seq(Work), r.summary \in [Outcomes -> Nat],
           exit = "ok" => TallyOf(r) = Len(r.plan)
    PROVE  CountInv(Quit(r, exit))
<1>1. PICK q, s, p, u, w : q = NotProcessing /\ s = r.summary /\ p = r.plan /\ u = r.quiet
                           /\ w = r.renew
  OBVIOUS
<1>2. Quit(r, exit) = [q EXCEPT !.exit = exit, !.summary = s, !.plan = p, !.quiet = u, !.renew = w]
  BY <1>1 DEF Quit
<1>3. Shape(q) /\ q.todo = <<>> /\ q.pc = "idle"
  BY <1>1, IdleShape, IdleCounts
<1>4. PICK z : z = Quit(r, exit)
  OBVIOUS
<1>5. Shape(z) /\ z.todo = <<>> /\ z.pc = "idle" /\ z.summary = s /\ z.plan = p /\ z.exit = exit
  BY <1>2, <1>3, <1>4 DEF Shape, PFields
<1>6. TallyOf(z) = TallyOf(r)
  BY <1>1, <1>5 DEF TallyOf
<1>7. z.todo \in Seq(Work)
  BY <1>5
<1> QED
  BY <1>1, <1>4, <1>5, <1>6, <1>7 DEF CountInv

LEMMA CountedCounts ==
    ASSUME NEW r, NEW outcome \in Outcomes, CountInv(r), r.pc # "idle"
    PROVE  CountInv(Counted(r, outcome))
<1>1. PICK s : s = [r.summary EXCEPT ![outcome] = @ + 1]
  OBVIOUS
<1>2. PICK n : n = [r EXCEPT !.summary = s]
  OBVIOUS
<1>3. n = [r EXCEPT !.summary[outcome] = @ + 1]
  BY <1>1, <1>2 DEF CountInv, Shape, PFields
<1>4. /\ Shape(n) /\ n.summary = s /\ n.todo = r.todo /\ n.plan = r.plan /\ n.exit = r.exit
  BY <1>2 DEF CountInv, Shape, PFields
<1>5. s \in [Outcomes -> Nat]
  BY <1>1 DEF CountInv
<1>6. s.saved + s.skipped + s.missing + s.errors = TallyOf(r) + 1
  <2>1. /\ r.summary.saved \in Nat /\ r.summary.skipped \in Nat
        /\ r.summary.missing \in Nat /\ r.summary.errors \in Nat
    BY DEF CountInv, Outcomes
  <2>2. \A o \in Outcomes : s[o] = IF o = outcome THEN r.summary[o] + 1 ELSE r.summary[o]
    BY <1>1 DEF CountInv
  <2>3. CASE outcome = "saved"
    BY <2>1, <2>2, <2>3 DEF TallyOf, Outcomes
  <2>4. CASE outcome = "skipped"
    BY <2>1, <2>2, <2>4 DEF TallyOf, Outcomes
  <2>5. CASE outcome = "missing"
    BY <2>1, <2>2, <2>5 DEF TallyOf, Outcomes
  <2>6. CASE outcome = "errors"
    BY <2>1, <2>2, <2>6 DEF TallyOf, Outcomes
  <2> QED
    BY <2>3, <2>4, <2>5, <2>6 DEF Outcomes
<1>7. TallyOf(n) = TallyOf(r) + 1
  BY <1>4, <1>6 DEF TallyOf
<1>8. /\ r.todo \in Seq(Work) /\ r.todo # <<>> /\ r.plan \in Seq(Work) /\ r.exit = "none"
      /\ TallyOf(r) + Len(r.todo) = Len(r.plan) /\ TallyOf(r) \in Nat
  <2>1. /\ r.summary.saved \in Nat /\ r.summary.skipped \in Nat
        /\ r.summary.missing \in Nat /\ r.summary.errors \in Nat
    BY DEF CountInv, Outcomes
  <2>2. TallyOf(r) \in Nat
    BY <2>1 DEF TallyOf
  <2> QED
    BY <2>2 DEF CountInv
<1>9. Counted(r, outcome) = IF Len(r.todo) = 1 THEN Quit(n, "ok")
         ELSE [n EXCEPT !.pc = "find", !.todo = Tail(@), !.file = NoFile, !.body = None]
  BY <1>3 DEF Counted
<1>10. CASE Len(r.todo) = 1
  <2>1. TallyOf(n) = Len(n.plan)
    BY <1>4, <1>7, <1>8, <1>10
  <2> QED
    BY <1>4, <1>5, <1>8, <1>9, <1>10, <2>1, QuitCounts
<1>11. CASE Len(r.todo) # 1
  <2>1. PICK t, f : t = Tail(r.todo) /\ f = NoFile
    OBVIOUS
  <2>2. t \in Seq(Work) /\ Len(t) = Len(r.todo) - 1 /\ t # <<>>
    <3>1. PICK w : w = r.todo /\ w \in Seq(Work) /\ w # <<>> /\ Len(w) # 1 /\ t = Tail(w)
      BY <1>8, <1>11, <2>1
    <3>2. Len(w) \in Nat /\ Len(w) > 1
      <4>1. Len(w) \in Nat
        BY <3>1
      <4>2. Len(w) # 0
        BY <3>1, EmptySeq
      <4>3. Len(w) # 1
        BY <3>1
      <4>4. PICK k : k = Len(w)
        OBVIOUS
      <4>5. k \in Nat /\ k # 0 /\ k # 1
        BY <4>1, <4>2, <4>3, <4>4
      <4>6. k > 1
        BY <4>5
      <4> QED
        BY <4>1, <4>4, <4>6
    <3>3. t \in Seq(Work) /\ Len(t) = Len(w) - 1
      BY <3>1, <3>2
    <3>4. Len(t) # 0
      BY <3>2, <3>3
    <3> QED
      BY <3>1, <3>3, <3>4
  <2>3. PICK z : z = Counted(r, outcome)
    OBVIOUS
  <2>4. z = [n EXCEPT !.pc = "find", !.todo = t, !.file = f, !.body = None]
    BY <1>4, <1>9, <1>11, <2>1, <2>3 DEF Shape, PFields
  <2>5. /\ Shape(z) /\ z.todo = t /\ z.plan = r.plan /\ z.summary = s /\ z.exit = "none"
        /\ z.pc = "find"
    BY <1>4, <1>8, <2>4 DEF Shape, PFields
  <2>6. TallyOf(z) = TallyOf(r) + 1
    BY <1>6, <2>5 DEF TallyOf
  <2>7. Len(r.todo) \in Nat /\ Len(r.plan) \in Nat
    BY <1>8
  <2>8. TallyOf(z) + Len(z.todo) = Len(z.plan)
    <3>1. PICK a, b, c : a = TallyOf(r) /\ b = Len(r.todo) /\ c = Len(r.plan)
      OBVIOUS
    <3>2. a \in Nat /\ b \in Nat /\ c \in Nat /\ a + b = c
      BY <1>8, <2>7, <3>1
    <3>3. TallyOf(z) = a + 1 /\ Len(z.todo) = b - 1 /\ Len(z.plan) = c
      BY <2>2, <2>5, <2>6, <3>1
    <3> QED
      BY <3>2, <3>3
  <2> QED
    BY <1>5, <1>8, <2>2, <2>3, <2>5, <2>8 DEF CountInv
<1> QED
  BY <1>10, <1>11

(* A step within a pair leaves todo, plan and summary alone. *)
SameWork(r, q) ==
    /\ Shape(q) /\ q.pc # "idle" /\ q.exit = r.exit
    /\ q.todo = r.todo /\ q.plan = r.plan /\ q.summary = r.summary

LEMMA SameWorkCounts ==
    ASSUME NEW r, NEW q, CountInv(r), r.pc # "idle", SameWork(r, q)
    PROVE  CountInv(q)
<1>1. TallyOf(q) = TallyOf(r)
  BY DEF SameWork, TallyOf
<1> QED
  BY <1>1 DEF SameWork, CountInv

LEMMA WorkListIsSeq == WorkList \in Seq(Work)
<1> DEFINE In(d, sel) == LET s == Selected(sel)
                         IN  [i \in DOMAIN s |-> [dir |-> d, pair |-> s[i]]]
<1>1. ASSUME NEW d \in Dirs, NEW sel \in SUBSET Pairs
      PROVE  In(d, sel) \in Seq(Work)
  <2>1. PICK s : s = Selected(sel) /\ s \in Seq(Pairs)
    BY SelectionAssumption
  <2>2. \A i \in DOMAIN s : [dir |-> d, pair |-> s[i]] \in Work
    BY <2>1 DEF Work
  <2>3. [i \in DOMAIN s |-> [dir |-> d, pair |-> s[i]]] \in Seq(Work)
    BY <2>1, <2>2
  <2> QED
    BY <2>1, <2>3
<1>2. WorkList = In("primary", {p \in Pairs : p[1] \in made})
          \o In("secondary", {p \in Pairs : p[1] \notin made /\ InOldTree(p[1])})
  BY DEF WorkList
<1> HIDE DEF In
<1> QED
  BY <1>1, <1>2 DEF Dirs

LEMMA CountStart ==
    ASSUME ProcessStart
    PROVE  CountInv(proc')
<1>1. PICK renew, w :
        /\ proc' = LET r == [NotProcessing EXCEPT !.renew = renew, !.todo = w,
                                                  !.plan = w, !.quiet = TRUE]
                   IN  IF w = <<>> THEN Quit(r, "ok") ELSE [r EXCEPT !.pc = "find"]
        /\ w = WorkList
  BY DEF ProcessStart
<1>2. PICK r : r = [NotProcessing EXCEPT !.renew = renew, !.todo = w, !.plan = w, !.quiet = TRUE]
  OBVIOUS
<1>3. PICK q : q = NotProcessing /\ CountInv(q) /\ q.exit = "none" /\ q.summary = NoCounts
  BY IdleCounts DEF NotProcessing
<1>4. /\ Shape(r) /\ r.todo = w /\ r.plan = w /\ r.summary = NoCounts /\ r.exit = "none"
  BY <1>2, <1>3 DEF CountInv, Shape, PFields
<1>5. w \in Seq(Work) /\ NoCounts \in [Outcomes -> Nat]
  BY <1>1, WorkListIsSeq DEF NoCounts, Outcomes
<1>6. ASSUME NEW z, z.summary = NoCounts
      PROVE  TallyOf(z) = 0
  BY <1>6 DEF TallyOf, NoCounts
<1>7. CASE w = <<>>
  <2>1. TallyOf(r) = Len(r.plan)
    BY <1>4, <1>6, <1>7
  <2> QED
    BY <1>1, <1>2, <1>4, <1>5, <1>7, <2>1, QuitCounts
<1>8. CASE w # <<>>
  <2>1. PICK z : z = proc'
    OBVIOUS
  <2>2. z = [r EXCEPT !.pc = "find"]
    BY <1>1, <1>2, <1>8, <2>1
  <2>3. /\ Shape(z) /\ z.todo = w /\ z.plan = w /\ z.summary = NoCounts /\ z.exit = "none"
    BY <1>4, <2>2 DEF Shape, PFields
  <2>4. TallyOf(z) = 0
    BY <1>6, <2>3
  <2>5. Len(w) \in Nat
    BY <1>5
  <2> QED
    BY <1>5, <1>8, <2>1, <2>3, <2>4, <2>5 DEF CountInv
<1> QED
  BY <1>7, <1>8

LEMMA CountReading ==
    ASSUME CountInv(proc), Find \/ Stat \/ Read
    PROVE  CountInv(proc')
<1>1. PICK p : p = proc /\ CountInv(p) /\ Shape(p) /\ p.pc # "idle"
  BY DEF CountInv, Find, Stat, Read
<1>2. ASSUME NEW o \in Outcomes, proc' = Counted(p, o)
      PROVE  CountInv(proc')
  BY <1>1, <1>2, CountedCounts
<1>3. ASSUME SameWork(p, proc')
      PROVE  CountInv(proc')
  <2>1. PICK q : q = proc'
    OBVIOUS
  <2> QED
    BY <1>1, <1>3, <2>1, SameWorkCounts
<1>4. /\ "missing" \in Outcomes /\ "skipped" \in Outcomes /\ "errors" \in Outcomes
  BY DEF Outcomes
<1>5. CASE Find
  <2>1. proc' = Counted(p, "missing") \/ \E f : proc' = [p EXCEPT !.pc = "stat", !.file = f]
    BY <1>1, <1>5 DEF Find
  <2>2. ASSUME NEW f, proc' = [p EXCEPT !.pc = "stat", !.file = f]
        PROVE  SameWork(p, proc')
    BY <1>1, <2>2 DEF SameWork, Shape, PFields
  <2> QED
    BY <1>2, <1>3, <1>4, <2>1, <2>2
<1>6. CASE Stat
  <2>1. \/ proc' = Quit(p, "crash") \/ proc' = Counted(p, "missing")
        \/ proc' = Counted(p, "skipped") \/ proc' = [p EXCEPT !.pc = "read"]
    BY <1>1, <1>6 DEF Stat
  <2>2. CASE proc' = [p EXCEPT !.pc = "read"]
    <3>1. SameWork(p, proc')
      BY <1>1, <2>2 DEF SameWork, Shape, PFields
    <3> QED
      BY <1>3, <3>1
  <2>3. CASE proc' = Quit(p, "crash")
    <3>1. p.plan \in Seq(Work) /\ p.summary \in [Outcomes -> Nat]
      BY <1>1 DEF CountInv
    <3>2. CountInv(Quit(p, "crash"))
      BY <3>1, QuitCounts
    <3> QED
      BY <2>3, <3>2
  <2> QED
    BY <1>2, <1>4, <2>1, <2>2, <2>3
<1>7. CASE Read
  <2>1. \/ proc' = Counted(p, "errors") \/ proc' = Counted(p, "missing")
        \/ \E b : proc' = [p EXCEPT !.pc = "open", !.body = b]
        \/ \E u : proc' = [Counted(p, "errors") EXCEPT !.quiet = u]
    BY <1>1, <1>7 DEF Read
  <2>2. ASSUME NEW b, proc' = [p EXCEPT !.pc = "open", !.body = b]
        PROVE  SameWork(p, proc')
    BY <1>1, <2>2 DEF SameWork, Shape, PFields
  <2>3. ASSUME NEW u, proc' = [Counted(p, "errors") EXCEPT !.quiet = u]
        PROVE  CountInv(proc')
    <3>1. PICK c : c = Counted(p, "errors") /\ CountInv(c)
      BY <1>1, <1>4, CountedCounts
    <3>2. PICK z : z = proc' /\ z = [c EXCEPT !.quiet = u]
      BY <2>3, <3>1
    <3>3. /\ Shape(z) /\ z.todo = c.todo /\ z.plan = c.plan /\ z.summary = c.summary
          /\ z.exit = c.exit /\ z.pc = c.pc
      BY <3>1, <3>2 DEF CountInv, Shape, PFields
    <3>4. TallyOf(z) = TallyOf(c)
      BY <3>3 DEF TallyOf
    <3> QED
      BY <3>1, <3>2, <3>3, <3>4 DEF CountInv
  <2> QED
    BY <1>2, <1>3, <1>4, <2>1, <2>2, <2>3
<1> QED
  BY <1>5, <1>6, <1>7

LEMMA CountWriting ==
    ASSUME CountInv(proc), OpenOutput \/ CloseOutput \/ WriteFails
    PROVE  CountInv(proc')
<1>1. PICK p, yes, no : p = proc /\ CountInv(p) /\ Shape(p) /\ p.pc # "idle" /\ yes = TRUE /\ no = FALSE
  BY DEF CountInv, OpenOutput, CloseOutput, WriteFails
<1>2. CASE OpenOutput
  <2>1. PICK z : z = proc' /\ z = [p EXCEPT !.pc = "write", !.named = yes]
    BY <1>1, <1>2 DEF OpenOutput
  <2>2. SameWork(p, z)
    BY <1>1, <2>1 DEF SameWork, Shape, PFields
  <2> QED
    BY <1>1, <2>1, <2>2, SameWorkCounts
<1>3. CASE CloseOutput \/ WriteFails
  <2>1. PICK u, o :
           o \in Outcomes /\ proc' = Counted([p EXCEPT !.quiet = u, !.named = no], o)
    <3>1. CASE CloseOutput
      <4>1. proc' = Counted([p EXCEPT !.named = no], "saved")
        BY <1>1, <3>1 DEF CloseOutput
      <4>2. PICK u : u = p.quiet
        OBVIOUS
      <4>3. [p EXCEPT !.named = no] = [p EXCEPT !.quiet = u, !.named = no]
        BY <1>1, <4>2 DEF Shape, PFields
      <4>4. proc' = Counted([p EXCEPT !.quiet = u, !.named = no], "saved")
        BY <4>1, <4>3
      <4> WITNESS u, "saved"
      <4> QED
        BY <4>4 DEF Outcomes
    <3>2. CASE WriteFails
      <4>1. proc' = Counted([p EXCEPT !.quiet = no, !.named = no], "errors")
        BY <1>1, <3>2 DEF WriteFails
      <4> WITNESS no, "errors"
      <4> QED
        BY <4>1 DEF Outcomes
    <3> QED
      BY <1>3, <3>1, <3>2
  <2>2. PICK q : q = [p EXCEPT !.quiet = u, !.named = no]
    OBVIOUS
  <2>3. SameWork(p, q)
    BY <1>1, <2>2 DEF SameWork, Shape, PFields
  <2>4. CountInv(q) /\ q.pc # "idle"
    BY <1>1, <2>3, SameWorkCounts DEF SameWork
  <2>5. CountInv(Counted(q, o))
    BY <2>1, <2>4, CountedCounts
  <2> QED
    BY <2>1, <2>2, <2>5
<1> QED
  BY <1>2, <1>3

LEMMA CountBeside ==
    ASSUME CountInv(proc), FetchBeside
    PROVE  CountInv(proc')
<1>1. PICK p, quiet, named :
         /\ p = proc /\ CountInv(p) /\ Shape(p)
         /\ quiet = (p.quiet /\ UNCHANGED <<local, processed, made>>)
         /\ named = (p.named /\ processed'[WorkPair] # None)
  BY DEF CountInv
<1>2. PICK z : z = proc' /\ z = [p EXCEPT !.quiet = quiet, !.named = named]
  BY <1>1 DEF FetchBeside, Shape, PFields
<1>3. /\ Shape(z) /\ z.pc = p.pc /\ z.todo = p.todo /\ z.plan = p.plan /\ z.exit = p.exit
      /\ z.summary = p.summary
  BY <1>1, <1>2 DEF Shape, PFields
<1>4. TallyOf(z) = TallyOf(p)
  BY <1>3 DEF TallyOf
<1> QED
  BY <1>1, <1>2, <1>3, <1>4 DEF CountInv

LEMMA CountNext ==
    ASSUME CountInv(proc), [PipelineNext]_pipelineVars
    PROVE  CountInv(proc')
<1>1. CASE ProcessKill
  <2>1. PICK p : p = proc /\ proc' = Quit(p, "killed")
                 /\ p.plan \in Seq(Work) /\ p.summary \in [Outcomes -> Nat]
    BY <1>1 DEF ProcessKill, CountInv
  <2>2. CountInv(Quit(p, "killed"))
    BY <2>1, QuitCounts
  <2> QED
    BY <2>1, <2>2
<1>2. CASE ProcessNext /\ ~ProcessKill
  BY <1>2, CountStart, CountReading, CountWriting DEF ProcessNext, ProcessStep
<1>3. CASE FetchBeside
  BY <1>3, CountBeside
<1>4. CASE UNCHANGED proc
  BY <1>4
<1> QED
  BY <1>1, <1>2, <1>3, <1>4 DEF PipelineNext, ProcessBeside, pipelineVars

(* The summary accounts for every pair of the run exactly once, through    *)
(* every early exit of the loop and whatever the download does to the      *)
(* files meanwhile (process_and_save_model_data L610-720).                 *)
THEOREM Counting == PipelineSpec => []EveryPairCounted
<1>1. PipelineInit => CountInv(proc)
  BY IdleCounts DEF PipelineInit, ProcessInit
<1>2. CountInv(proc) /\ [PipelineNext]_pipelineVars => CountInv(proc)'
  BY CountNext
<1>3. CountInv(proc) => EveryPairCounted
  BY DEF CountInv, EveryPairCounted, Processing, Tally, TallyOf
<1> QED
  BY <1>1, <1>2, <1>3, PTL DEF PipelineSpec

-----------------------------------------------------------------------------
(* The processor's state is well typed, beside a running download.         *)

LEMMA IdleProc ==
    /\ NotProcessing \in ProcState /\ NotProcessing.pc = "idle" /\ NotProcessing.todo = <<>>
    /\ NotProcessing.named = FALSE /\ NotProcessing.exit = "none"
<1>1. NoCounts \in [{"saved", "skipped", "missing", "errors"} -> Nat] BY DEF NoCounts
<1>2. NoFile \in [dir : Dirs, freq : Freqs \cup {"none"}] BY DEF NoFile, Dirs
<1> QED BY <1>1, <1>2 DEF NotProcessing, ProcState

LEMMA QuitForm ==
    ASSUME NEW r \in ProcState, NEW exit \in {"ok", "crash", "killed"}
    PROVE  LET z == Quit(r, exit) IN
           /\ z \in ProcState /\ z.pc = "idle" /\ z.exit = exit /\ z.todo = <<>>
           /\ ~z.named /\ z.plan = r.plan /\ z.renew = r.renew /\ z.quiet = r.quiet
<1>1. PICK q : q = NotProcessing OBVIOUS
<1>2. Quit(r, exit) = [q EXCEPT !.exit = exit, !.summary = r.summary, !.plan = r.plan,
                                !.quiet = r.quiet, !.renew = r.renew]
  BY <1>1 DEF Quit
<1>3. q \in ProcState /\ q.pc = "idle" /\ q.todo = <<>> /\ q.named = FALSE BY <1>1, IdleProc
<1> QED BY <1>2, <1>3 DEF ProcState

LEMMA CountedForm ==
    ASSUME NEW r \in ProcState, r.todo # <<>>, NEW outcome \in Outcomes
    PROVE  LET z == Counted(r, outcome) IN
           /\ z \in ProcState /\ z.plan = r.plan /\ z.renew = r.renew /\ z.quiet = r.quiet
           /\ \/ /\ Len(r.todo) = 1 /\ z.pc = "idle" /\ z.exit = "ok"
                 /\ z.todo = <<>> /\ ~z.named
              \/ /\ Len(r.todo) # 1 /\ z.pc = "find" /\ z.exit = r.exit
                 /\ z.todo = Tail(r.todo) /\ z.todo # <<>> /\ z.named = r.named
<1>1. PICK s : s = [r.summary EXCEPT ![outcome] = @ + 1] OBVIOUS
<1>2. PICK n : n = [r EXCEPT !.summary = s] OBVIOUS
<1>3. n = [r EXCEPT !.summary[outcome] = @ + 1] BY <1>1, <1>2 DEF ProcState
<1>4. s \in [{"saved", "skipped", "missing", "errors"} -> Nat]
  BY <1>1 DEF ProcState, Outcomes
<1>5. /\ n \in ProcState /\ n.todo = r.todo /\ n.plan = r.plan /\ n.exit = r.exit
      /\ n.renew = r.renew /\ n.quiet = r.quiet /\ n.named = r.named
  BY <1>2, <1>4 DEF ProcState
<1>6. Counted(r, outcome) = IF Len(r.todo) = 1 THEN Quit(n, "ok")
         ELSE [n EXCEPT !.pc = "find", !.todo = Tail(@), !.file = NoFile, !.body = None]
  BY <1>3 DEF Counted
<1>7. CASE Len(r.todo) = 1 BY <1>5, <1>6, <1>7, QuitForm
<1>8. CASE Len(r.todo) # 1
  <2>1. PICK t : t = Tail(r.todo) OBVIOUS
  <2>2. t \in Seq(Work) /\ t # <<>>
    <3>1. r.todo \in Seq(Work) BY DEF ProcState
    <3>2. Len(r.todo) \in Nat /\ Len(r.todo) # 0 BY <3>1, EmptySeq
    <3>3. t \in Seq(Work) /\ Len(t) = Len(r.todo) - 1 BY <2>1, <3>1, <3>2
    <3>4. Len(t) # 0 /\ t \in Seq(Work) BY <1>8, <3>2, <3>3
    <3> QED BY <3>4, EmptySeq
  <2>3. NoFile \in [dir : Dirs, freq : Freqs \cup {"none"}] BY DEF NoFile, Dirs
  <2>4. PICK f : f = NoFile OBVIOUS
  <2>5. PICK z : z = Counted(r, outcome) OBVIOUS
  <2>6. z = [n EXCEPT !.pc = "find", !.todo = t, !.file = f, !.body = None]
    BY <1>5, <1>6, <1>8, <2>1, <2>4, <2>5 DEF ProcState
  <2>7. /\ z \in ProcState /\ z.pc = "find" /\ z.todo = t
        /\ z.plan = r.plan /\ z.renew = r.renew /\ z.quiet = r.quiet
        /\ z.exit = r.exit /\ z.named = r.named
    BY <1>5, <2>2, <2>3, <2>4, <2>6 DEF ProcState
  <2> QED BY <1>8, <2>1, <2>2, <2>5, <2>7
<1> QED BY <1>7, <1>8

ProcInv ==
    /\ proc \in ProcState /\ broken \in SUBSET Pairs
    /\ Processing => proc.todo # <<>>
    /\ proc.pc \in {"stat", "read", "open", "write"} => proc.file.freq \in Freqs
    /\ proc.pc \in {"open", "write"} => proc.body \in Origin /\ proc.body.dir = WorkDir
    /\ proc.named => proc.pc = "write" /\ processed[WorkPair] # None

PipeTypes == TypeInv /\ ProcInv

LEMMA WorkFacts ==
    ASSUME PipeTypes, Processing
    PROVE  /\ proc.todo \in Seq(Work) /\ WorkDir \in Dirs /\ WorkPair \in Pairs
           /\ Head(proc.todo) \in Work
           /\ \A f \in Freqs : At(WorkDir, WorkPair, f) \in LocalFile \cup {None}
<1>1. PICK t : t = proc.todo /\ t \in Seq(Work) /\ t # <<>> BY DEF PipeTypes, ProcInv, ProcState
<1>2. Head(t) \in Work BY <1>1
<1>3. WorkDir \in Dirs /\ WorkPair \in Pairs BY <1>1, <1>2 DEF WorkDir, WorkPair, Work
<1>4. local \in [Dirs -> Tree(LocalFile)]
  BY DEF PipeTypes, TypeInv, FetchTypeOK, CatalogueTypeOK
<1>5. ASSUME NEW f \in Freqs PROVE At(WorkDir, WorkPair, f) \in LocalFile \cup {None}
  BY <1>3, <1>4 DEF At, Tree, Pairs
<1> QED BY <1>1, <1>2, <1>3, <1>5

(* What each step makes of the processor's locals and files. *)
Kept(n, r) == n.plan = r.plan /\ n.renew = r.renew /\ n.quiet = r.quiet

Advances(n, r, outcome) == n = Counted(r, outcome) /\ Kept(n, r)

Within(n, r) ==
    /\ n \in ProcState /\ Kept(n, r) /\ n.todo = r.todo /\ n.exit = r.exit /\ n.pc # "idle"

LEMMA FindForm ==
    ASSUME PipeTypes, Find
    PROVE  /\ proc.pc = "find" /\ Processing
           /\ \/ FindFile(WorkDir, WorkPair) = NoFile /\ proc' = Counted(proc, "missing")
              \/ /\ FindFile(WorkDir, WorkPair) # NoFile
                 /\ Within(proc', proc) /\ proc'.pc = "stat"
                 /\ proc'.file = FindFile(WorkDir, WorkPair) /\ proc'.file.freq \in Freqs
                 /\ proc'.named = proc.named
           /\ UNCHANGED catalogue /\ broken' = broken
<1>1. proc \in ProcState /\ Processing /\ WorkDir \in Dirs BY WorkFacts DEF Find, Processing, PipeTypes, ProcInv
<1>2. PICK file : file = FindFile(WorkDir, WorkPair) OBVIOUS
<1>3. file # NoFile => file \in [dir : Dirs, freq : Freqs]
  BY <1>1, <1>2 DEF FindFile, Freqs
<1>4. CASE file = NoFile BY <1>1, <1>2, <1>4 DEF Find
<1>5. CASE file # NoFile
  <2>1. proc' = [proc EXCEPT !.pc = "stat", !.file = file] BY <1>2, <1>5 DEF Find
  <2>2. file \in [dir : Dirs, freq : Freqs \cup {"none"}] /\ file.freq \in Freqs BY <1>3, <1>5
  <2>3. Within(proc', proc) /\ proc'.pc = "stat" /\ proc'.file = file /\ proc'.named = proc.named
    BY <1>1, <2>1, <2>2 DEF ProcState, Within, Kept
  <2> QED BY <1>1, <1>2, <1>5, <2>2, <2>3 DEF Find
<1> QED BY <1>4, <1>5

LEMMA StatForm ==
    ASSUME PipeTypes, Stat
    PROVE  LET file == At(WorkDir, WorkPair, proc.file.freq) IN
           /\ proc.pc = "stat" /\ Processing
           /\ \/ file = None /\ proc' = Quit(proc, "crash")
              \/ file # None /\ file.size = "empty" /\ proc' = Counted(proc, "missing")
              \/ /\ file # None /\ file.size # "empty" /\ ~proc.renew /\ IsFresh(WorkPair, file)
                 /\ proc' = Counted(proc, "skipped")
              \/ /\ Within(proc', proc) /\ proc'.pc = "read" /\ proc'.file = proc.file
                 /\ proc'.named = proc.named
           /\ UNCHANGED catalogue /\ broken' = broken
<1>1. proc \in ProcState /\ Processing BY DEF Stat, Processing, PipeTypes, ProcInv
<1>2. PICK file : file = At(WorkDir, WorkPair, proc.file.freq) OBVIOUS
<1>3. ASSUME proc' = [proc EXCEPT !.pc = "read"]
      PROVE  /\ Within(proc', proc) /\ proc'.pc = "read" /\ proc'.file = proc.file
             /\ proc'.named = proc.named
  BY <1>1, <1>3 DEF ProcState, Within, Kept
<1> QED BY <1>1, <1>2, <1>3 DEF Stat

LEMMA ReadForm ==
    ASSUME PipeTypes, Read
    PROVE  LET file == At(WorkDir, WorkPair, proc.file.freq) IN
           /\ proc.pc = "read" /\ Processing
           /\ \/ (file = None \/ file.size # "full") /\ proc' = Counted(proc, "errors")
              \/ /\ file # None /\ file.ver \in Unusable
                 /\ proc' = Counted(proc, "missing")
              \/ /\ Within(proc', proc) /\ proc'.pc = "open" /\ proc'.file = proc.file
                 /\ proc'.named = proc.named
                 /\ proc'.body = [dir |-> WorkDir, freq |-> proc.file.freq, ver |-> file.ver]
                 /\ proc'.body \in Origin
              \/ proc' = [Counted(proc, "errors") EXCEPT !.quiet = FALSE]
           /\ UNCHANGED <<clock, remote, local, made, processed, broken>>
<1>1. proc \in ProcState /\ Processing /\ proc.pc = "read" BY DEF Read, Processing, PipeTypes, ProcInv
<1>2. PICK file : file = At(WorkDir, WorkPair, proc.file.freq) OBVIOUS
<1>3. CASE /\ file # None /\ file.size = "full" /\ file.ver \notin Unusable
           /\ proc' = [proc EXCEPT !.pc = "open", !.body =
                          [dir |-> WorkDir, freq |-> proc.file.freq, ver |-> file.ver]]
  <2>1. PICK b : b = [dir |-> WorkDir, freq |-> proc.file.freq, ver |-> file.ver] OBVIOUS
  <2>2. b \in Origin
    <3>1. file \in LocalFile BY <1>1, <1>2, <1>3, WorkFacts DEF PipeTypes, ProcInv
    <3>2. file.ver \in Versions BY <3>1 DEF LocalFile
    <3>3. WorkDir \in Dirs /\ proc.file.freq \in Freqs BY <1>1, WorkFacts DEF PipeTypes, ProcInv
    <3> QED BY <2>1, <3>2, <3>3 DEF Origin
  <2>3. proc' = [proc EXCEPT !.pc = "open", !.body = b] BY <1>3, <2>1
  <2>4. /\ Within(proc', proc) /\ proc'.pc = "open" /\ proc'.file = proc.file
        /\ proc'.named = proc.named /\ proc'.body = b
    BY <1>1, <2>2, <2>3 DEF ProcState, Within, Kept
  <2> QED BY <1>1, <1>2, <2>1, <2>2, <2>4 DEF Read
<1>4. CASE (file = None \/ file.size # "full") /\ proc' = Counted(proc, "errors")
  BY <1>1, <1>2, <1>4 DEF Read
<1>5. CASE file # None /\ file.ver \in Unusable /\ proc' = Counted(proc, "missing")
  BY <1>1, <1>2, <1>5 DEF Read
<1>6. CASE proc' = [Counted(proc, "errors") EXCEPT !.quiet = FALSE]
  BY <1>1, <1>2, <1>6 DEF Read
<1> QED BY <1>2, <1>3, <1>4, <1>5, <1>6 DEF Read

Written(body) == [whole |-> TRUE, mtime |-> clock, body |-> body]

LEMMA OpenForm ==
    ASSUME PipeTypes, OpenOutput
    PROVE  /\ proc.pc = "open" /\ Processing
           /\ Within(proc', proc) /\ proc'.pc = "write" /\ proc'.named
           /\ proc'.file = proc.file /\ proc'.body = proc.body
           /\ \E f \in Output : processed' = [processed EXCEPT ![WorkPair] = f]
           /\ UNCHANGED <<clock, remote, local, made, spent, broken>>
<1>1. proc \in ProcState /\ Processing /\ proc.pc = "open"
  BY DEF OpenOutput, Processing, PipeTypes, ProcInv
<1>2. proc' = [proc EXCEPT !.pc = "write", !.named = TRUE] BY DEF OpenOutput
<1>3. /\ Within(proc', proc) /\ proc'.pc = "write" /\ proc'.named
      /\ proc'.file = proc.file /\ proc'.body = proc.body
  BY <1>1, <1>2 DEF ProcState, Within, Kept
<1>4. [whole |-> FALSE, mtime |-> clock, body |-> proc.body] \in Output
  BY <1>1 DEF PipeTypes, ProcInv, TypeInv, FetchTypeOK, CatalogueTypeOK, Output
<1> QED BY <1>1, <1>3, <1>4 DEF OpenOutput, SetOutput

LEMMA CloseForm ==
    ASSUME PipeTypes, CloseOutput
    PROVE  /\ proc.pc = "write" /\ Processing
           /\ \E q \in ProcState :
                 /\ Kept(q, proc) /\ q.todo = proc.todo /\ q.exit = proc.exit /\ ~q.named
                 /\ proc' = Counted(q, "saved")
           /\ proc.named => /\ Written(proc.body) \in Output
                            /\ processed' = [processed EXCEPT ![WorkPair] = Written(proc.body)]
           /\ ~proc.named => processed' = processed
           /\ broken' = broken \ {WorkPair}
           /\ UNCHANGED <<clock, remote, local, made, spent>>
<1>1. proc \in ProcState /\ Processing /\ proc.pc = "write"
  BY DEF CloseOutput, Processing, PipeTypes, ProcInv
<1>2. PICK q : q = [proc EXCEPT !.named = FALSE] OBVIOUS
<1>3. /\ q \in ProcState /\ Kept(q, proc) /\ q.todo = proc.todo /\ q.exit = proc.exit
      /\ ~q.named /\ proc' = Counted(q, "saved")
  BY <1>1, <1>2 DEF CloseOutput, ProcState, Kept
<1>4. Written(proc.body) \in Output
  BY <1>1 DEF PipeTypes, ProcInv, TypeInv, FetchTypeOK, CatalogueTypeOK, Output, Written
<1>5. proc.named => processed' = [processed EXCEPT ![WorkPair] = Written(proc.body)]
  BY DEF CloseOutput, SetOutput, Written
<1> QED BY <1>1, <1>3, <1>4, <1>5 DEF CloseOutput

LEMMA FailForm ==
    ASSUME PipeTypes, WriteFails
    PROVE  /\ proc.pc \in {"open", "write"} /\ Processing
           /\ \E q \in ProcState :
                 /\ q.todo = proc.todo /\ ~q.named /\ ~q.quiet /\ proc' = Counted(q, "errors")
           /\ broken' = IF proc.pc = "write" THEN broken \cup {WorkPair} ELSE broken
           /\ UNCHANGED <<clock, remote, local, made, processed>>
<1>1. proc \in ProcState /\ Processing /\ proc.pc \in {"open", "write"}
  BY DEF WriteFails, Processing, PipeTypes, ProcInv
<1>2. PICK q : q = [proc EXCEPT !.quiet = FALSE, !.named = FALSE] OBVIOUS
<1>3. /\ q \in ProcState /\ q.todo = proc.todo /\ ~q.named /\ ~q.quiet
      /\ proc' = Counted(q, "errors")
  BY <1>1, <1>2 DEF WriteFails, ProcState
<1> QED BY <1>1, <1>3 DEF WriteFails

LEMMA BesideForm ==
    ASSUME proc \in ProcState, FetchBeside
    PROVE  /\ proc' \in ProcState /\ proc'.plan = proc.plan /\ proc'.renew = proc.renew
           /\ proc'.pc = proc.pc /\ proc'.exit = proc.exit /\ proc'.todo = proc.todo
           /\ proc'.file = proc.file /\ proc'.body = proc.body
           /\ proc'.named <=> proc.named /\ processed'[WorkPair] # None
           /\ proc'.quiet <=> proc.quiet /\ UNCHANGED <<local, processed, made>>
<1>1. PICK quiet, named :
         /\ quiet = (proc.quiet /\ UNCHANGED <<local, processed, made>>)
         /\ named = (proc.named /\ processed'[WorkPair] # None)
  OBVIOUS
<1>2. quiet \in BOOLEAN /\ named \in BOOLEAN BY <1>1
<1>3. proc' = [proc EXCEPT !.quiet = quiet, !.named = named]
  BY <1>1 DEF FetchBeside, ProcState
<1>4. /\ proc' \in ProcState /\ proc'.plan = proc.plan /\ proc'.renew = proc.renew
      /\ proc'.pc = proc.pc /\ proc'.exit = proc.exit /\ proc'.todo = proc.todo
      /\ proc'.file = proc.file /\ proc'.body = proc.body
      /\ proc'.named = named /\ proc'.quiet = quiet
  BY <1>2, <1>3 DEF ProcState
<1> QED BY <1>1, <1>4

LEMMA StartProcForm ==
    ASSUME ProcessStart, broken \in SUBSET Pairs
    PROVE  /\ proc' \in ProcState /\ proc'.todo = WorkList /\ ~proc'.named
           /\ \/ WorkList = <<>> /\ proc'.pc = "idle"
              \/ WorkList # <<>> /\ proc'.pc = "find" /\ proc'.exit = "none"
           /\ UNCHANGED <<clock, remote, local, made, processed, broken>>
<1>1. PICK renew \in Renews, w \in {WorkList} :
        /\ w = WorkList
        /\ proc' = LET r == [NotProcessing EXCEPT !.renew = renew, !.todo = w,
                                                  !.plan = w, !.quiet = TRUE]
                   IN  IF w = <<>> THEN Quit(r, "ok") ELSE [r EXCEPT !.pc = "find"]
  BY DEF ProcessStart
<1>2. PICK n : n = NotProcessing OBVIOUS
<1>3. PICK r : r = [n EXCEPT !.renew = renew, !.todo = w, !.plan = w, !.quiet = TRUE] OBVIOUS
<1>4. w \in Seq(Work) /\ renew \in BOOLEAN BY <1>1, WorkListIsSeq, ProcessAssumption
<1>5. r \in ProcState /\ r.todo = w /\ ~r.named /\ r.exit = "none"
  BY <1>2, <1>3, <1>4, IdleProc DEF ProcState
<1>6. CASE w = <<>>
  <2>1. proc' = Quit(r, "ok") BY <1>1, <1>2, <1>3, <1>6
  <2> QED BY <1>1, <1>5, <1>6, <2>1, QuitForm DEF ProcessStart
<1>7. CASE w # <<>>
  <2>1. proc' = [r EXCEPT !.pc = "find"] BY <1>1, <1>2, <1>3, <1>7
  <2>2. /\ proc' \in ProcState /\ proc'.todo = w /\ ~proc'.named
        /\ proc'.pc = "find" /\ proc'.exit = "none"
    BY <1>5, <2>1 DEF ProcState
  <2> QED BY <1>1, <1>7, <2>2 DEF ProcessStart
<1> QED BY <1>6, <1>7

(* Locals between two pairs satisfy their invariant. *)
LEMMA Between ==
    ASSUME proc' \in ProcState, broken' \in SUBSET Pairs, ~proc'.named,
           proc'.pc = "idle" \/ (proc'.pc = "find" /\ proc'.todo # <<>>)
    PROVE  ProcInv'
BY DEF ProcInv, Processing

LEMMA CountedInv ==
    ASSUME NEW q \in ProcState, q.todo # <<>>, ~q.named, NEW outcome \in Outcomes,
           proc' = Counted(q, outcome), broken' \in SUBSET Pairs
    PROVE  ProcInv'
<1>1. /\ proc' \in ProcState /\ ~proc'.named
      /\ proc'.pc = "idle" \/ (proc'.pc = "find" /\ proc'.todo # <<>>)
  BY CountedForm
<1> QED BY <1>1, Between

(* A step of the processor leaves the script and its trees alone. *)
LEMMA TypesBeside ==
    ASSUME TypeInv, UNCHANGED <<clock, remote, local, made, fetch>>,
           processed' \in [Pairs -> Output \cup {None}],
           spent' \in [uploads : 0 .. MaxUploads, faults : 0 .. MaxFaults, starts : 0 .. MaxStarts]
    PROVE  TypeInv'
BY DEF TypeInv, FetchTypeOK, CatalogueTypeOK, FetchState, Fetching, Globbed, FetchModel,
       FetchPair, LocalAt

LEMMA ProcessSpends ==
    ASSUME TypeInv, ProcessNext
    PROVE  spent' \in [uploads : 0 .. MaxUploads, faults : 0 .. MaxFaults,
                       starts : 0 .. MaxStarts]
<1>1. /\ spent \in [uploads : 0 .. MaxUploads, faults : 0 .. MaxFaults, starts : 0 .. MaxStarts]
      /\ MaxFaults \in Nat /\ MaxStarts \in Nat
  BY CatalogueAssumption DEF TypeInv, FetchTypeOK, CatalogueTypeOK
<1>2. Fault \/ Start \/ spent' = spent
  BY DEF ProcessNext, ProcessStep, ProcessStart, Find, Stat, Read, OpenOutput, CloseOutput,
         WriteFails, ProcessKill, catalogue
<1>3. CASE Fault BY <1>1, <1>3 DEF Fault
<1>4. CASE Start BY <1>1, <1>4 DEF Start
<1>5. CASE spent' = spent BY <1>1, <1>5
<1> QED BY <1>2, <1>3, <1>4, <1>5

LEMMA ProcessTypes ==
    ASSUME PipeTypes, ProcessNext, UNCHANGED fetch
    PROVE  PipeTypes'
<1>1. /\ processed \in [Pairs -> Output \cup {None}] /\ TypeInv /\ ProcInv
      /\ proc \in ProcState /\ broken \in SUBSET Pairs
      /\ Processing => proc.todo # <<>> /\ WorkPair \in Pairs
      /\ proc.named => proc.pc = "write"
  BY WorkFacts DEF PipeTypes, ProcInv, TypeInv, FetchTypeOK, CatalogueTypeOK
<1>2. "missing" \in Outcomes /\ "skipped" \in Outcomes /\ "errors" \in Outcomes /\ "saved" \in Outcomes
  BY DEF Outcomes
<1>3. ASSUME UNCHANGED <<clock, remote, local, made>>, ProcInv',
             processed' \in [Pairs -> Output \cup {None}]
      PROVE  PipeTypes'
  BY <1>1, <1>3, TypesBeside, ProcessSpends DEF PipeTypes
<1>4. CASE ProcessStart
  <2>1. ProcInv' BY <1>1, <1>4, StartProcForm, Between
  <2> QED BY <1>1, <1>3, <1>4, <2>1, StartProcForm
<1>5. CASE Find
  <2>1. UNCHANGED <<clock, remote, local, made, processed, broken>> BY <1>5, FindForm DEF catalogue
  <2>2. ProcInv'
    <3>1. CASE proc' = Counted(proc, "missing")
      BY <1>1, <1>2, <1>5, <2>1, <3>1, FindForm, CountedInv
    <3>2. CASE proc' # Counted(proc, "missing")
      BY <1>1, <1>5, <2>1, <3>2, FindForm DEF Within, ProcInv, Processing
    <3> QED BY <3>1, <3>2
  <2> QED BY <1>1, <1>3, <2>1, <2>2
<1>6. CASE Stat
  <2>1. UNCHANGED <<clock, remote, local, made, processed, broken>> BY <1>6, StatForm DEF catalogue
  <2>2. ProcInv'
    <3>1. CASE proc' = Counted(proc, "missing") \/ proc' = Counted(proc, "skipped")
      BY <1>1, <1>2, <1>6, <2>1, <3>1, StatForm, CountedInv
    <3>2. CASE proc' = Quit(proc, "crash")
      <4>1. proc' \in ProcState /\ proc'.pc = "idle" /\ ~proc'.named BY <1>1, <3>2, QuitForm
      <4> QED BY <1>1, <2>1, <4>1, Between
    <3>3. CASE /\ Within(proc', proc) /\ proc'.pc = "read" /\ proc'.file = proc.file
               /\ proc'.named = proc.named
      BY <1>1, <1>6, <2>1, <3>3, StatForm DEF Within, ProcInv, Processing
    <3> QED BY <1>6, <3>1, <3>2, <3>3, StatForm
  <2> QED BY <1>1, <1>3, <2>1, <2>2
<1>7. CASE Read
  <2>1. UNCHANGED <<clock, remote, local, made, processed, broken>> BY <1>7, ReadForm
  <2>2. ProcInv'
    <3>1. CASE proc' = Counted(proc, "missing") \/ proc' = Counted(proc, "errors")
      BY <1>1, <1>2, <1>7, <2>1, <3>1, ReadForm, CountedInv
    <3>2. CASE proc' = [Counted(proc, "errors") EXCEPT !.quiet = FALSE]
      <4>1. PICK c : c = Counted(proc, "errors") OBVIOUS
      <4>2. /\ c \in ProcState /\ ~c.named
            /\ c.pc = "idle" \/ (c.pc = "find" /\ c.todo # <<>>)
        BY <1>1, <1>2, <1>7, <4>1, ReadForm, CountedForm
      <4>3. proc' = [c EXCEPT !.quiet = FALSE] BY <3>2, <4>1
      <4>4. /\ proc' \in ProcState /\ ~proc'.named
            /\ proc'.pc = "idle" \/ (proc'.pc = "find" /\ proc'.todo # <<>>)
        BY <4>2, <4>3 DEF ProcState
      <4> QED BY <1>1, <2>1, <4>4, Between
    <3>3. CASE /\ Within(proc', proc) /\ proc'.pc = "open" /\ proc'.file = proc.file
               /\ proc'.named = proc.named /\ proc'.body \in Origin /\ proc'.body.dir = WorkDir
      <4>1. WorkDir' = WorkDir BY <3>3 DEF Within, WorkDir
      <4> QED BY <1>1, <1>7, <2>1, <3>3, <4>1, ReadForm DEF Within, ProcInv, Processing
    <3> QED BY <1>7, <3>1, <3>2, <3>3, ReadForm
  <2> QED BY <1>1, <1>3, <2>1, <2>2
<1>8. CASE OpenOutput
  <2>1. PICK f \in Output : processed' = [processed EXCEPT ![WorkPair] = f] BY <1>8, OpenForm
  <2>2. WorkPair' = WorkPair /\ WorkDir' = WorkDir
    BY <1>8, OpenForm DEF Within, WorkPair, WorkDir
  <2>3. processed'[WorkPair] = f /\ f # None
    BY <1>1, <1>8, <2>1, OpenForm, CatalogueAssumption
  <2>4. /\ UNCHANGED <<clock, remote, local, made, broken>>
        /\ Within(proc', proc) /\ proc'.pc = "write" /\ proc.pc = "open"
        /\ proc'.file = proc.file /\ proc'.body = proc.body
    BY <1>8, OpenForm
  <2>5. ProcInv' BY <1>1, <2>2, <2>3, <2>4 DEF Within, ProcInv, Processing
  <2> QED BY <1>1, <1>3, <2>1, <2>4, <2>5
<1>9. CASE CloseOutput
  <2>1. PICK q \in ProcState : /\ q.todo = proc.todo /\ ~q.named
                               /\ proc' = Counted(q, "saved")
    BY <1>9, CloseForm
  <2>2. ProcInv' BY <1>1, <1>2, <1>9, <2>1, CloseForm, CountedInv
  <2>3. processed' \in [Pairs -> Output \cup {None}] BY <1>1, <1>9, CloseForm
  <2> QED BY <1>3, <1>9, <2>2, <2>3, CloseForm
<1>10. CASE WriteFails
  <2>1. PICK q \in ProcState : /\ q.todo = proc.todo /\ ~q.named
                               /\ proc' = Counted(q, "errors")
    BY <1>10, FailForm
  <2>2. broken' \in SUBSET Pairs BY <1>1, <1>10, FailForm
  <2>3. ProcInv' BY <1>1, <1>2, <1>10, <2>1, <2>2, FailForm, CountedInv
  <2> QED BY <1>1, <1>3, <1>10, <2>3, FailForm
<1>11. CASE ProcessKill
  <2>1. proc' \in ProcState /\ proc'.pc = "idle" /\ ~proc'.named
    BY <1>1, <1>11, QuitForm DEF ProcessKill
  <2>2. broken' \in SUBSET Pairs BY <1>1, <1>11 DEF ProcessKill
  <2> QED BY <1>1, <1>3, <1>11, <2>1, <2>2, Between DEF ProcessKill, catalogue
<1> QED BY <1>4, <1>5, <1>6, <1>7, <1>8, <1>9, <1>10, <1>11 DEF ProcessNext, ProcessStep

LEMMA PipeTypesNext ==
    ASSUME PipeTypes, [PipelineNext]_pipelineVars
    PROVE  PipeTypes'
<1>1. CASE ProcessBeside BY <1>1, ProcessTypes DEF ProcessBeside
<1>2. CASE FetchBeside
  <2>1. TypeInv' BY <1>2, TypeNext DEF FetchBeside, FetchSystem, PipeTypes
  <2>2. /\ WorkPair' = WorkPair /\ WorkDir' = WorkDir /\ broken' = broken
    BY <1>2, BesideForm DEF WorkPair, WorkDir, PipeTypes, ProcInv, FetchBeside
  <2>3. ProcInv' BY <1>2, <2>2, BesideForm DEF PipeTypes, ProcInv, Processing
  <2> QED BY <2>1, <2>3 DEF PipeTypes
<1>3. CASE World /\ UNCHANGED <<fetch, proc, broken, blind>>
  <2>1. TypeInv' BY <1>3, TypeNext DEF FetchSystem, PipeTypes
  <2>2. processed' = processed BY <1>3 DEF World, Upload, Tick
  <2> QED BY <1>3, <2>1, <2>2 DEF PipeTypes, ProcInv, Processing, WorkPair, WorkDir
<1>4. CASE UNCHANGED pipelineVars
  <2>1. TypeInv' BY <1>4, TypeNext DEF pipelineVars, fetchVars, PipeTypes
  <2> QED BY <1>4, <2>1 DEF pipelineVars, catalogue, PipeTypes, ProcInv, Processing, WorkPair, WorkDir
<1> QED BY <1>1, <1>2, <1>3, <1>4 DEF PipelineNext

LEMMA PipeTypesInit ==
    ASSUME PipelineInit
    PROVE  PipeTypes
<1>1. TypeInv BY TypeInit DEF PipelineInit
<1>2. proc = NotProcessing /\ broken = {} BY DEF PipelineInit, ProcessInit
<1> QED BY <1>1, <1>2, IdleProc DEF PipeTypes, ProcInv, Processing

(* The processor's state is always well typed beside a running download:   *)
(* what it opens it read from the pair's own tree, and the handle it holds *)
(* is that of a file that is there (process_and_save_model_data L616-696). *)
THEOREM ProcessTypeCorrect == PipelineSpec => []ProcessTypeOK
<1>1. PipelineInit => PipeTypes BY PipeTypesInit
<1>2. PipeTypes /\ [PipelineNext]_pipelineVars => PipeTypes' BY PipeTypesNext
<1>3. PipeTypes => ProcessTypeOK
  BY DEF PipeTypes, ProcInv, TypeInv, FetchTypeOK, ProcessTypeOK
<1> QED BY <1>1, <1>2, <1>3, PTL DEF PipelineSpec

-----------------------------------------------------------------------------
(* Fresh processed files are current.                                      *)

(* What the processor would make of p from tree d. *)
Current(d, p) ==
    LET freq == FindFile(d, p).freq
    IN  [dir |-> d, freq |-> freq, ver |-> At(d, p, freq).ver]

Absent(p) == \A f \in Freqs : At("primary", p, f) = None

(* The script makes a model's directory before it puts anything there. *)
MadeInv ==
    /\ \A p \in Pairs : p[1] \notin made => Absent(p)
    /\ fetch.pc \in {"look", "scp", "copy", "sweep"} => FetchModel \in made

(* What lies ahead of the processor is looked for in the tree DirOf says,  *)
(* as long as nothing was changed; and a pair taken from the older tree    *)
(* that meanwhile has a file in the primary one is a blind spot.           *)
AheadInv ==
    \A w \in Ran(proc.todo) :
        /\ w.dir = "primary" => w.pair[1] \in made
        /\ w.dir = "secondary" /\ w.pair \notin blind => Absent(w.pair)
        /\ proc.quiet => w.dir = DirOf(w.pair[1])

(* What the processor has settled on is what it would settle on now. *)
SettledInv ==
    Processing /\ (proc.quiet \/ WorkPair \notin blind) =>
        /\ proc.pc \in {"stat", "read", "open", "write"} =>
              proc.file = FindFile(WorkDir, WorkPair)
        /\ proc.pc \in {"open", "write"} => proc.body = Current(WorkDir, WorkPair)
        /\ proc.quiet /\ proc.pc = "write" => proc.named

(* A quiet run has done the pairs behind it. *)
Done(p) ==
    Wanted(p) # None /\ (proc.renew \/ p \notin blind \cup broken) =>
        processed[p] # None /\ processed[p].whole /\ processed[p].body = Wanted(p)

BehindInv ==
    proc.quiet /\ (Processing \/ proc.exit = "ok") =>
        \A p \in Toured : (\A w \in Ran(proc.todo) : w.pair # p) => Done(p)

(* A run has no result, one that is over no pair ahead. *)
RunInv == IF Processing THEN proc.exit = "none" ELSE proc.todo = <<>>

PipeInv ==
    /\ PipeTypes /\ WholeInv
    /\ MadeInv /\ AheadInv /\ SettledInv
    /\ FreshIsCurrent /\ BehindInv /\ RunInv


LEMMA RanOfTail ==
    ASSUME NEW S, NEW s \in Seq(S), s # <<>>
    PROVE  /\ Head(s) \in Ran(s) /\ Ran(Tail(s)) \subseteq Ran(s)
           /\ \A x \in Ran(s) : x = Head(s) \/ (Len(s) # 1 /\ x \in Ran(Tail(s)))
<1>1. PICK n : n = Len(s) /\ n \in Nat OBVIOUS
<1>2. n # 0 BY <1>1, EmptySeq
<1>3. /\ Tail(s) \in Seq(S) /\ Len(Tail(s)) = n - 1
      /\ \A i \in 1 .. n - 1 : Tail(s)[i] = s[i + 1]
  BY <1>1, <1>2
<1>4. Head(s) \in Ran(s) /\ Head(s) = s[1] BY <1>1, <1>2 DEF Ran
<1>5. ASSUME NEW x \in Ran(Tail(s)) PROVE x \in Ran(s)
  <2>1. PICK i \in 1 .. n - 1 : x = Tail(s)[i] BY <1>3 DEF Ran
  <2>2. x = s[i + 1] /\ i + 1 \in 1 .. n BY <1>1, <1>3, <2>1
  <2> QED BY <1>1, <2>2 DEF Ran
<1>6. ASSUME NEW x \in Ran(s) PROVE x = Head(s) \/ (n # 1 /\ x \in Ran(Tail(s)))
  <2>1. PICK i \in 1 .. n : x = s[i] BY <1>1 DEF Ran
  <2>2. CASE i = 1 BY <1>4, <2>1, <2>2
  <2>3. CASE i # 1
    <3>1. n # 1 /\ i - 1 \in 1 .. n - 1 /\ (i - 1) + 1 = i BY <1>1, <2>1, <2>3
    <3>2. Tail(s)[i - 1] = x /\ i - 1 \in DOMAIN Tail(s) BY <1>1, <1>3, <2>1, <3>1
    <3> QED BY <3>1, <3>2 DEF Ran
  <2> QED BY <2>2, <2>3
<1> QED BY <1>1, <1>4, <1>5, <1>6

LEMMA RanInSet ==
    ASSUME NEW S, NEW s \in Seq(S)
    PROVE  Ran(s) \subseteq S
BY DEF Ran

(* FindFile depends on the pair's files only. *)
LEMMA SameFind ==
    ASSUME NEW d, NEW p, \A f \in Freqs : At(d, p, f)' = At(d, p, f)
    PROVE  /\ FindFile(d, p)' = FindFile(d, p)
           /\ FindFile(d, p).freq \in Freqs => Current(d, p)' = Current(d, p)
<1>1. At(d, p, "monthly")' = At(d, p, "monthly") /\ At(d, p, "3hourly")' = At(d, p, "3hourly")
  BY DEF Freqs
<1>2. FindFile(d, p)' = FindFile(d, p) BY <1>1 DEF FindFile
<1>3. ASSUME FindFile(d, p).freq \in Freqs PROVE Current(d, p)' = Current(d, p)
  <2>1. PICK f \in Freqs : f = FindFile(d, p).freq BY <1>3
  <2>2. At(d, p, f)' = At(d, p, f) BY <2>1
  <2> QED BY <1>2, <2>1, <2>2 DEF Current
<1> QED BY <1>2, <1>3

(* The same after a step. *)
LEMMA FoundPrimed ==
    ASSUME NEW d, NEW p
    PROVE  /\ At(d, p, "monthly")' # None => FindFile(d, p)' = [dir |-> d, freq |-> "monthly"]
           /\ At(d, p, "monthly")' = None /\ At(d, p, "3hourly")' # None =>
                 FindFile(d, p)' = [dir |-> d, freq |-> "3hourly"]
           /\ (\A f \in Freqs : At(d, p, f)' = None) => FindFile(d, p)' = NoFile
<1>1. "monthly" \in Freqs /\ "3hourly" \in Freqs BY DEF Freqs
<1>2. CASE At(d, p, "monthly")' # None BY <1>1, <1>2 DEF FindFile
<1>3. CASE At(d, p, "monthly")' = None /\ At(d, p, "3hourly")' # None BY <1>1, <1>3 DEF FindFile
<1>4. CASE At(d, p, "monthly")' = None /\ At(d, p, "3hourly")' = None BY <1>1, <1>4 DEF FindFile
<1> QED BY <1>2, <1>3, <1>4

(* What FindFile finds, by its cases. *)
LEMMA FoundFile ==
    ASSUME NEW d, NEW p
    PROVE  /\ FindFile(d, p) = NoFile \/ FindFile(d, p).freq \in Freqs
           /\ FindFile(d, p) # NoFile =>
                 /\ FindFile(d, p) = [dir |-> d, freq |-> FindFile(d, p).freq]
                 /\ FindFile(d, p).freq \in Freqs
                 /\ At(d, p, FindFile(d, p).freq) # None
                 /\ FindFile(d, p).freq = "3hourly" => At(d, p, "monthly") = None
           /\ At(d, p, "monthly") # None => FindFile(d, p) = [dir |-> d, freq |-> "monthly"]
           /\ (\A f \in Freqs : At(d, p, f) = None) => FindFile(d, p) = NoFile
<1>1. "monthly" \in Freqs /\ "3hourly" \in Freqs BY DEF Freqs
<1>2. CASE At(d, p, "monthly") # None
  <2>1. FindFile(d, p) = [dir |-> d, freq |-> "monthly"] BY <1>2 DEF FindFile
  <2>2. FindFile(d, p).freq = "monthly" BY <2>1
  <2> QED BY <1>1, <1>2, <2>1, <2>2
<1>3. CASE At(d, p, "monthly") = None /\ At(d, p, "3hourly") # None
  <2>1. FindFile(d, p) = [dir |-> d, freq |-> "3hourly"] BY <1>3 DEF FindFile
  <2>2. FindFile(d, p).freq = "3hourly" BY <2>1
  <2> QED BY <1>1, <1>3, <2>1, <2>2
<1>4. CASE At(d, p, "monthly") = None /\ At(d, p, "3hourly") = None
  <2>1. FindFile(d, p) = NoFile BY <1>4 DEF FindFile
  <2> QED BY <1>4, <2>1
<1> QED BY <1>2, <1>3, <1>4

(* The script writes to the primary tree only. *)
LEMMA SecondaryStays ==
    ASSUME TypeInv, FetchNext
    PROVE  local'["secondary"] = local["secondary"]
<1>1. /\ local \in [Dirs -> Tree(LocalFile)]
      /\ "primary" \in Dirs /\ "secondary" \in Dirs /\ "primary" # "secondary"
  BY DEF TypeInv, FetchTypeOK, CatalogueTypeOK, Dirs
<1>2. ASSUME NEW w, NEW new, SetLocal(w, new)
      PROVE  local'["secondary"] = local["secondary"]
  <2>1. PICK m, v, f, T : m = FetchModel /\ v = w[1] /\ f = w[2] /\ T = local OBVIOUS
  <2>2. PICK z : z = [T["primary"][m][v] EXCEPT ![f] = new] OBVIOUS
  <2>3. PICK y : y = [T["primary"][m] EXCEPT ![v] = z] OBVIOUS
  <2>4. PICK g : g = [T["primary"] EXCEPT ![m] = y] OBVIOUS
  <2>5. local' = [T EXCEPT !["primary"] = g] BY <1>2, <2>1, <2>2, <2>3, <2>4 DEF SetLocal
  <2> QED BY <1>1, <2>1, <2>5
<1>3. ASSUME local' = Swept
      PROVE  local'["secondary"] = local["secondary"]
  <2>1. PICK m, T : m = FetchModel /\ T = local OBVIOUS
  <2>2. PICK e : e = [v \in Vars |-> [f \in Freqs |->
                 IF <<v, f>> \in Globbed /\ ~NonEmpty(T["primary"][m][v][f]) THEN None
                 ELSE T["primary"][m][v][f]]]
    OBVIOUS
  <2>3. PICK g : g = [T["primary"] EXCEPT ![m] = e] OBVIOUS
  <2>4. local' = [T EXCEPT !["primary"] = g] BY <1>3, <2>1, <2>2, <2>3 DEF Swept
  <2> QED BY <1>1, <2>1, <2>4
<1>4. CASE FetchStart \/ Wipe \/ ScpEnd \/ FetchKill
  BY <1>4 DEF FetchStart, Wipe, ScpEnd, FetchKill
<1>5. CASE Look \/ Sweep BY <1>3, <1>5 DEF Look, Sweep
<1>6. CASE ScpOpen
  <2>1. local' = local \/ \E w, new : SetLocal(w, new) BY <1>6 DEF ScpOpen
  <2> QED BY <1>2, <2>1
<1>7. CASE ScpData \/ ScpDone
  <2>1. \E w, new : SetLocal(w, new) BY <1>7 DEF ScpData, ScpDone
  <2> QED BY <1>2, <2>1
<1>8. CASE ScpFail BY <1>8 DEF ScpFail
<1> QED
  BY <1>4, <1>5, <1>6, <1>7, <1>8 DEF FetchNext, FetchStep, ShellStep, ScpStep

(* What a step of the script does to the files the processor looks at.     *)
FetchView(p) ==
    /\ \A f \in Freqs : At("secondary", p, f)' = At("secondary", p, f)
    /\ \A f \in Freqs : At("primary", p, f)' # At("primary", p, f) => p[1] \in made
    /\ p[1] \in made' /\ p[1] \notin made =>
          \A f \in Freqs : At("primary", p, f)' = At("primary", p, f)
    /\ processed'[p] = processed[p] \/ processed'[p] = None

LEMMA FetchEffect ==
    ASSUME TypeInv, MadeInv, FetchNext
    PROVE  made \subseteq made' /\ \A p \in Pairs : FetchView(p)
<1>1. FetchTypeOK /\ local["secondary"] = local'["secondary"]
  BY SecondaryStays DEF TypeInv
<1>2. DOMAIN processed = Pairs BY <1>1 DEF FetchTypeOK, CatalogueTypeOK
<1>3. made' = made \/ (Wipe /\ local' = local)
  BY DEF FetchNext, FetchStep, ShellStep, ScpStep, FetchStart, Wipe, Look, ScpOpen, ScpData,
         ScpDone, ScpEnd, Sweep, ScpFail, FetchKill
<1>4. made \subseteq made'
  BY DEF FetchNext, FetchStep, ShellStep, ScpStep, FetchStart, Wipe, Look, ScpOpen, ScpData,
         ScpDone, ScpEnd, Sweep, ScpFail, FetchKill
<1>5. ASSUME NEW p \in Pairs, NEW f \in Freqs, At("primary", p, f)' # At("primary", p, f)
      PROVE  p[1] \in made
  <2>1. PICK x \in Files : x = <<p[1], p[2], f>>
    <3>1. p[1] \in Models /\ p[2] \in Vars BY DEF Pairs
    <3>2. <<p[1], p[2], f>> \in Files BY <3>1 DEF Files
    <3> QED BY <3>2
  <2>2. File(x)' # File(x) BY <1>5, <2>1 DEF File, At
  <2>3. CASE ScpOpen \/ ScpData \/ ScpDone \/ ScpFail
    <3>1. InPair(x) /\ Midway BY <2>1, <2>2, <2>3, ScpTouchesItsPair
    <3> QED BY <2>1, <3>1 DEF InPair, Midway, MadeInv
  <2>4. CASE (Look \/ Sweep) /\ local' = Swept
    <3>1. Fetching /\ fetch.pc \in {"look", "sweep"} BY <2>4 DEF Look, Sweep, Fetching
    <3>2. FetchModel \in made BY <3>1 DEF MadeInv
    <3>3. local \in Trees /\ FetchModel \in Models BY <1>1, <3>1, PairFacts
    <3>4. InPair(x) BY <2>1, <2>2, <2>4, <3>3, Sweeps
    <3> QED BY <2>1, <3>2, <3>4 DEF InPair
  <2>5. CASE local' = local BY <2>2, <2>5 DEF File
  <2> QED BY <2>3, <2>4, <2>5, OtherSteps DEF FetchSystem
<1>6. ASSUME NEW p \in Pairs PROVE FetchView(p)
  <2>1. \A f \in Freqs : At("secondary", p, f)' = At("secondary", p, f) BY <1>1 DEF At
  <2>2. p[1] \in made' /\ p[1] \notin made =>
            \A f \in Freqs : At("primary", p, f)' = At("primary", p, f)
    BY <1>3 DEF At
  <2>3. processed'[p] = processed[p] \/ processed'[p] = None BY <1>2, FetchProcessed
  <2> QED BY <1>5, <2>1, <2>2, <2>3 DEF FetchView
<1> QED BY <1>4, <1>6

LEMMA MadeInit == ASSUME PipelineInit PROVE MadeInv
<1>1. PICK old \in OldTrees :
         local = [d \in Dirs |-> IF d = "primary" THEN NoTree ELSE old]
  BY DEF PipelineInit, FetchInit, CatalogueInit
<1>2. local["primary"] = NoTree BY <1>1 DEF Dirs
<1>3. \A p \in Pairs : Absent(p) BY <1>2 DEF Absent, At, NoTree, Pairs
<1>4. fetch.pc = "idle" BY IdleType DEF PipelineInit, FetchInit
<1> QED BY <1>3, <1>4 DEF MadeInv

(* The script is past mkdir with the model it works on. *)
LEMMA MadeBeside ==
    ASSUME TypeInv, MadeInv, FetchNext
    PROVE  MadeInv'
<1>1. FetchTypeOK /\ fetch \in FetchState BY DEF TypeInv, FetchTypeOK
<1>2. ASSUME NEW p \in Pairs, p[1] \notin made' PROVE Absent(p)'
  <2>1. p[1] \notin made /\ Absent(p) /\ FetchView(p) BY <1>2, FetchEffect DEF MadeInv
  <2>2. \A f \in Freqs : At("primary", p, f)' = At("primary", p, f)
    BY <2>1 DEF FetchView
  <2> QED BY <2>1, <2>2 DEF Absent
<1>3. ASSUME fetch'.todo = fetch.todo, FetchModel \in made
      PROVE  FetchModel' \in made'
  BY <1>3, FetchEffect, SamePair
<1>4. fetch'.pc \in {"look", "scp", "copy", "sweep"} => FetchModel' \in made'
  <2>1. CASE FetchStart
    <3>1. PICK renew, n, k, s : n = NotFetching /\ fetch' = [n EXCEPT !.pc = "wipe", !.renew = renew,
                                 !.todo = PairOrder, !.kept = k, !.since = s]
      BY <2>1 DEF FetchStart
    <3>2. fetch'.pc = "wipe" BY <3>1, IdleType DEF FetchState
    <3> QED BY <3>2
  <2>2. CASE Wipe
    <3>1. fetch' = [fetch EXCEPT !.pc = "look"] /\ made' = made \cup {FetchModel}
      BY <2>2 DEF Wipe
    <3>2. fetch'.todo = fetch.todo BY <1>1, <3>1 DEF FetchState
    <3> QED BY <3>1, <3>2, SamePair
  <2>3. CASE Look \/ Sweep
    <3>1. /\ Fetching /\ FetchModel \in made /\ fetch.todo # <<>>
          /\ fetch' = NextPair(fetch) \/ fetch' = Copying(fetch, "2019")
      BY <1>1, <2>3, PairFacts DEF Look, Sweep, Fetching, MadeInv
    <3>2. CASE fetch' = NextPair(fetch)
      <4>1. fetch'.pc \in {"idle", "wipe"} BY <1>1, <3>1, <3>2, NextPairType
      <4> QED BY <4>1
    <3>3. CASE fetch' = Copying(fetch, "2019")
      <4>1. fetch'.todo = fetch.todo BY <1>1, <3>1, <3>3, CopyingType DEF Releases
      <4> QED BY <1>3, <3>1, <4>1
    <3> QED BY <3>1, <3>2, <3>3
  <2>4. CASE ScpOpen \/ ScpData \/ ScpDone \/ ScpFail
    BY <1>3, <2>4, ScpTouchesItsPair DEF Midway, MadeInv
  <2>5. CASE ScpEnd
    <3>1. /\ Fetching /\ FetchModel \in made
          /\ fetch' = Copying(fetch, "AP3") \/ fetch' = [fetch EXCEPT !.pc = "sweep"]
      BY <2>5 DEF ScpEnd, Fetching, MadeInv
    <3>2. CASE fetch' = Copying(fetch, "AP3")
      <4>1. fetch'.todo = fetch.todo BY <1>1, <3>1, <3>2, CopyingType DEF Releases
      <4> QED BY <1>3, <3>1, <4>1
    <3>3. CASE fetch' = [fetch EXCEPT !.pc = "sweep"]
      <4>1. fetch'.todo = fetch.todo BY <1>1, <3>3 DEF FetchState
      <4> QED BY <1>3, <3>1, <4>1
    <3> QED BY <3>1, <3>2, <3>3
  <2>6. CASE FetchKill
    <3>1. fetch' = FetchDone(fetch, "killed") BY <2>6 DEF FetchKill
    <3>2. fetch'.pc = "idle" BY <1>1, <3>1, DoneType
    <3> QED BY <3>2
  <2> QED
    BY <2>1, <2>2, <2>3, <2>4, <2>5, <2>6 DEF FetchNext, FetchStep, ShellStep, ScpStep
<1> QED BY <1>2, <1>4 DEF MadeInv

-----------------------------------------------------------------------------
(* A step of the script keeps the invariant.                               *)

(* A change that is no blind spot. *)
LEMMA SeenChange ==
    ASSUME FetchBeside, NEW p \in Pairs, p \notin blind',
           NEW f \in Freqs, At("primary", p, f)' # At("primary", p, f)
    PROVE  /\ At("primary", p, f)' # None
           /\ processed'[p] # None => ~(At("primary", p, f)'.mtime <= processed'[p].mtime)
           /\ Processing /\ WorkPair = p =>
                 /\ proc.pc \notin {"open", "write"}
                 /\ proc.pc \in {"stat", "read"} => proc.file.freq = f
           /\ \A w \in Ran(proc.todo) : w # [dir |-> "secondary", pair |-> p]
<1>1. local'["primary"][p[1]][p[2]][f] # local["primary"][p[1]][p[2]][f] BY DEF At
<1>2. ~Unseen(p, f) BY <1>1 DEF FetchBeside
<1> QED BY <1>2 DEF Unseen, At, Ran

LEMMA BlindGrows == ASSUME FetchBeside PROVE blind \subseteq blind' /\ broken' = broken
BY DEF FetchBeside

LEMMA QuietStep ==
    ASSUME PipeTypes, FetchBeside, proc'.quiet
    PROVE  proc.quiet /\ UNCHANGED <<local, processed, made>>
BY BesideForm DEF PipeTypes, ProcInv

LEMMA AheadBeside ==
    ASSUME PipeInv, FetchBeside
    PROVE  AheadInv'
<1>1. PipeTypes /\ TypeInv /\ MadeInv /\ AheadInv /\ FetchNext /\ proc \in ProcState
  BY DEF PipeInv, PipeTypes, ProcInv, FetchBeside
<1>2. proc'.todo = proc.todo BY <1>1, BesideForm
<1>3. made \subseteq made' /\ \A p \in Pairs : FetchView(p) BY <1>1, FetchEffect
<1>4. ASSUME NEW w \in Ran(proc.todo)
      PROVE  /\ w.dir = "primary" => w.pair[1] \in made'
             /\ w.dir = "secondary" /\ w.pair \notin blind' => Absent(w.pair)'
             /\ proc'.quiet => w.dir = DirOf(w.pair[1])'
  <2>1. w \in Work /\ w.pair \in Pairs
    <3>1. proc.todo \in Seq(Work) BY <1>1 DEF ProcState
    <3>2. w \in Work BY <3>1, RanInSet
    <3> QED BY <3>2 DEF Work
  <2>2. w.dir = "primary" => w.pair[1] \in made' BY <1>1, <1>3, <1>4 DEF AheadInv
  <2>3. ASSUME w.dir = "secondary", w.pair \notin blind' PROVE Absent(w.pair)'
    <3>1. Absent(w.pair) BY <1>1, <2>3, BlindGrows DEF AheadInv
    <3>2. w = [dir |-> "secondary", pair |-> w.pair] BY <2>1, <2>3 DEF Work
    <3>3. \A f \in Freqs : At("primary", w.pair, f)' = At("primary", w.pair, f)
      BY <2>1, <2>3, <3>2, SeenChange
    <3> QED BY <3>1, <3>3 DEF Absent
  <2>4. ASSUME proc'.quiet PROVE w.dir = DirOf(w.pair[1])'
    <3>1. proc.quiet /\ made' = made BY <1>1, <2>4, QuietStep
    <3>2. w.dir = DirOf(w.pair[1]) BY <1>1, <3>1 DEF AheadInv
    <3> QED BY <3>1, <3>2 DEF DirOf
  <2> QED BY <2>2, <2>3, <2>4
<1> QED BY <1>2, <1>4 DEF AheadInv

LEMMA SettledBeside ==
    ASSUME PipeInv, FetchBeside
    PROVE  SettledInv'
<1>1. PipeTypes /\ TypeInv /\ MadeInv /\ AheadInv /\ SettledInv /\ FetchNext /\ proc \in ProcState
  BY DEF PipeInv, PipeTypes, ProcInv, FetchBeside
<1>2. /\ proc'.pc = proc.pc /\ proc'.file = proc.file /\ proc'.body = proc.body
      /\ WorkPair' = WorkPair /\ WorkDir' = WorkDir /\ proc'.todo = proc.todo
      /\ proc'.named <=> proc.named /\ processed'[WorkPair] # None
  BY <1>1, BesideForm DEF WorkPair, WorkDir
<1> SUFFICES ASSUME Processing, proc'.quiet \/ WorkPair \notin blind'
             PROVE  /\ proc.pc \in {"stat", "read", "open", "write"} =>
                          proc.file = FindFile(WorkDir, WorkPair)'
                    /\ proc.pc \in {"open", "write"} => proc.body = Current(WorkDir, WorkPair)'
                    /\ proc'.quiet /\ proc.pc = "write" => proc'.named
  BY <1>2 DEF SettledInv, Processing, Current, FindFile, At
<1>3. proc.quiet \/ WorkPair \notin blind BY <1>1, QuietStep, BlindGrows
<1>4. /\ proc.pc \in {"stat", "read", "open", "write"} =>
            proc.file = FindFile(WorkDir, WorkPair) /\ proc.file.freq \in Freqs
      /\ proc.pc \in {"open", "write"} => proc.body = Current(WorkDir, WorkPair)
      /\ proc.quiet /\ proc.pc = "write" => proc.named
  BY <1>1, <1>3 DEF SettledInv, PipeTypes, ProcInv
<1>5. PICK d \in Dirs, p \in Pairs : d = WorkDir /\ p = WorkPair BY <1>1, WorkFacts
<1>6. FindFile(WorkDir, WorkPair)' = FindFile(d, p)' /\ Current(WorkDir, WorkPair)' = Current(d, p)'
  BY <1>2, <1>5 DEF Current, FindFile, At
<1>7. proc'.quiet /\ proc.pc = "write" => proc'.named
  <2> HAVE proc'.quiet /\ proc.pc = "write"
  <2>1. proc.quiet /\ processed' = processed BY <1>1, QuietStep
  <2>2. proc.named BY <1>4, <2>1
  <2>3. processed[WorkPair] # None BY <1>1, <2>2 DEF PipeTypes, ProcInv
  <2> QED BY <1>2, <2>1, <2>2, <2>3
<1>8. CASE \A f \in Freqs : At(d, p, f)' = At(d, p, f)
  <2>1. FindFile(d, p)' = FindFile(d, p) /\ (FindFile(d, p).freq \in Freqs => Current(d, p)' = Current(d, p))
    BY <1>8, SameFind
  <2> QED BY <1>4, <1>5, <1>6, <1>7, <2>1
<1>9. CASE \E f \in Freqs : At(d, p, f)' # At(d, p, f)
  <2>1. PICK f \in Freqs : At(d, p, f)' # At(d, p, f) BY <1>9
  <2>2. FetchView(p) BY <1>1, FetchEffect
  <2>3. d = "primary" BY <2>1, <2>2 DEF FetchView, Dirs
  <2>4. WorkPair \notin blind' BY <1>1, <2>1, QuietStep DEF At
  <2>5. ASSUME NEW g \in Freqs, At(d, p, g)' # At(d, p, g)
        PROVE  /\ At(d, p, g)' # None /\ proc.pc \notin {"open", "write"}
               /\ proc.pc \in {"stat", "read"} => proc.file.freq = g
    BY <1>5, <2>3, <2>4, <2>5, SeenChange
  <2>6. CASE proc.pc \notin {"stat", "read"} BY <1>7, <2>1, <2>5, <2>6
  <2>7. CASE proc.pc \in {"stat", "read"}
    <3>1. PICK g \in Freqs : g = proc.file.freq BY <1>4, <2>7
    <3>2. proc.file = FindFile(d, p) /\ FindFile(d, p).freq = g BY <1>4, <1>5, <2>7, <3>1
    <3>3. \A h \in Freqs : h # g => At(d, p, h)' = At(d, p, h) BY <2>5, <2>7, <3>1
    <3>4. At(d, p, g)' # None BY <2>1, <2>5, <2>7, <3>1
    <3>5. NoFile.freq \notin Freqs BY DEF NoFile, Freqs
    <3>6. CASE g = "monthly"
      <4>1. FindFile(d, p)' = [dir |-> d, freq |-> "monthly"] BY <3>4, <3>6, FoundPrimed
      <4>2. proc.file = [dir |-> d, freq |-> "monthly"] BY <3>2, <3>5, <3>6, FoundFile
      <4> QED BY <1>6, <1>7, <2>7, <4>1, <4>2
    <3>7. CASE g = "3hourly"
      <4>1. At(d, p, "monthly") = None /\ proc.file = [dir |-> d, freq |-> "3hourly"]
        BY <3>2, <3>5, <3>7, FoundFile
      <4>2. At(d, p, "monthly")' = None BY <3>3, <3>7, <4>1 DEF Freqs
      <4>3. FindFile(d, p)' = [dir |-> d, freq |-> "3hourly"] BY <3>4, <3>7, <4>2, FoundPrimed
      <4> QED BY <1>6, <1>7, <2>7, <4>1, <4>3
    <3> QED BY <3>6, <3>7 DEF Freqs
  <2> QED BY <2>6, <2>7
<1> QED BY <1>8, <1>9

(* FreshIsCurrent, with the tree as a parameter. *)
FreshFrom(d, p) ==
    /\ FindFile(d, p) # NoFile
    /\ At(d, p, FindFile(d, p).freq).size # "empty"
    /\ IsFresh(p, At(d, p, FindFile(d, p).freq))

CurrentFrom(d, p) == processed[p].whole /\ processed[p].body = Current(d, p)

LEMMA FreshMeans ==
    ASSUME FreshIsCurrent, NEW p \in Pairs, p \notin blind \cup broken, ~BeingWritten(p),
           NEW d, d = DirOf(p[1]), FreshFrom(d, p)
    PROVE  CurrentFrom(d, p)
BY DEF FreshIsCurrent, Skippable, FreshFrom, CurrentFrom, Current

LEMMA FreshIfPrimed ==
    ASSUME \A p \in Pairs : \A d \in Dirs :
               /\ p \notin blind' \cup broken' /\ ~BeingWritten(p)'
               /\ d = DirOf(p[1])' /\ FreshFrom(d, p)'
               => CurrentFrom(d, p)'
    PROVE  FreshIsCurrent'
<1> SUFFICES ASSUME NEW p \in Pairs, p \notin blind' \cup broken', ~BeingWritten(p)',
                    Skippable(p)'
             PROVE  /\ processed'[p].whole
                    /\ processed'[p].body = Current(DirOf(p[1]), p)'
  BY DEF FreshIsCurrent, Current
<1>1. PICK d \in Dirs : d = DirOf(p[1])' BY DEF DirOf, Dirs
<1>2. FreshFrom(d, p)' BY <1>1 DEF Skippable, FreshFrom, FindFile, At, IsFresh
<1>3. CurrentFrom(d, p)' BY <1>1, <1>2
<1> QED BY <1>1, <1>3 DEF CurrentFrom, Current, FindFile, At

LEMMA FreshBeside ==
    ASSUME PipeInv, FetchBeside
    PROVE  FreshIsCurrent'
<1>1. /\ PipeTypes /\ TypeInv /\ MadeInv /\ FreshIsCurrent /\ FetchNext /\ proc \in ProcState
      /\ clock \in 0 .. MaxClock /\ MaxClock \in Nat
  BY CatalogueAssumption
  DEF PipeInv, PipeTypes, ProcInv, FetchBeside, TypeInv, FetchTypeOK, CatalogueTypeOK
<1>2. proc'.pc = proc.pc /\ WorkPair' = WorkPair /\ MadeInv' /\ TypeInv'
  BY <1>1, BesideForm, MadeBeside, TypeNext DEF WorkPair, FetchSystem
<1>3. SUFFICES ASSUME NEW p \in Pairs, NEW d \in Dirs, p \notin blind' \cup broken',
                      ~BeingWritten(p)', d = DirOf(p[1])', FreshFrom(d, p)'
               PROVE  CurrentFrom(d, p)'
  BY FreshIfPrimed
<1>4. p \notin blind \cup broken /\ ~BeingWritten(p) BY <1>2, <1>3, BlindGrows DEF BeingWritten
<1>5. FetchView(p) /\ made \subseteq made' BY <1>1, FetchEffect
<1>6. processed'[p] # None /\ processed'[p] = processed[p]
  BY <1>3, <1>5 DEF FreshFrom, IsFresh, FetchView
<1>7. ASSUME d = DirOf(p[1]), FindFile(d, p)' = FindFile(d, p),
             At(d, p, FindFile(d, p).freq)' = At(d, p, FindFile(d, p).freq)
      PROVE  CurrentFrom(d, p)'
  <2>1. FreshFrom(d, p) BY <1>3, <1>6, <1>7 DEF FreshFrom, IsFresh
  <2>2. CurrentFrom(d, p) BY <1>1, <1>4, <1>7, <2>1, FreshMeans
  <2> QED BY <1>6, <1>7, <2>2 DEF CurrentFrom, Current
<1>8. CASE \A f \in Freqs : At("primary", p, f)' = At("primary", p, f)
  <2>1. \A e \in Dirs : \A f \in Freqs : At(e, p, f)' = At(e, p, f)
    BY <1>5, <1>8 DEF Dirs, FetchView
  <2>2. FindFile(d, p)' = FindFile(d, p) BY <2>1, SameFind
  <2>3. FindFile(d, p) # NoFile BY <1>3, <2>2 DEF FreshFrom
  <2>4. PICK g \in Freqs : g = FindFile(d, p).freq /\ At(d, p, g) # None BY <2>3, FoundFile
  <2>5. At(d, p, FindFile(d, p).freq)' = At(d, p, FindFile(d, p).freq) BY <2>1, <2>2, <2>4 DEF At
  <2>6. d = DirOf(p[1])
    <3>1. SUFFICES ASSUME p[1] \in made', p[1] \notin made PROVE FALSE
      BY <1>3, <1>5 DEF DirOf
    <3>2. d = "primary" /\ Absent(p) BY <1>1, <1>3, <3>1 DEF DirOf, MadeInv
    <3> QED BY <2>4, <3>2 DEF Absent
  <2> QED BY <1>7, <2>2, <2>5, <2>6
<1>9. CASE \E f \in Freqs : At("primary", p, f)' # At("primary", p, f)
  <2>1. PICK f \in Freqs : At("primary", p, f)' # At("primary", p, f) BY <1>9
  <2>2. p[1] \in made /\ d = "primary" /\ d = DirOf(p[1])
    BY <1>3, <1>5, <2>1 DEF FetchView, DirOf
  <2>3. ASSUME NEW g \in Freqs, At(d, p, g)' # At(d, p, g)
        PROVE  At(d, p, g)' # None /\ ~(At(d, p, g)'.mtime <= processed'[p].mtime)
    BY <1>3, <1>6, <2>2, <2>3, SeenChange
  <2>4. PICK h \in Freqs : h = FindFile(d, p)'.freq /\ At(d, p, h)' # None
                           /\ (h = "3hourly" => At(d, p, "monthly")' = None)
    <3>1. FindFile(d, p)' # NoFile BY <1>3 DEF FreshFrom
    <3>2. CASE At(d, p, "monthly")' # None
      <4>1. FindFile(d, p)'.freq = "monthly" BY <3>2, FoundPrimed
      <4> QED BY <3>2, <4>1 DEF Freqs
    <3>3. CASE At(d, p, "monthly")' = None
      <4>1. At(d, p, "3hourly")' # None BY <3>1, <3>3, FoundPrimed DEF Freqs
      <4>2. FindFile(d, p)'.freq = "3hourly" BY <3>3, <4>1, FoundPrimed
      <4> QED BY <3>3, <4>1, <4>2 DEF Freqs
    <3> QED BY <3>2, <3>3
  <2>5. processed'[p].mtime >= At(d, p, h)'.mtime
    BY <1>3, <2>4 DEF FreshFrom, IsFresh, At
  <2>6. At(d, p, h)' = At(d, p, h)
    <3> SUFFICES ASSUME At(d, p, h)' # At(d, p, h) PROVE FALSE OBVIOUS
    <3>1. At(d, p, h)' # None /\ ~(At(d, p, h)'.mtime <= processed'[p].mtime) BY <2>3
    <3>2. processed'[p] \in Output /\ At(d, p, h)' \in LocalFile
      <4>1. /\ local' \in [Dirs -> Tree(LocalFile)]
            /\ processed' \in [Pairs -> Output \cup {None}]
        BY <1>2 DEF TypeInv, FetchTypeOK, CatalogueTypeOK
      <4> QED BY <1>6, <3>1, <4>1 DEF At, Tree, Pairs
    <3>3. PICK a \in Int, b \in Int : a = processed'[p].mtime /\ b = At(d, p, h)'.mtime
      BY <3>2, <1>1 DEF Output, LocalFile
    <3> QED BY <2>5, <3>1, <3>3
  <2>7. h = "monthly"
    <3> SUFFICES ASSUME h # "monthly" PROVE FALSE OBVIOUS
    <3>1. h = "3hourly" /\ At(d, p, "monthly")' = None BY <2>4 DEF Freqs
    <3>2. f = "monthly" BY <2>1, <2>2, <2>6, <3>1 DEF Freqs
    <3> QED BY <2>1, <2>2, <2>3, <3>1, <3>2
  <2>8. At(d, p, "monthly") # None BY <2>4, <2>6, <2>7
  <2>9. FindFile(d, p)' = FindFile(d, p) /\ FindFile(d, p).freq = h
    BY <2>4, <2>7, <2>8, FoundFile, FoundPrimed
  <2>10. At(d, p, FindFile(d, p).freq)' = At(d, p, FindFile(d, p).freq)
    BY <2>6, <2>9 DEF At
  <2> QED BY <1>7, <2>2, <2>9, <2>10
<1> QED BY <1>8, <1>9

(* Nothing the processor looks at has changed. *)
LEMMA SameDone ==
    ASSUME UNCHANGED <<local, made, processed>>, proc'.renew = proc.renew,
           blind \subseteq blind', broken' = broken, NEW p, Done(p)
    PROVE  Done(p)'
<1>1. Wanted(p)' = Wanted(p) BY DEF Wanted, DirOf, FindFile, At
<1> QED BY <1>1 DEF Done

LEMMA BehindBeside ==
    ASSUME PipeInv, FetchBeside
    PROVE  BehindInv'
<1>1. PipeTypes /\ BehindInv /\ proc \in ProcState BY DEF PipeInv, PipeTypes, ProcInv
<1>2. /\ proc'.pc = proc.pc /\ proc'.exit = proc.exit /\ proc'.todo = proc.todo
      /\ proc'.renew = proc.renew
  BY <1>1, BesideForm
<1> SUFFICES ASSUME proc'.quiet, Processing \/ proc.exit = "ok", NEW p \in Toured,
                    \A w \in Ran(proc.todo) : w.pair # p
             PROVE  Done(p)'
  BY <1>2 DEF BehindInv, Processing, Toured
<1>3. proc.quiet /\ UNCHANGED <<local, processed, made>> BY <1>1, QuietStep
<1>4. Done(p) BY <1>1, <1>3 DEF BehindInv
<1> QED BY <1>2, <1>3, <1>4, SameDone, BlindGrows

LEMMA PipeBeside ==
    ASSUME PipeInv, FetchBeside
    PROVE  PipeInv'
<1>1. PipeTypes /\ WholeInv /\ TypeInv /\ MadeInv /\ FetchNext /\ proc \in ProcState
  BY DEF PipeInv, PipeTypes, ProcInv, FetchBeside
<1>2. [PipelineNext]_pipelineVars BY DEF PipelineNext
<1>3. RunInv' BY <1>1, BesideForm DEF PipeInv, RunInv, Processing
<1> QED
  BY <1>1, <1>2, <1>3, PipeTypesNext, WholeBeside, MadeBeside, AheadBeside, SettledBeside,
     FreshBeside, BehindBeside DEF PipeInv

LEMMA MadeSame ==
    ASSUME MadeInv, UNCHANGED <<local, made, fetch>>
    PROVE  MadeInv'
BY DEF MadeInv, Absent, At, FetchModel, FetchPair

(* A step that changes nothing but the clock, the server or what was spent.*)
LEMMA PipeStill ==
    ASSUME PipeInv, PipeTypes', UNCHANGED <<local, made, processed, fetch, proc, broken, blind>>
    PROVE  PipeInv'
<1>1. WorkPair' = WorkPair /\ WorkDir' = WorkDir BY DEF WorkPair, WorkDir
<1>2. MadeInv' BY MadeSame DEF PipeInv
<1>3. WholeInv' BY <1>1 DEF PipeInv, WholeInv, Shape, PFields, WholeUnlessBroken
<1>4. AheadInv' BY DEF PipeInv, AheadInv, Absent, At, DirOf, Ran
<1>5. SettledInv'
  BY <1>1 DEF PipeInv, SettledInv, Processing, Current, FindFile, At
<1>6. FreshIsCurrent'
  <2> SUFFICES ASSUME NEW p \in Pairs, NEW d \in Dirs, p \notin blind \cup broken,
                      ~BeingWritten(p), d = DirOf(p[1]), FreshFrom(d, p)'
               PROVE  CurrentFrom(d, p)'
    BY <1>1, FreshIfPrimed DEF BeingWritten, DirOf
  <2>1. FindFile(d, p)' = FindFile(d, p) /\ \A f \in Freqs : At(d, p, f)' = At(d, p, f)
    BY DEF FindFile, At
  <2>2. FreshFrom(d, p) BY <2>1 DEF FreshFrom, IsFresh, At
  <2>3. CurrentFrom(d, p) BY <2>2, FreshMeans DEF PipeInv
  <2> QED BY <2>1, <2>3 DEF CurrentFrom, Current, At
<1>7. BehindInv'
  <2> SUFFICES ASSUME proc.quiet, Processing \/ proc.exit = "ok", NEW p \in Toured,
                      \A w \in Ran(proc.todo) : w.pair # p
               PROVE  Done(p)'
    BY DEF BehindInv, Processing, Toured
  <2>1. Done(p) BY DEF PipeInv, BehindInv
  <2> QED BY <2>1, SameDone
<1>8. RunInv' BY DEF PipeInv, RunInv, Processing
<1> QED BY <1>2, <1>3, <1>4, <1>5, <1>6, <1>7, <1>8 DEF PipeInv

-----------------------------------------------------------------------------
(* A step of the processor keeps the invariant.                            *)

(* The pair it works on. *)
LEMMA NowFacts ==
    ASSUME PipeInv, Processing
    PROVE  /\ [dir |-> WorkDir, pair |-> WorkPair] \in Ran(proc.todo)
           /\ WorkPair \in Pairs /\ WorkDir \in Dirs /\ proc.todo \in Seq(Work)
           /\ WorkDir = "primary" => WorkPair[1] \in made
           /\ WorkDir = "secondary" /\ WorkPair \notin blind => Absent(WorkPair)
           /\ proc.quiet => WorkDir = DirOf(WorkPair[1])
<1>1. proc.todo \in Seq(Work) /\ proc.todo # <<>> /\ WorkPair \in Pairs /\ WorkDir \in Dirs
      /\ Head(proc.todo) \in Work
  BY WorkFacts DEF PipeInv, PipeTypes, ProcInv
<1>2. Head(proc.todo) = [dir |-> WorkDir, pair |-> WorkPair]
  BY <1>1 DEF Work, WorkDir, WorkPair
<1>3. Head(proc.todo) \in Ran(proc.todo) BY <1>1, RanOfTail
<1>4. PICK w \in Ran(proc.todo) : w.dir = WorkDir /\ w.pair = WorkPair
  BY <1>3 DEF WorkDir, WorkPair
<1> QED BY <1>1, <1>2, <1>3, <1>4 DEF PipeInv, AheadInv

(* The next pair, or the end. *)
LEMMA TurnForm ==
    ASSUME NEW q \in ProcState, q.todo = proc.todo, proc.todo # <<>>, NEW outcome \in Outcomes,
           NEW n, n = Counted(q, outcome)
    PROVE  /\ n \in ProcState /\ n.renew = q.renew /\ n.quiet = q.quiet
           /\ n.pc \in {"idle", "find"} /\ Ran(n.todo) \subseteq Ran(proc.todo)
           /\ n.pc = "idle" => n.todo = <<>> /\ n.exit = "ok"
           /\ n.pc = "find" => n.exit = q.exit
           /\ \A w \in Ran(proc.todo) : w = Head(proc.todo) \/ w \in Ran(n.todo)
<1>1. proc.todo \in Seq(Work) BY DEF ProcState
<1>2. /\ Ran(Tail(proc.todo)) \subseteq Ran(proc.todo)
      /\ \A x \in Ran(proc.todo) :
            x = Head(proc.todo) \/ (Len(proc.todo) # 1 /\ x \in Ran(Tail(proc.todo)))
  BY <1>1, RanOfTail
<1>3. Ran(<<>>) = {} BY DEF Ran
<1>4. /\ n \in ProcState /\ n.renew = q.renew /\ n.quiet = q.quiet
      /\ \/ /\ Len(proc.todo) = 1 /\ n.pc = "idle" /\ n.exit = "ok" /\ n.todo = <<>>
         \/ /\ Len(proc.todo) # 1 /\ n.pc = "find" /\ n.exit = q.exit
            /\ n.todo = Tail(proc.todo)
  BY CountedForm
<1> QED BY <1>2, <1>3, <1>4

(* Past a pair: what lies ahead and behind, given that the pair is done.   *)
LEMMA PastPair ==
    ASSUME PipeInv, Processing, UNCHANGED <<local, made, fetch, blind>>,
           proc'.pc \in {"idle", "find"}, Ran(proc'.todo) \subseteq Ran(proc.todo),
           proc'.pc = "idle" => proc'.todo = <<>>, proc'.pc = "find" => proc'.exit = "none",
           \A w \in Ran(proc.todo) : w = Head(proc.todo) \/ w \in Ran(proc'.todo),
           proc'.quiet => proc.quiet, proc'.renew = proc.renew,
           \A p \in Pairs \ {WorkPair} : processed'[p] = processed[p]
                                         /\ (p \in broken => p \in broken'),
           proc'.quiet => \A p \in {WorkPair} : Done(p)'
    PROVE  MadeInv' /\ AheadInv' /\ SettledInv' /\ BehindInv' /\ RunInv'
<1>1. MadeInv /\ AheadInv /\ BehindInv BY DEF PipeInv
<1>2. MadeInv' BY <1>1, MadeSame
<1>3. AheadInv' BY <1>1 DEF AheadInv, Absent, At, DirOf
<1>4. SettledInv' BY DEF SettledInv, Processing
<1>5. RunInv' BY DEF RunInv, Processing
<1>6. BehindInv'
  <2> SUFFICES ASSUME proc'.quiet, NEW p \in Toured, \A w \in Ran(proc'.todo) : w.pair # p
               PROVE  Done(p)'
    BY DEF BehindInv, Toured
  <2>1. CASE p = WorkPair BY <2>1
  <2>2. CASE p # WorkPair
    <3>1. \A w \in Ran(proc.todo) : w.pair # p BY <2>2 DEF WorkPair
    <3>2. Done(p) BY <1>1, <3>1 DEF BehindInv
    <3>3. p \in Pairs BY TouredPairs
    <3>4. Wanted(p)' = Wanted(p) BY DEF Wanted, DirOf, FindFile, At
    <3> QED BY <2>2, <3>2, <3>3, <3>4 DEF Done
  <2> QED BY <2>1, <2>2
<1> QED BY <1>2, <1>3, <1>4, <1>5, <1>6

(* Within a pair. *)
LEMMA WithinPair ==
    ASSUME PipeInv, Processing, UNCHANGED <<local, made, fetch, blind, broken>>,
           Within(proc', proc), \A p \in Pairs \ {WorkPair} : processed'[p] = processed[p]
    PROVE  /\ MadeInv' /\ AheadInv' /\ BehindInv' /\ RunInv'
           /\ WorkPair' = WorkPair /\ WorkDir' = WorkDir
<1>1. MadeInv /\ AheadInv /\ BehindInv /\ RunInv BY DEF PipeInv
<1>2. /\ proc'.todo = proc.todo /\ proc'.quiet = proc.quiet /\ proc'.renew = proc.renew
      /\ proc'.exit = proc.exit /\ proc'.pc # "idle"
  BY DEF Within, Kept
<1>3. MadeInv' BY <1>1, MadeSame
<1>4. AheadInv' BY <1>1, <1>2 DEF AheadInv, Absent, At, DirOf
<1>5. RunInv' BY <1>1, <1>2 DEF RunInv, Processing
<1>6. BehindInv'
  <2> SUFFICES ASSUME proc.quiet, NEW p \in Toured, \A w \in Ran(proc.todo) : w.pair # p
               PROVE  Done(p)'
    BY <1>2 DEF BehindInv, Toured
  <2>1. Done(p) /\ p \in Pairs BY <1>1, TouredPairs DEF BehindInv
  <2>2. p # WorkPair
    <3>1. PICK w \in Ran(proc.todo) : w = [dir |-> WorkDir, pair |-> WorkPair] BY NowFacts
    <3> QED BY <3>1
  <2>3. Wanted(p)' = Wanted(p) BY DEF Wanted, DirOf, FindFile, At
  <2> QED BY <1>2, <2>1, <2>2, <2>3 DEF Done
<1>7. WorkPair' = WorkPair /\ WorkDir' = WorkDir BY <1>2 DEF WorkPair, WorkDir
<1> QED BY <1>3, <1>4, <1>5, <1>6, <1>7

LEMMA WantedIs ==
    ASSUME NEW p, NEW d, d = DirOf(p[1]), Wanted(p) # None
    PROVE  /\ FindFile(d, p) # NoFile /\ Wanted(p) = Current(d, p)
           /\ At(d, p, FindFile(d, p).freq).size = "full"
           /\ At(d, p, FindFile(d, p).freq).ver \notin Unusable
<1>1. FindFile(d, p) # NoFile BY DEF Wanted
<1>2. FindFile(d, p).dir = d /\ FindFile(d, p) = [dir |-> d, freq |-> FindFile(d, p).freq]
  BY <1>1, FoundFile
<1> QED BY <1>1, <1>2 DEF Wanted, Current

(* A pair with nothing to make is done. *)
LEMMA DoneWithout ==
    ASSUME UNCHANGED <<local, made>>, NEW p, Wanted(p) = None
    PROVE  Done(p)'
<1>1. Wanted(p)' = None BY DEF Wanted, DirOf, FindFile, At
<1> QED BY <1>1 DEF Done

(* A step that writes nothing and leaves nothing open. *)
LEMMA FreshUnwritten ==
    ASSUME PipeInv, UNCHANGED <<local, made, processed, blind>>, proc'.pc # "write",
           proc.pc = "write" => broken' = broken \cup {WorkPair},
           proc.pc # "write" => broken' = broken
    PROVE  FreshIsCurrent'
<1> SUFFICES ASSUME NEW p \in Pairs, NEW d \in Dirs, p \notin blind \cup broken',
                    d = DirOf(p[1]), FreshFrom(d, p)'
             PROVE  CurrentFrom(d, p)'
  BY FreshIfPrimed DEF DirOf
<1>1. p \notin broken /\ ~BeingWritten(p) BY DEF BeingWritten
<1>2. FindFile(d, p)' = FindFile(d, p) /\ \A f \in Freqs : At(d, p, f)' = At(d, p, f)
  BY DEF FindFile, At
<1>3. FreshFrom(d, p) BY <1>2 DEF FreshFrom, IsFresh, At
<1>4. CurrentFrom(d, p) BY <1>1, <1>3, FreshMeans DEF PipeInv
<1> QED BY <1>2, <1>4 DEF CurrentFrom, Current, At

(* A step that writes the current pair's file only. *)
LEMMA FreshOthers ==
    ASSUME PipeInv, Processing, UNCHANGED <<local, made, blind>>,
           \A p \in Pairs \ {WorkPair} : processed'[p] = processed[p]
                                         /\ (p \in broken => p \in broken'),
           NEW p \in Pairs, NEW d \in Dirs, p # WorkPair,
           p \notin blind \cup broken', d = DirOf(p[1]), FreshFrom(d, p)'
    PROVE  CurrentFrom(d, p)'
<1>1. p \notin broken /\ ~BeingWritten(p) BY DEF BeingWritten
<1>2. FindFile(d, p)' = FindFile(d, p) /\ \A f \in Freqs : At(d, p, f)' = At(d, p, f)
  BY DEF FindFile, At
<1>3. FreshFrom(d, p) BY <1>2 DEF FreshFrom, IsFresh, At
<1>4. CurrentFrom(d, p) BY <1>1, <1>3, FreshMeans DEF PipeInv
<1> QED BY <1>2, <1>4 DEF CurrentFrom, Current, At

LEMMA FindKeeps ==
    ASSUME PipeInv, Find, UNCHANGED <<fetch, blind>>
    PROVE  MadeInv' /\ AheadInv' /\ SettledInv' /\ FreshIsCurrent' /\ BehindInv' /\ RunInv'
<1>1. /\ Processing /\ proc.pc = "find" /\ proc \in ProcState /\ proc.todo # <<>>
      /\ proc.exit = "none" /\ PipeTypes
  BY FindForm DEF PipeInv, PipeTypes, ProcInv, RunInv
<1>2. UNCHANGED <<local, made, processed, broken>> BY <1>1, FindForm DEF catalogue
<1>3. CASE FindFile(WorkDir, WorkPair) = NoFile /\ proc' = Counted(proc, "missing")
  <2>1. "missing" \in Outcomes BY DEF Outcomes
  <2>2. proc.quiet => Wanted(WorkPair) = None
    BY <1>1, <1>3, NowFacts, WantedIs
  <2>3. /\ proc'.pc \in {"idle", "find"} /\ Ran(proc'.todo) \subseteq Ran(proc.todo)
        /\ proc'.pc = "idle" => proc'.todo = <<>>
        /\ proc'.pc = "find" => proc'.exit = "none"
        /\ \A w \in Ran(proc.todo) : w = Head(proc.todo) \/ w \in Ran(proc'.todo)
        /\ proc'.quiet = proc.quiet /\ proc'.renew = proc.renew
    BY <1>1, <1>3, <2>1, TurnForm
  <2>4. proc'.quiet => \A p \in {WorkPair} : Done(p)' BY <1>2, <2>2, <2>3, DoneWithout
  <2>5. FreshIsCurrent' BY <1>1, <1>2, <2>3, FreshUnwritten
  <2> QED BY <1>1, <1>2, <2>3, <2>4, <2>5, PastPair
<1>4. CASE /\ Within(proc', proc) /\ proc'.pc = "stat"
           /\ proc'.file = FindFile(WorkDir, WorkPair)
  <2>1. /\ MadeInv' /\ AheadInv' /\ BehindInv' /\ RunInv'
        /\ WorkPair' = WorkPair /\ WorkDir' = WorkDir
    BY <1>1, <1>2, <1>4, WithinPair
  <2>2. FreshIsCurrent' BY <1>1, <1>2, <1>4, FreshUnwritten
  <2>3. SettledInv' BY <1>2, <1>4, <2>1 DEF SettledInv, FindFile, At
  <2> QED BY <2>1, <2>2, <2>3
<1> QED BY <1>1, <1>3, <1>4, FindForm

LEMMA StatKeeps ==
    ASSUME PipeInv, Stat, UNCHANGED <<fetch, blind>>
    PROVE  MadeInv' /\ AheadInv' /\ SettledInv' /\ FreshIsCurrent' /\ BehindInv' /\ RunInv'
<1> DEFINE file == At(WorkDir, WorkPair, proc.file.freq)
<1>1. /\ Processing /\ proc.pc = "stat" /\ proc \in ProcState /\ proc.todo # <<>>
      /\ proc.exit = "none" /\ PipeTypes
  BY StatForm DEF PipeInv, PipeTypes, ProcInv, RunInv
<1>2. UNCHANGED <<local, made, processed, broken>> BY <1>1, StatForm DEF catalogue
<1>3. "missing" \in Outcomes /\ "skipped" \in Outcomes BY DEF Outcomes
<1>4. ASSUME NEW o \in Outcomes, proc' = Counted(proc, o)
      PROVE  /\ proc'.pc \in {"idle", "find"} /\ Ran(proc'.todo) \subseteq Ran(proc.todo)
             /\ proc'.pc = "idle" => proc'.todo = <<>>
             /\ proc'.pc = "find" => proc'.exit = "none"
             /\ \A w \in Ran(proc.todo) : w = Head(proc.todo) \/ w \in Ran(proc'.todo)
             /\ proc'.quiet = proc.quiet /\ proc'.renew = proc.renew
  BY <1>1, <1>4, TurnForm
<1>5. proc.quiet => /\ WorkDir = DirOf(WorkPair[1]) /\ proc.file = FindFile(WorkDir, WorkPair)
  BY <1>1, NowFacts DEF PipeInv, SettledInv
<1>6. CASE file.size = "empty" /\ proc' = Counted(proc, "missing")
  <2>1. proc.quiet => Wanted(WorkPair) = None BY <1>5, <1>6, WantedIs
  <2>2. proc'.quiet => \A p \in {WorkPair} : Done(p)' BY <1>2, <1>3, <1>4, <1>6, <2>1, DoneWithout
  <2>3. FreshIsCurrent' BY <1>1, <1>2, <1>3, <1>4, <1>6, FreshUnwritten
  <2> QED BY <1>1, <1>2, <1>3, <1>4, <1>6, <2>2, <2>3, PastPair
<1>7. CASE /\ file # None /\ file.size # "empty" /\ ~proc.renew /\ IsFresh(WorkPair, file)
           /\ proc' = Counted(proc, "skipped")
  <2>1. ASSUME proc.quiet, NEW p \in {WorkPair} PROVE Done(p)'
    <3>1. SUFFICES ASSUME Wanted(p) # None, p \notin blind \cup broken
                   PROVE  processed[p] # None /\ processed[p].whole /\ processed[p].body = Wanted(p)
      <4>1. Wanted(p)' = Wanted(p) BY <1>2 DEF Wanted, DirOf, FindFile, At
      <4>2. proc'.renew = proc.renew BY <1>3, <1>4, <1>7
      <4> QED BY <1>2, <1>7, <4>1, <4>2 DEF Done
    <3>2. PICK d : d = WorkDir /\ d = DirOf(p[1]) BY <1>5, <2>1
    <3>3. FindFile(d, p) # NoFile /\ Wanted(p) = Current(d, p) BY <3>1, <3>2, WantedIs
    <3>4. FreshFrom(d, p) BY <1>5, <1>7, <2>1, <3>2, <3>3 DEF FreshFrom
    <3>5. ~BeingWritten(p) /\ p \in Pairs BY <1>1, NowFacts DEF BeingWritten
    <3>6. CurrentFrom(d, p) BY <3>1, <3>2, <3>4, <3>5, FreshMeans DEF PipeInv
    <3> QED BY <3>3, <3>4, <3>6 DEF CurrentFrom, FreshFrom, IsFresh
  <2>2. proc'.quiet => \A p \in {WorkPair} : Done(p)' BY <1>3, <1>4, <1>7, <2>1
  <2>3. FreshIsCurrent' BY <1>1, <1>2, <1>3, <1>4, <1>7, FreshUnwritten
  <2> QED BY <1>1, <1>2, <1>3, <1>4, <1>7, <2>2, <2>3, PastPair
<1>8. CASE proc' = Quit(proc, "crash")
  <2>1. /\ proc'.pc = "idle" /\ proc'.exit = "crash" /\ proc'.todo = <<>> BY <1>1, <1>8, QuitForm
  <2>2. MadeInv' BY <1>2, MadeSame DEF PipeInv
  <2>3. FreshIsCurrent' BY <1>1, <1>2, <2>1, FreshUnwritten
  <2>4. AheadInv' /\ SettledInv' /\ BehindInv' /\ RunInv'
    BY <2>1 DEF AheadInv, SettledInv, BehindInv, RunInv, Processing, Ran
  <2> QED BY <2>2, <2>3, <2>4
<1>9. CASE Within(proc', proc) /\ proc'.pc = "read" /\ proc'.file = proc.file
  <2>1. /\ MadeInv' /\ AheadInv' /\ BehindInv' /\ RunInv'
        /\ WorkPair' = WorkPair /\ WorkDir' = WorkDir
    BY <1>1, <1>2, <1>9, WithinPair
  <2>2. FreshIsCurrent' BY <1>1, <1>2, <1>9, FreshUnwritten
  <2>3. proc'.quiet \/ WorkPair \notin blind => proc'.file = FindFile(WorkDir, WorkPair)
    BY <1>1, <1>9 DEF PipeInv, SettledInv, Within, Kept
  <2>4. SettledInv' BY <1>2, <1>9, <2>1, <2>3 DEF SettledInv, FindFile, At
  <2> QED BY <2>1, <2>2, <2>4
<1> QED BY <1>1, <1>6, <1>7, <1>8, <1>9, StatForm

LEMMA ReadKeeps ==
    ASSUME PipeInv, Read, UNCHANGED <<fetch, blind>>
    PROVE  MadeInv' /\ AheadInv' /\ SettledInv' /\ FreshIsCurrent' /\ BehindInv' /\ RunInv'
<1> DEFINE file == At(WorkDir, WorkPair, proc.file.freq)
<1>1. /\ Processing /\ proc.pc = "read" /\ proc \in ProcState /\ proc.todo # <<>>
      /\ proc.exit = "none" /\ PipeTypes
  BY ReadForm DEF PipeInv, PipeTypes, ProcInv, RunInv
<1>2. UNCHANGED <<local, made, processed, broken>> BY <1>1, ReadForm
<1>3. "missing" \in Outcomes /\ "errors" \in Outcomes BY DEF Outcomes
<1>4. ASSUME NEW o \in Outcomes, NEW n, n = Counted(proc, o)
      PROVE  /\ n.pc \in {"idle", "find"} /\ Ran(n.todo) \subseteq Ran(proc.todo)
             /\ n.pc = "idle" => n.todo = <<>>
             /\ n.pc = "find" => n.exit = "none"
             /\ \A w \in Ran(proc.todo) : w = Head(proc.todo) \/ w \in Ran(n.todo)
             /\ n.quiet = proc.quiet /\ n.renew = proc.renew /\ n \in ProcState
  BY <1>1, <1>4, TurnForm
<1>5. proc.quiet => /\ WorkDir = DirOf(WorkPair[1]) /\ proc.file = FindFile(WorkDir, WorkPair)
  BY <1>1, NowFacts DEF PipeInv, SettledInv
<1>6. CASE \/ (file = None \/ file.size # "full") /\ proc' = Counted(proc, "errors")
           \/ file # None /\ file.ver \in Unusable /\ proc' = Counted(proc, "missing")
  <2>1. proc.quiet => Wanted(WorkPair) = None
    <3> SUFFICES ASSUME proc.quiet, Wanted(WorkPair) # None PROVE FALSE OBVIOUS
    <3>1. /\ FindFile(WorkDir, WorkPair) # NoFile /\ file.size = "full" /\ file.ver \notin Unusable
      BY <1>5, WantedIs
    <3>2. file # None BY <1>5, <3>1, FoundFile
    <3> QED BY <1>6, <3>1, <3>2
  <2>2. proc'.quiet => \A p \in {WorkPair} : Done(p)' BY <1>2, <1>3, <1>4, <1>6, <2>1, DoneWithout
  <2>3. FreshIsCurrent' BY <1>1, <1>2, <1>3, <1>4, <1>6, FreshUnwritten
  <2> QED BY <1>1, <1>2, <1>3, <1>4, <1>6, <2>2, <2>3, PastPair
<1>7. CASE proc' = [Counted(proc, "errors") EXCEPT !.quiet = FALSE]
  <2>1. PICK n : n = Counted(proc, "errors") OBVIOUS
  <2>2. n \in ProcState /\ proc' = [n EXCEPT !.quiet = FALSE] BY <1>3, <1>4, <1>7, <2>1
  <2>3. /\ proc'.pc = n.pc /\ proc'.todo = n.todo /\ proc'.exit = n.exit /\ proc'.renew = n.renew
        /\ proc'.quiet = FALSE
    BY <2>2 DEF ProcState
  <2>4. /\ n.pc \in {"idle", "find"} /\ Ran(n.todo) \subseteq Ran(proc.todo)
        /\ n.pc = "idle" => n.todo = <<>>
        /\ n.pc = "find" => n.exit = "none"
        /\ \A w \in Ran(proc.todo) : w = Head(proc.todo) \/ w \in Ran(n.todo)
        /\ n.renew = proc.renew
    BY <1>3, <1>4, <2>1
  <2>5. FreshIsCurrent' BY <1>1, <1>2, <2>3, <2>4, FreshUnwritten
  <2> QED BY <1>1, <1>2, <2>3, <2>4, <2>5, PastPair
<1>8. CASE /\ Within(proc', proc) /\ proc'.pc = "open" /\ proc'.file = proc.file
           /\ proc'.body = [dir |-> WorkDir, freq |-> proc.file.freq, ver |-> file.ver]
  <2>1. /\ MadeInv' /\ AheadInv' /\ BehindInv' /\ RunInv'
        /\ WorkPair' = WorkPair /\ WorkDir' = WorkDir
    BY <1>1, <1>2, <1>8, WithinPair
  <2>2. FreshIsCurrent' BY <1>1, <1>2, <1>8, FreshUnwritten
  <2>3. proc'.quiet \/ WorkPair \notin blind =>
           proc'.file = FindFile(WorkDir, WorkPair) /\ proc'.body = Current(WorkDir, WorkPair)
    BY <1>1, <1>8 DEF PipeInv, SettledInv, Within, Kept, Current
  <2>4. FindFile(WorkDir, WorkPair)' = FindFile(WorkDir, WorkPair)
        /\ Current(WorkDir, WorkPair)' = Current(WorkDir, WorkPair)
    BY <1>2, <2>1 DEF Current, FindFile, At
  <2>5. SettledInv' BY <1>2, <1>8, <2>1, <2>3, <2>4 DEF SettledInv
  <2> QED BY <2>1, <2>2, <2>5
<1> QED BY <1>1, <1>6, <1>7, <1>8, ReadForm

LEMMA OpenKeeps ==
    ASSUME PipeInv, OpenOutput, UNCHANGED <<fetch, blind>>
    PROVE  MadeInv' /\ AheadInv' /\ SettledInv' /\ FreshIsCurrent' /\ BehindInv' /\ RunInv'
<1>1. /\ Processing /\ proc.pc = "open" /\ PipeTypes /\ Within(proc', proc) /\ proc'.pc = "write"
      /\ proc'.named /\ proc'.file = proc.file /\ proc'.body = proc.body
      /\ UNCHANGED <<local, made, broken>>
  BY OpenForm DEF PipeInv
<1>2. \A p \in Pairs \ {WorkPair} : processed'[p] = processed[p]
  <2>1. PICK f \in Output : processed' = [processed EXCEPT ![WorkPair] = f] BY <1>1, OpenForm
  <2>2. DOMAIN processed = Pairs BY <1>1 DEF PipeTypes, TypeInv, FetchTypeOK, CatalogueTypeOK
  <2> QED BY <2>1, <2>2
<1>3. /\ MadeInv' /\ AheadInv' /\ BehindInv' /\ RunInv'
      /\ WorkPair' = WorkPair /\ WorkDir' = WorkDir
  BY <1>1, <1>2, WithinPair
<1>4. FreshIsCurrent'
  <2> SUFFICES ASSUME NEW p \in Pairs, NEW d \in Dirs, p \notin blind \cup broken',
                      ~BeingWritten(p)', d = DirOf(p[1]), FreshFrom(d, p)'
               PROVE  CurrentFrom(d, p)'
    BY <1>1, FreshIfPrimed DEF DirOf
  <2>1. p # WorkPair BY <1>1, <1>3 DEF BeingWritten
  <2> QED BY <1>1, <1>2, <2>1, FreshOthers
<1>5. proc'.quiet \/ WorkPair \notin blind =>
         proc'.file = FindFile(WorkDir, WorkPair) /\ proc'.body = Current(WorkDir, WorkPair)
  BY <1>1 DEF PipeInv, SettledInv, Within, Kept
<1>6. FindFile(WorkDir, WorkPair)' = FindFile(WorkDir, WorkPair)
      /\ Current(WorkDir, WorkPair)' = Current(WorkDir, WorkPair)
  BY <1>1, <1>3 DEF Current, FindFile, At
<1>7. SettledInv' BY <1>1, <1>3, <1>5, <1>6 DEF SettledInv
<1> QED BY <1>3, <1>4, <1>7

LEMMA CloseKeeps ==
    ASSUME PipeInv, CloseOutput, UNCHANGED <<fetch, blind>>
    PROVE  MadeInv' /\ AheadInv' /\ SettledInv' /\ FreshIsCurrent' /\ BehindInv' /\ RunInv'
<1>1. /\ Processing /\ proc.pc = "write" /\ PipeTypes /\ UNCHANGED <<local, made>>
      /\ broken' = broken \ {WorkPair} /\ proc.exit = "none" /\ proc.todo # <<>>
      /\ proc \in ProcState /\ DOMAIN processed = Pairs
  BY CloseForm DEF PipeInv, RunInv, PipeTypes, ProcInv, TypeInv, FetchTypeOK, CatalogueTypeOK
<1>2. PICK q \in ProcState : /\ Kept(q, proc) /\ q.todo = proc.todo /\ q.exit = proc.exit
                             /\ proc' = Counted(q, "saved")
  BY <1>1, CloseForm
<1>3. "saved" \in Outcomes BY DEF Outcomes
<1>4. /\ proc'.pc \in {"idle", "find"} /\ Ran(proc'.todo) \subseteq Ran(proc.todo)
      /\ proc'.pc = "idle" => proc'.todo = <<>>
      /\ proc'.pc = "find" => proc'.exit = "none"
      /\ \A w \in Ran(proc.todo) : w = Head(proc.todo) \/ w \in Ran(proc'.todo)
      /\ proc'.quiet = proc.quiet /\ proc'.renew = proc.renew
  BY <1>1, <1>2, <1>3, TurnForm DEF Kept
<1>5. PICK p \in Pairs, d \in Dirs : p = WorkPair /\ d = WorkDir BY <1>1, NowFacts
<1>6. \A r \in Pairs \ {p} : processed'[r] = processed[r] /\ (r \in broken => r \in broken')
  BY <1>1, <1>5, CloseForm
<1>7. proc.named => processed'[p] = Written(proc.body) /\ processed'[p] # None
  <2> HAVE proc.named
  <2>1. /\ Written(proc.body) \in Output
        /\ processed' = [processed EXCEPT ![WorkPair] = Written(proc.body)]
    BY <1>1, CloseForm
  <2> QED BY <1>1, <1>5, <2>1, CatalogueAssumption
<1>8. ~proc.named => processed'[p] = None
  <2> HAVE ~proc.named
  <2>1. processed' = processed BY <1>1, CloseForm
  <2> QED BY <1>1, <1>5, <2>1 DEF PipeInv, WholeInv
<1>9. proc.quiet \/ p \notin blind => proc.body = Current(d, p)
  BY <1>1, <1>5 DEF PipeInv, SettledInv
<1>10. FindFile(d, p)' = FindFile(d, p) /\ Current(d, p)' = Current(d, p)
  BY <1>1 DEF Current, FindFile, At
<1>11. FreshIsCurrent'
  <2> SUFFICES ASSUME NEW r \in Pairs, NEW e \in Dirs, r \notin blind \cup broken',
                      e = DirOf(r[1]), FreshFrom(e, r)'
               PROVE  CurrentFrom(e, r)'
    BY <1>1, FreshIfPrimed DEF DirOf
  <2>1. CASE r # p BY <1>1, <1>5, <1>6, <2>1, FreshOthers
  <2>2. CASE r = p
    <3>1. processed'[p] # None BY <2>2 DEF FreshFrom, IsFresh
    <3>2. processed'[p] = Written(proc.body) /\ proc.body = Current(d, p)
      BY <1>7, <1>8, <1>9, <2>2, <3>1
    <3>3. d = e
      <4>1. CASE d = "primary" BY <1>1, <1>5, <2>2, <4>1, NowFacts DEF DirOf
      <4>2. CASE d = "secondary"
        <5>1. Absent(p) BY <1>1, <1>5, <2>2, <4>2, NowFacts
        <5>2. e # "primary"
          <6> SUFFICES ASSUME e = "primary" PROVE FALSE OBVIOUS
          <6>1. \A f \in Freqs : At(e, p, f)' = None BY <1>1, <5>1 DEF Absent, At
          <6>2. FindFile(e, p)' = NoFile BY <6>1, FoundPrimed
          <6> QED BY <2>2, <6>2 DEF FreshFrom
        <5> QED BY <4>2, <5>2 DEF Dirs
      <4> QED BY <4>1, <4>2 DEF Dirs
    <3> QED BY <1>10, <2>2, <3>2, <3>3 DEF CurrentFrom, Written
  <2> QED BY <2>1, <2>2
<1>12. proc'.quiet => Done(p)'
  <2> SUFFICES ASSUME proc.quiet, Wanted(p) # None
               PROVE  processed'[p] # None /\ processed'[p].whole /\ processed'[p].body = Wanted(p)
    <3>1. Wanted(p)' = Wanted(p) BY <1>1 DEF Wanted, DirOf, FindFile, At
    <3> QED BY <1>4, <3>1 DEF Done
  <2>1. d = DirOf(p[1]) BY <1>1, <1>5, NowFacts
  <2>2. proc.named BY <1>1 DEF PipeInv, SettledInv
  <2>3. Wanted(p) = Current(d, p) BY <2>1, WantedIs
  <2> QED BY <1>7, <1>9, <2>2, <2>3 DEF Written
<1> QED BY <1>1, <1>4, <1>5, <1>6, <1>11, <1>12, PastPair

LEMMA FailKeeps ==
    ASSUME PipeInv, WriteFails, UNCHANGED <<fetch, blind>>
    PROVE  MadeInv' /\ AheadInv' /\ SettledInv' /\ FreshIsCurrent' /\ BehindInv' /\ RunInv'
<1>1. /\ Processing /\ PipeTypes /\ UNCHANGED <<local, made, processed>>
      /\ broken' = (IF proc.pc = "write" THEN broken \cup {WorkPair} ELSE broken)
      /\ proc.exit = "none" /\ proc.todo # <<>>
  BY FailForm DEF PipeInv, RunInv, PipeTypes, ProcInv
<1>2. PICK q : q = [proc EXCEPT !.quiet = FALSE, !.named = FALSE] OBVIOUS
<1>3. /\ q \in ProcState /\ q.todo = proc.todo /\ q.exit = proc.exit /\ q.renew = proc.renew
      /\ ~q.quiet /\ proc' = Counted(q, "errors")
  BY <1>1, <1>2 DEF WriteFails, PipeTypes, ProcInv, ProcState
<1>4. "errors" \in Outcomes BY DEF Outcomes
<1>5. /\ proc'.pc \in {"idle", "find"} /\ Ran(proc'.todo) \subseteq Ran(proc.todo)
      /\ proc'.pc = "idle" => proc'.todo = <<>>
      /\ proc'.pc = "find" => proc'.exit = "none"
      /\ \A w \in Ran(proc.todo) : w = Head(proc.todo) \/ w \in Ran(proc'.todo)
      /\ ~proc'.quiet /\ proc'.renew = proc.renew
  BY <1>1, <1>3, <1>4, TurnForm
<1>6. FreshIsCurrent' BY <1>1, <1>5, FreshUnwritten
<1>7. \A p \in Pairs \ {WorkPair} : processed'[p] = processed[p] /\ (p \in broken => p \in broken')
  BY <1>1
<1> QED BY <1>1, <1>5, <1>6, <1>7, PastPair

LEMMA KillKeeps ==
    ASSUME PipeInv, ProcessKill, UNCHANGED <<fetch, blind>>
    PROVE  MadeInv' /\ AheadInv' /\ SettledInv' /\ FreshIsCurrent' /\ BehindInv' /\ RunInv'
<1>1. /\ UNCHANGED <<local, made, processed>> /\ proc' = Quit(proc, "killed") /\ proc \in ProcState
      /\ broken' = IF proc.pc = "write" THEN broken \cup {WorkPair} ELSE broken
  BY DEF ProcessKill, catalogue, PipeInv, PipeTypes, ProcInv
<1>2. /\ proc'.pc = "idle" /\ proc'.exit = "killed" /\ proc'.todo = <<>> BY <1>1, QuitForm
<1>3. MadeInv' BY <1>1, MadeSame DEF PipeInv
<1>4. FreshIsCurrent' BY <1>1, <1>2, FreshUnwritten
<1>5. AheadInv' /\ SettledInv' /\ BehindInv' /\ RunInv'
  BY <1>2 DEF AheadInv, SettledInv, BehindInv, RunInv, Processing, Ran
<1> QED BY <1>3, <1>4, <1>5

LEMMA RanOfBoth ==
    ASSUME NEW S, NEW a \in Seq(S), NEW b \in Seq(S)
    PROVE  Ran(a \o b) = Ran(a) \cup Ran(b)
<1>1. PICK m \in Nat, n \in Nat : m = Len(a) /\ n = Len(b) OBVIOUS
<1>2. PICK c : c = a \o b OBVIOUS
<1>3. /\ Len(c) = m + n /\ c \in Seq(S) /\ DOMAIN c = 1 .. m + n
      /\ \A i \in 1 .. m + n : c[i] = IF i <= m THEN a[i] ELSE b[i - m]
  BY <1>1, <1>2
<1>4. ASSUME NEW x \in Ran(c) PROVE x \in Ran(a) \cup Ran(b)
  <2>1. PICK i \in 1 .. m + n : x = c[i] BY <1>3 DEF Ran
  <2>2. CASE i <= m
    <3>1. i \in 1 .. m /\ x = a[i] BY <1>1, <1>3, <2>1, <2>2
    <3> QED BY <1>1, <3>1 DEF Ran
  <2>3. CASE ~(i <= m)
    <3>1. i - m \in 1 .. n /\ x = b[i - m] BY <1>1, <1>3, <2>1, <2>3
    <3> QED BY <1>1, <3>1 DEF Ran
  <2> QED BY <2>2, <2>3
<1>5. ASSUME NEW x \in Ran(a) PROVE x \in Ran(c)
  <2>1. PICK i \in 1 .. m : x = a[i] BY <1>1 DEF Ran
  <2>2. i \in 1 .. m + n /\ i <= m BY <1>1, <2>1
  <2>3. c[i] = x BY <1>3, <2>1, <2>2
  <2>4. i \in DOMAIN c BY <1>3, <2>2
  <2> QED BY <2>3, <2>4 DEF Ran
<1>6. ASSUME NEW x \in Ran(b) PROVE x \in Ran(c)
  <2>1. PICK i \in 1 .. n : x = b[i] BY <1>1 DEF Ran
  <2>2. i + m \in 1 .. m + n /\ ~(i + m <= m) /\ (i + m) - m = i BY <1>1, <2>1
  <2>3. c[i + m] = x BY <1>3, <2>1, <2>2
  <2> QED BY <1>3, <2>2, <2>3 DEF Ran
<1> QED BY <1>2, <1>4, <1>5, <1>6

(* A run takes every pair from the tree DirOf says, and every pair that    *)
(* has a file. *)
LEMMA WorkListCovers ==
    ASSUME PipeTypes
    PROVE  /\ \A w \in Ran(WorkList) : w.dir = DirOf(w.pair[1])
           /\ \A p \in Toured : (\A w \in Ran(WorkList) : w.pair # p) => Wanted(p) = None
<1> DEFINE In(d, sel) == LET s == Selected(sel)
                         IN  [i \in DOMAIN s |-> [dir |-> d, pair |-> s[i]]]
<1>1. ASSUME NEW d \in Dirs, NEW sel \in SUBSET Pairs
      PROVE  /\ In(d, sel) \in Seq(Work)
             /\ \A w \in Ran(In(d, sel)) : w.dir = d /\ w.pair \in sel
             /\ \A p \in sel : p \in Toured => \E w \in Ran(In(d, sel)) : w.pair = p
  <2>1. PICK s : s = Selected(sel) /\ s \in Seq(sel)
                 /\ \A p \in sel : (\E i \in DOMAIN PairOrder : PairOrder[i] = p) =>
                       \E i \in DOMAIN s : s[i] = p
    BY SelectionAssumption
  <2>2. PICK t : t = [i \in DOMAIN s |-> [dir |-> d, pair |-> s[i]]] OBVIOUS
  <2>3. t = In(d, sel) BY <2>1, <2>2
  <2>4. \A i \in DOMAIN s : s[i] \in sel /\ t[i] = [dir |-> d, pair |-> s[i]] BY <2>1, <2>2
  <2>5. t \in Seq(Work)
    <3>1. \A i \in DOMAIN s : t[i] \in Work
      <4> TAKE i \in DOMAIN s
      <4>1. PICK q \in Pairs : q = s[i] BY <2>4
      <4>2. [dir |-> d, pair |-> q] \in Work BY DEF Work
      <4> QED BY <2>4, <4>1, <4>2
    <3> QED BY <2>1, <2>2, <3>1
  <2>6. DOMAIN t = DOMAIN s BY <2>2
  <2>7. \A w \in Ran(t) : w.dir = d /\ w.pair \in sel BY <2>4, <2>6 DEF Ran
  <2>8. \A p \in sel : p \in Toured => \E w \in Ran(t) : w.pair = p
    BY <2>1, <2>4, <2>6 DEF Ran, Toured
  <2> QED BY <2>3, <2>5, <2>7, <2>8
<1>2. PICK new \in SUBSET Pairs, old \in SUBSET Pairs :
          /\ new = {p \in Pairs : p[1] \in made}
          /\ old = {p \in Pairs : p[1] \notin made /\ InOldTree(p[1])}
  OBVIOUS
<1>3. WorkList = In("primary", new) \o In("secondary", old) BY <1>2 DEF WorkList
<1> HIDE DEF In
<1>4. "primary" \in Dirs /\ "secondary" \in Dirs BY DEF Dirs
<1>5. /\ In("primary", new) \in Seq(Work) /\ In("secondary", old) \in Seq(Work) BY <1>1, <1>4
<1>6. Ran(WorkList) = Ran(In("primary", new)) \cup Ran(In("secondary", old))
  BY <1>3, <1>5, RanOfBoth
<1>7. ASSUME NEW w \in Ran(WorkList) PROVE w.dir = DirOf(w.pair[1])
  <2>1. CASE w \in Ran(In("primary", new)) BY <1>1, <1>2, <1>4, <2>1 DEF DirOf
  <2>2. CASE w \in Ran(In("secondary", old)) BY <1>1, <1>2, <1>4, <2>2 DEF DirOf
  <2> QED BY <1>6, <2>1, <2>2
<1>8. ASSUME NEW p \in Toured, \A w \in Ran(WorkList) : w.pair # p PROVE Wanted(p) = None
  <2>1. p \in Pairs BY TouredPairs
  <2>2. p \notin new /\ p \notin old
    <3>1. CASE p \in new
      <4>1. PICK w \in Ran(In("primary", new)) : w.pair = p BY <1>1, <1>4, <3>1
      <4> QED BY <1>6, <1>8, <4>1
    <3>2. CASE p \in old
      <4>1. PICK w \in Ran(In("secondary", old)) : w.pair = p BY <1>1, <1>4, <3>2
      <4> QED BY <1>6, <1>8, <4>1
    <3> QED BY <3>1, <3>2
  <2>3. p[1] \notin made /\ ~InOldTree(p[1]) BY <1>2, <2>1, <2>2
  <2>4. DirOf(p[1]) = "secondary" BY <2>3 DEF DirOf
  <2>5. \A f \in Freqs : At("secondary", p, f) = None
    <3>1. p[2] \in Vars BY <2>1 DEF Pairs
    <3> QED BY <2>3, <3>1 DEF InOldTree, At
  <2>6. FindFile("secondary", p) = NoFile BY <2>5, FoundFile
  <2> QED BY <2>4, <2>6, WantedIs
<1> QED BY <1>7, <1>8

LEMMA StartKeeps ==
    ASSUME PipeInv, ProcessStart, UNCHANGED <<fetch, blind>>
    PROVE  MadeInv' /\ AheadInv' /\ SettledInv' /\ FreshIsCurrent' /\ BehindInv' /\ RunInv'
<1>1. /\ PipeTypes /\ proc' \in ProcState /\ proc'.todo = WorkList /\ proc.pc = "idle"
      /\ \/ WorkList = <<>> /\ proc'.pc = "idle"
         \/ WorkList # <<>> /\ proc'.pc = "find" /\ proc'.exit = "none"
      /\ UNCHANGED <<local, made, processed, broken>>
  BY StartProcForm DEF PipeInv, PipeTypes, ProcInv, ProcessStart, Processing
<1>2. MadeInv' BY <1>1, MadeSame DEF PipeInv
<1>3. AheadInv'
  <2>1. MadeInv /\ WorkList \in Seq(Work) BY WorkListIsSeq DEF PipeInv
  <2>2. ASSUME NEW w \in Ran(WorkList)
        PROVE  /\ w.dir = "primary" => w.pair[1] \in made
               /\ w.dir = "secondary" => Absent(w.pair)
               /\ w.dir = DirOf(w.pair[1])
    <3>1. w.dir = DirOf(w.pair[1]) BY <1>1, WorkListCovers
    <3>2. w \in Work BY <2>1, RanInSet
    <3>3. w.pair \in Pairs BY <3>2 DEF Work
    <3> QED BY <2>1, <3>1, <3>3 DEF MadeInv, DirOf
  <2> QED BY <1>1, <2>2 DEF AheadInv, Absent, At, DirOf
<1>4. SettledInv' BY <1>1 DEF SettledInv, Processing
<1>5. FreshIsCurrent' BY <1>1, FreshUnwritten
<1>6. BehindInv'
  <2> SUFFICES ASSUME NEW p \in Toured, \A w \in Ran(WorkList) : w.pair # p PROVE Done(p)'
    BY <1>1 DEF BehindInv, Toured
  <2>1. Wanted(p) = None BY <1>1, WorkListCovers
  <2> QED BY <1>1, <2>1, DoneWithout
<1>7. RunInv' BY <1>1 DEF RunInv, Processing
<1> QED BY <1>2, <1>3, <1>4, <1>5, <1>6, <1>7

LEMMA PipeInit ==
    ASSUME PipelineInit
    PROVE  PipeInv
<1>1. PipeTypes /\ MadeInv /\ WholeInv BY PipeTypesInit, MadeInit, WholeInit
<1>2. proc = NotProcessing /\ processed = [p \in Pairs |-> None]
  BY DEF PipelineInit, ProcessInit, FetchInit, CatalogueInit
<1>3. proc.pc = "idle" /\ proc.exit = "none" /\ proc.todo = <<>> BY <1>2, IdleProc
<1>4. ~proc.quiet BY <1>2 DEF NotProcessing
<1>5. FreshIsCurrent BY <1>2 DEF FreshIsCurrent, Skippable, IsFresh
<1> QED BY <1>1, <1>3, <1>4, <1>5
    DEF PipeInv, AheadInv, SettledInv, BehindInv, RunInv, Processing, Ran

LEMMA PipeNext ==
    ASSUME PipeInv, [PipelineNext]_pipelineVars
    PROVE  PipeInv'
<1>1. PipeTypes' BY PipeTypesNext DEF PipeInv
<1>2. WholeInv' BY WholeNext DEF PipeInv
<1>3. CASE ProcessBeside
  <2>1. ProcessNext /\ UNCHANGED <<fetch, blind>> BY <1>3 DEF ProcessBeside
  <2>2. MadeInv' /\ AheadInv' /\ SettledInv' /\ FreshIsCurrent' /\ BehindInv' /\ RunInv'
    BY <2>1, StartKeeps, FindKeeps, StatKeeps, ReadKeeps, OpenKeeps, CloseKeeps, FailKeeps,
       KillKeeps DEF ProcessNext, ProcessStep
  <2> QED BY <1>1, <1>2, <2>2 DEF PipeInv
<1>4. CASE FetchBeside BY <1>4, PipeBeside
<1>5. CASE World /\ UNCHANGED <<fetch, proc, broken, blind>>
  BY <1>1, <1>5, PipeStill DEF World, Upload, Tick
<1>6. CASE UNCHANGED pipelineVars
  BY <1>1, <1>6, PipeStill DEF pipelineVars, catalogue
<1> QED BY <1>3, <1>4, <1>5, <1>6 DEF PipelineNext

(* Beside any downloads, faults and kills, a processed file that the       *)
(* modification-time test would keep is whole and was made from the very   *)
(* version, stream and tree that processing would use now, but for the     *)
(* listed blind spots (process_and_save_model_data L644-650).              *)
THEOREM PipelineFreshness == PipelineSpec => []FreshIsCurrent
<1>1. PipelineInit => PipeInv BY PipeInit
<1>2. PipeInv /\ [PipelineNext]_pipelineVars => PipeInv' BY PipeNext
<1>3. PipeInv => FreshIsCurrent BY DEF PipeInv
<1> QED BY <1>1, <1>2, <1>3, PTL DEF PipelineSpec

(* After an undisturbed run that met no failure every pair with a source   *)
(* it can use has a whole processed file of just that source: always under *)
(* RENEW=True, else but for the blind spots (get_data L141-167).           *)
THEOREM RunsAreCurrent == PipelineSpec => []AfterRunCurrent
<1>1. PipelineInit => PipeInv BY PipeInit
<1>2. PipeInv /\ [PipelineNext]_pipelineVars => PipeInv' BY PipeNext
<1>3. PipeInv => AfterRunCurrent
  <2> SUFFICES ASSUME PipeInv, proc.exit = "ok", proc.quiet
               PROVE  \A p \in Toured : Done(p)
    BY DEF AfterRunCurrent, Done, Toured
  <2>1. proc.todo = <<>> BY DEF PipeInv, RunInv
  <2> QED BY <2>1 DEF PipeInv, BehindInv, Ran
<1> QED BY <1>1, <1>2, <1>3, PTL DEF PipelineSpec
=============================================================================
