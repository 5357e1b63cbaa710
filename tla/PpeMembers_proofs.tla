------------------------- MODULE PpeMembers_proofs -------------------------
(***************************************************************************)
(* What the extraction promises about the data, proved for every value of  *)
(* the constants: a fresh member is current, and a job that ran alone has  *)
(* logged, kept and concatenated what it published.                        *)
(***************************************************************************)
EXTENDS PpeExtract_proofs

USE DEF Targets

-----------------------------------------------------------------------------
(* The invariants. *)

Elements(s) == {s[i] : i \in DOMAIN s}

(* No gating stream of m is younger than file f. *)
NotOlder(m, f) == \A g \in Gating(m) : src[m][g].mtime <= f.mtime

(* Of a member that nothing escaped the freshness test of: what a job has  *)
(* read of it is what the sources hold.                                    *)
HasRead(r, m) ==
    /\ r.pc = "read" =>
          \A v \in Vars \ Elements(r.unread) : r.body[v] = Resolve(m, v, {})
    /\ r.pc \in {"open", "write"} => r.body = Wanted(m)

ReadCurrent(m) == \A j \in Jobs : job[j].cur = m => HasRead(job[j], m)

(* If besides no two jobs shared its temporary file, then its file, and    *)
(* the one about to be renamed, is older than a source or current.         *)
FileCurrent(m) ==
    /\ out[m] # None /\ NotOlder(m, out[m]) => out[m].body = Wanted(m)
    /\ \A j \in Jobs :
          /\ job[j].cur = m /\ job[j].pc = "publish"
          /\ tmp[m] # None /\ NotOlder(m, tmp[m])
          => tmp[m].body = Wanted(m)

CurrentInv ==
    /\ \A m \in Members \ excused : ReadCurrent(m)
    /\ \A m \in Members \ (excused \cup contended) : FileCurrent(m)

(* A job that runs alone: the others are idle, what it writes is its own   *)
(* temporary file, and what it is about to rename is what it wrote.        *)
Solo(j) ==
    LET r == job[j] IN
    /\ \A k \in Jobs \ {j} : ~Active(k)
    /\ r.pc = "write" => r.at = "tmp" /\ ~r.mixed
    /\ r.pc = "publish" => /\ tmp[r.cur] # None
                           /\ tmp[r.cur].whole
                           /\ tmp[r.cur].body = r.body

SoloInv == \A j \in Jobs : job[j].alone => Solo(j)

(* What write_group_ensemble makes of the kept paths, given the files.     *)
GroupOf(files, paths, g) ==
    [m \in Members |-> IF m \in paths /\ \E v \in GroupVars[g] : files[m].body[v] # Missing
                       THEN Restricted(files[m].body, g) ELSE None]

GroupDone(files, paths, g) == /\ files[g] # None
                              /\ files[g].whole
                              /\ files[g].body = GroupOf(files, paths, g)

(* The group loop, given a job's locals r and the files: the groups behind *)
(* it are done.                                                            *)
GroupsDone(r, files) ==
    /\ r.cur \in Groups /\ r.pc \in {"open", "write", "publish"} =>
          r.body = GroupOf(files, r.paths, r.cur)
    /\ r.cur \in Groups =>
          \A g \in Groups \ (Elements(r.todo) \cup {r.cur}) : GroupDone(files, r.paths, g)
    /\ r.pc = "idle" /\ r.exit = "ok" /\ ~r.skip =>
          \A g \in Groups : GroupDone(files, r.paths, g)

GroupsInv == \A j \in Jobs : job[j].alone => GroupsDone(job[j], out)

(* The log, given the job's locals and the files: what it says of the      *)
(* members behind the loop, and what is about to be appended, agrees with  *)
(* the files.                                                              *)
Agrees(files, row) ==
    (row.status = "missing") <=> (files[row.mem].body[row.var] = Missing)

Distinct(s) == \A i, k \in DOMAIN s : s[i] = s[k] => i = k

Logged(r, files, log) ==
    /\ \A row \in log : Agrees(files, row)
    /\ r.cur \in Members =>
          /\ Distinct(r.todo) /\ r.cur \notin Elements(r.todo)
          /\ \A row \in log : row.mem \notin Elements(r.todo) \cup {r.cur}
    /\ r.cur \in Members /\ r.pc \in {"open", "write", "publish"} =>
          r.rows = RowsOfBuild(r.cur, r.body)
    /\ r.pc = "record" \/ (r.pc = "cleanup" /\ r.ok) =>
          \A row \in r.rows : row.mem = r.cur /\ Agrees(files, row)

LoggedInv == \A j \in Jobs : job[j].alone => Logged(job[j], out, prov)

(* Without failures and edits, the members behind the loop are kept, but   *)
(* for those without a variable.                                           *)
Undisturbed == spent.faults = 0 /\ spent.edits = 0

KeptUpTo(r, ahead) ==
    \A m \in Elements(r.plan) : m \in r.paths \cup ahead \/ Wanted(m) = NoFields

Kept(r) ==
    /\ r.pc = "cleanup" => r.ok
    /\ r.cur \in Members => KeptUpTo(r, Elements(r.todo) \cup {r.cur})
    /\ r.cur \in Groups \/ (r.pc = "idle" /\ r.exit = "ok") => KeptUpTo(r, {})

KeptInv == Undisturbed => /\ excused = {}
                          /\ \A j \in Jobs : job[j].alone => Kept(job[j])

MembersInv == IInv /\ CurrentInv /\ SoloInv /\ GroupsInv /\ LoggedInv /\ KeptInv

-----------------------------------------------------------------------------
(* Sequences without their head, and the locals the loops move on with.    *)

LEMMA ElementsOfTail ==
    ASSUME NEW S, NEW s \in Seq(S), s # <<>>
    PROVE  /\ Elements(s) = {Head(s)} \cup Elements(Tail(s))
           /\ Distinct(s) => Distinct(Tail(s)) /\ Head(s) \notin Elements(Tail(s))
<1>1. /\ Len(s) \in Nat /\ Len(s) > 0 /\ DOMAIN s = 1 .. Len(s)
      /\ Tail(s) \in Seq(S) /\ Len(Tail(s)) = Len(s) - 1
      /\ DOMAIN Tail(s) = 1 .. Len(s) - 1 /\ Head(s) = s[1]
  OBVIOUS
<1>2. \A i \in DOMAIN Tail(s) : Tail(s)[i] = s[i + 1] OBVIOUS
<1>3. ASSUME NEW i \in DOMAIN s PROVE i = 1 \/ (i - 1 \in DOMAIN Tail(s) /\ s[i] = Tail(s)[i - 1])
  BY <1>1, <1>2
<1>4. \A i \in DOMAIN Tail(s) : i + 1 \in DOMAIN s /\ i + 1 # 1 BY <1>1
<1>5. Elements(s) = {Head(s)} \cup Elements(Tail(s))
  <2>1. ASSUME NEW i \in DOMAIN s PROVE s[i] \in {Head(s)} \cup Elements(Tail(s))
    BY <1>1, <1>3 DEF Elements
  <2>2. {Head(s)} \cup Elements(Tail(s)) \subseteq Elements(s) BY <1>1, <1>2, <1>4 DEF Elements
  <2> QED BY <2>1, <2>2 DEF Elements
<1>6. ASSUME Distinct(s) PROVE Distinct(Tail(s)) /\ Head(s) \notin Elements(Tail(s))
  <2>1. ASSUME NEW i \in DOMAIN Tail(s), NEW k \in DOMAIN Tail(s), Tail(s)[i] = Tail(s)[k]
        PROVE  i = k
    <3>1. i + 1 = k + 1 BY <1>2, <1>4, <1>6, <2>1 DEF Distinct
    <3> QED BY <1>1, <3>1
  <2>2. ASSUME NEW i \in DOMAIN Tail(s), Tail(s)[i] = Head(s) PROVE FALSE
    <3>1. 1 \in DOMAIN s BY <1>1
    <3> QED BY <1>1, <1>2, <1>4, <1>6, <2>2, <3>1 DEF Distinct
  <2> QED BY <2>1, <2>2 DEF Distinct, Elements
<1> QED BY <1>5, <1>6

(* What End, NextGroup, NextMember and Raise leave of a job's locals.      *)
Same(n, r) == n.plan = r.plan /\ n.paths = r.paths /\ n.alone = r.alone /\ n.skip = r.skip

LEMMA EndMoves ==
    ASSUME NEW r \in Local, NEW x \in {"none", "ok", "fail", "killed"}
    PROVE  /\ Same(End(r, x), r)
           /\ End(r, x).pc = "idle" /\ End(r, x).cur = None /\ End(r, x).exit = x
BY DEF End, Idle, Same

LEMMA NextGroupMoves ==
    ASSUME NEW r \in Local, r.todo \in Seq(Groups)
    PROVE  LET n == NextGroup(r) IN
           /\ Same(n, r)
           /\ \/ /\ r.todo = <<>> /\ n.pc = "idle" /\ n.cur = None /\ n.exit = "ok"
              \/ /\ r.todo # <<>> /\ n.pc = "concat"
                 /\ n.cur = Head(r.todo) /\ n.todo = Tail(r.todo)
<1>1. CASE r.todo = <<>> BY <1>1, EndMoves DEF NextGroup
<1>2. CASE r.todo # <<>> BY <1>2 DEF NextGroup, Same, Local
<1> QED BY <1>1, <1>2

LEMMA NextMemberMoves ==
    ASSUME NEW r \in Local, r.todo \in Seq(Members)
    PROVE  LET n == NextMember(r) IN
           /\ Same(n, r)
           /\ \/ /\ r.todo # <<>> /\ n.pc = "check"
                 /\ n.cur = Head(r.todo) /\ n.todo = Tail(r.todo)
              \/ /\ r.todo = <<>> /\ n.pc = "idle" /\ n.cur = None
                 /\ n.exit = "fail" \/ (n.exit = "ok" /\ r.skip)
              \/ /\ r.todo = <<>> /\ n.pc = "concat"
                 /\ n.cur = Head(GroupOrder) /\ n.todo = Tail(GroupOrder)
<1>1. CASE r.todo # <<>> BY <1>1 DEF NextMember, Same, Local
<1>2. CASE r.todo = <<>>
  <2> DEFINE g == [r EXCEPT !.todo = GroupOrder, !.rows = {}]
  <2>1. GroupOrder \in Seq(Groups) /\ GroupOrder \in Seq(Targets) /\ GroupOrder # <<>>
    BY NamesAssumption
  <2>2. g \in Local /\ g.todo = GroupOrder /\ Same(g, r) BY <2>1 DEF Local, Same
  <2> HIDE DEF g
  <2>3. LET n == NextGroup(g) IN
        /\ Same(n, g) /\ n.pc = "concat"
        /\ n.cur = Head(GroupOrder) /\ n.todo = Tail(GroupOrder)
    BY <2>1, <2>2, NextGroupMoves
  <2>4. \/ NextMember(r) = End(r, "fail")
        \/ (NextMember(r) = End(r, "ok") /\ r.skip)
        \/ NextMember(r) = NextGroup(g)
    BY <1>2 DEF NextMember, g
  <2> QED BY <1>2, <2>2, <2>3, <2>4, EndMoves DEF Same
<1> QED BY <1>1, <1>2

LEMMA RaiseMoves ==
    ASSUME NEW r \in Local, r.cur \in Targets
    PROVE  LET n == Raise(r) IN
           /\ Same(n, r)
           /\ \/ /\ r.cur \in Groups /\ n.pc = "idle" /\ n.cur = None /\ n.exit = "fail"
              \/ /\ r.cur \in Members /\ n.pc = "cleanup" /\ ~n.ok
                 /\ n.cur = r.cur /\ n.todo = r.todo
<1>1. CASE r.cur \in Groups BY <1>1, EndMoves DEF Raise
<1>2. CASE r.cur \notin Groups BY <1>2 DEF Raise, Same, Local
<1> QED BY <1>1, <1>2

-----------------------------------------------------------------------------
(* What a step of one job leaves of the others.                            *)

JobMoves(j) == Start(j) \/ JobStep(j) \/ MemberRaises(j) \/ WriteFails(j) \/ Kill(j)

WorldMoves == (\E m \in Members, g \in Streams : EditSource(m, g)) \/ Tick

LEMMA NextMoves ==
    ASSUME [Next]_vars
    PROVE  (\E j \in Jobs : JobMoves(j)) \/ WorldMoves \/ UNCHANGED vars
BY DEF Next, JobMoves, WorldMoves

LEMMA OthersKeep ==
    ASSUME TypeOK, NEW j \in Jobs, JobMoves(j), NEW k \in Jobs, k # j
    PROVE  /\ job'[k].pc = job[k].pc /\ job'[k].cur = job[k].cur
           /\ job'[k].body = job[k].body /\ job'[k].unread = job[k].unread
           /\ job'[k].alone => job[k].alone
<1>1. job[k] \in Local BY DEF TypeOK
<1>2. CASE Start(j)
  <2>1. job'[k] = [job[k] EXCEPT !.alone = FALSE] BY <1>2 DEF Start
  <2> QED BY <1>1, <2>1 DEF Local
<1>3. CASE OpenTmp(j)
  <2>1. job'[k] = job[k] \/ job'[k] = [job[k] EXCEPT !.mixed = TRUE] BY <1>3 DEF OpenTmp
  <2> QED BY <1>1, <2>1 DEF Local
<1>4. CASE Publish(j)
  <2>1. job'[k] = job[k] \/ job'[k] = [job[k] EXCEPT !.at = AfterRename(@)]
    BY <1>4 DEF Publish, Become, TypeOK
  <2> QED BY <1>1, <2>1 DEF Local
<1>5. CASE Cleanup(j)
  <2>1. job'[k] = job[k] \/ job'[k] = [job[k] EXCEPT !.at = "gone"] BY <1>5 DEF Cleanup
  <2> QED BY <1>1, <2>1 DEF Local
<1>6. CASE \/ Check(j) \/ Skip(j) \/ FinishWrite(j) \/ WriteFails(j) \/ Concat(j) \/ Kill(j)
  <2>1. job'[k] = job[k]
    BY <1>6 DEF Check, Skip, FinishWrite, WriteFails, Concat, Kill, Become, TypeOK
  <2> QED BY <2>1
<1>7. CASE ReadVar(j)
  <2>1. job'[k] = job[k] BY <1>7 DEF ReadVar, Become, TypeOK
  <2> QED BY <2>1
<1>8. CASE Record(j)
  <2>1. job'[k] = job[k] BY <1>8 DEF Record, Become, TypeOK
  <2> QED BY <2>1
<1>9. CASE MemberRaises(j)
  <2>1. job'[k] = job[k] BY <1>9 DEF MemberRaises, Become, TypeOK
  <2> QED BY <2>1
<1> QED BY <1>2, <1>3, <1>4, <1>5, <1>6, <1>7, <1>8, <1>9 DEF JobMoves, JobStep

(* A step of a job changes no source. *)
LEMMA SourcesStay ==
    ASSUME NEW j \in Jobs, JobMoves(j)
    PROVE  src' = src
BY DEF JobMoves, JobStep, Start, Check, Skip, ReadVar, OpenTmp, FinishWrite, MemberRaises,
       WriteFails, Publish, Cleanup, Record, Concat, Kill

(* What is wanted of a member depends on its sources alone.                *)
LEMMA SameSources ==
    ASSUME NEW m \in Members, src'[m] = src[m]
    PROVE  /\ \A v \in Vars : Resolve(m, v, {})' = Resolve(m, v, {})
           /\ Wanted(m)' = Wanted(m)
           /\ Gating(m)' = Gating(m)
<1>1. ASSUME NEW v \in Vars PROVE Resolve(m, v, {})' = Resolve(m, v, {})
  BY DEF Resolve
<1>2. Gating(m)' = Gating(m) BY DEF Gating
<1> QED BY <1>1, <1>2 DEF Wanted

(* The history of blind spots only grows. *)
LEMMA HistoryGrows ==
    ASSUME [Next]_vars
    PROVE  excused \subseteq excused' /\ contended \subseteq contended'
<1>1. ASSUME NEW j \in Jobs, JobStep(j)
      PROVE  excused \subseteq excused' /\ contended \subseteq contended'
  <2>1. CASE ReadVar(j)
    <3>1. excused' = excused \/ excused' = excused \cup {job[j].cur} BY <2>1 DEF ReadVar
    <3> QED BY <2>1, <3>1 DEF ReadVar
  <2>2. CASE ~ReadVar(j)
    BY <1>1, <2>2 DEF JobStep, Check, Skip, OpenTmp, FinishWrite, Publish, Cleanup,
                      Record, Concat
  <2> QED BY <2>1, <2>2
<1>2. ASSUME NEW j \in Jobs, Start(j) \/ MemberRaises(j) \/ WriteFails(j) \/ Kill(j)
      PROVE  excused \subseteq excused' /\ contended \subseteq contended'
  BY <1>2 DEF Start, MemberRaises, WriteFails, Kill
<1>3. ASSUME WorldMoves \/ UNCHANGED vars
      PROVE  excused \subseteq excused' /\ contended \subseteq contended'
  BY <1>3 DEF WorldMoves, EditSource, Tick, vars
<1> QED BY <1>1, <1>2, <1>3, NextMoves DEF JobMoves

-----------------------------------------------------------------------------
(* What a job has read stays what the sources hold.                        *)

(* One turn of the loop over VAR_MAP adds the first unread variable. *)
LEMMA ReadVarReads ==
    ASSUME TypeOK, NEW j \in Jobs, ReadVar(j), NEW m \in Members, job[j].cur = m,
           HasRead(job[j], m), m \notin excused'
    PROVE  LET r == job[j] IN
           /\ UNCHANGED spent
           /\ \E got \in Fields :
                 /\ \A v \in Vars \ Elements(Tail(r.unread)) : got[v] = Resolve(m, v, {})
                 /\ Tail(r.unread) = <<>> => got = Wanted(m)
                 /\ \/ /\ Tail(r.unread) # <<>>
                       /\ Become(j, [r EXCEPT !.body = got, !.unread = Tail(r.unread)])
                    \/ /\ Tail(r.unread) = <<>> /\ got = NoFields
                       /\ Become(j, NextMember([r EXCEPT !.unread = <<>>]))
                    \/ /\ Tail(r.unread) = <<>> /\ got # NoFields
                       /\ Become(j, [r EXCEPT !.pc = "open", !.body = got, !.unread = <<>>,
                                              !.rows = RowsOfBuild(r.cur, got)])
<1> DEFINE r == job[j]
           h == Head(r.unread)
           got == [r.body EXCEPT ![h] = Resolve(r.cur, h, {})]
<1>1. r \in Local /\ PhaseOK(r) /\ r.pc = "read" BY DEF TypeOK, ReadVar
<1>2. /\ r.unread \in Seq(Vars) /\ r.unread # <<>> /\ r.body \in Fields
  BY <1>1 DEF Local, PhaseOK
<1>3. /\ UNCHANGED spent
      /\ Become(j, IF Tail(r.unread) # <<>>
                   THEN [r EXCEPT !.body = got, !.unread = Tail(r.unread)]
                   ELSE IF got = NoFields
                   THEN NextMember([r EXCEPT !.unread = <<>>])
                   ELSE [r EXCEPT !.pc = "open", !.body = got, !.unread = <<>>,
                                  !.rows = RowsOfBuild(r.cur, got)])
  BY DEF ReadVar
<1>4. h \in Vars BY <1>2
<1>5. got \in Fields BY <1>2, <1>4, ResolveType DEF Fields
<1>6. ASSUME NEW v \in Vars \ Elements(Tail(r.unread))
      PROVE  got[v] = Resolve(m, v, {})
  <2>1. CASE v = h BY <1>2, <1>4, <2>1 DEF Fields
  <2>2. CASE v # h
    <3>1. v \notin Elements(r.unread) BY <1>2, <2>2, ElementsOfTail
    <3>2. r.body[v] = Resolve(m, v, {}) BY <1>1, <3>1 DEF HasRead
    <3> QED BY <1>2, <2>2, <3>2 DEF Fields
  <2> QED BY <2>1, <2>2
<1>7. ASSUME Tail(r.unread) = <<>> PROVE got = Wanted(m)
  <2>1. \A v \in Vars : got[v] = Resolve(m, v, {})
    <3>1. Elements(<<>>) = {} BY DEF Elements
    <3> QED BY <1>6, <1>7, <3>1
  <2>2. got = [v \in Vars |-> got[v]] BY <1>5 DEF Fields
  <2> HIDE DEF got
  <2> QED BY <2>1, <2>2 DEF Wanted
<1> HIDE DEF got
<1> QED BY <1>3, <1>5, <1>6, <1>7

(* Before anything is written, or while it is, a job stays at its target.  *)
LEMMA StartForm ==
    ASSUME NEW j \in Jobs, Start(j), TypeOK
    PROVE  \E plan \in Plans, q \in Local :
              /\ job'[j] = NextMember(q) /\ plan \in Seq(Members)
              /\ q.todo = plan /\ q.plan = plan /\ q.paths = {}
              /\ q.alone => \A k \in Jobs : ~Active(k)
<1>1. PICK plan \in Plans, renew \in BOOLEAN, skip \in BOOLEAN :
        job'[j] = NextMember([Idle EXCEPT !.plan = plan, !.todo = plan,
                                          !.renew = renew, !.skip = skip,
                                          !.alone = \A i \in Jobs : ~Active(i)])
  BY DEF Start
<1> DEFINE a == \A i \in Jobs : ~Active(i)
           q == [Idle EXCEPT !.plan = plan, !.todo = plan, !.renew = renew,
                             !.skip = skip, !.alone = a]
<1>2. plan \in Seq(Members) /\ plan \in Seq(Targets) BY NamesAssumption
<1>3. a \in BOOLEAN OBVIOUS
<1>4. job'[j] = NextMember(q) BY <1>1
<1> HIDE DEF a
<1>5. /\ q \in Local /\ q.todo = plan /\ q.plan = plan /\ q.paths = {} /\ q.alone = a
  BY <1>2, <1>3, IdleType DEF Local, Idle
<1> USE DEF a
<1> HIDE DEF q
<1> QED BY <1>2, <1>4, <1>5

LEMMA ReadVarForm ==
    ASSUME TypeOK, NEW j \in Jobs, ReadVar(j)
    PROVE  LET r == job[j]
               n == job'[j]
               q == [r EXCEPT !.unread = <<>>]
           IN
           /\ r.pc = "read" /\ r.cur \in Members
           /\ q \in Local /\ Same(q, r) /\ q.todo = r.todo /\ q.todo \in Seq(Members)
           /\ \/ n = NextMember(q)
              \/ n.cur = r.cur /\ n.pc \in {"read", "open"}
<1> DEFINE r == job[j]
           n == job'[j]
           q == [r EXCEPT !.unread = <<>>]
<1>1. r \in Local /\ PhaseOK(r) /\ r.pc = "read" BY DEF TypeOK, ReadVar
<1>2. r.cur \in Members /\ r.todo \in Seq(Members) BY <1>1 DEF PhaseOK
<1>3. PICK got :
        Become(j, IF Tail(r.unread) # <<>>
                  THEN [r EXCEPT !.body = got, !.unread = Tail(r.unread)]
                  ELSE IF got = NoFields
                  THEN NextMember([r EXCEPT !.unread = <<>>])
                  ELSE [r EXCEPT !.pc = "open", !.body = got, !.unread = <<>>,
                                 !.rows = RowsOfBuild(r.cur, got)])
  BY DEF ReadVar
<1>4. \/ n = [r EXCEPT !.body = got, !.unread = Tail(r.unread)]
      \/ n = NextMember(q)
      \/ n = [r EXCEPT !.pc = "open", !.body = got, !.unread = <<>>,
                       !.rows = RowsOfBuild(r.cur, got)]
  BY <1>3 DEF Become, TypeOK
<1>5. <<>> \in Seq(Vars) OBVIOUS
<1>6. q \in Local /\ Same(q, r) /\ q.todo = r.todo BY <1>1, <1>5 DEF Local, Same
<1>7. n = NextMember(q) \/ (n.cur = r.cur /\ n.pc \in {"read", "open"})
  BY <1>1, <1>4 DEF Local
<1> QED BY <1>1, <1>2, <1>6, <1>7

LEMMA JobStays ==
    ASSUME TypeOK, NEW j \in Jobs, JobMoves(j)
    PROVE  LET r == job[j]
               n == job'[j]
           IN  \/ n.pc \in {"idle", "check", "concat"}
               \/ n.cur = r.cur /\ r.pc # "idle" /\ <<r.pc, n.pc>> \in
                     {<<"check", "skip">>, <<"check", "read">>, <<"skip", "record">>,
                      <<"read", "read">>, <<"read", "open">>, <<"concat", "open">>,
                      <<"open", "write">>, <<"open", "cleanup">>, <<"write", "publish">>,
                      <<"write", "cleanup">>, <<"publish", "cleanup">>,
                      <<"cleanup", "record">>}
<1> DEFINE r == job[j]
           n == job'[j]
<1>1. r \in Local /\ Good(r) /\ PhaseOK(r) BY JobType DEF Good
<1>2. ASSUME NEW x, Become(j, x) PROVE n = x BY <1>2 DEF Become, TypeOK
<1>3. CASE Start(j)
  <2>1. PICK q \in Local : q.todo \in Seq(Members) /\ n = NextMember(q)
    BY <1>3, StartForm
  <2> QED BY <2>1, NextMemberType
<1>4. CASE Check(j)
  <2>1. \/ n = [r EXCEPT !.pc = "skip"]
        \/ n = [r EXCEPT !.pc = "read", !.unread = VarOrder]
    BY <1>2, <1>4 DEF Check
  <2>2. (n.pc = "skip" \/ n.pc = "read") /\ n.cur = r.cur BY <1>1, <2>1 DEF Local
  <2> QED BY <1>4, <2>2 DEF Check
<1>5. CASE Skip(j)
  <2>1. n = [r EXCEPT !.pc = "record", !.rows = RowsOfExisting(r.cur)]
    BY <1>2, <1>5 DEF Skip
  <2>2. n.pc = "record" /\ n.cur = r.cur BY <1>1, <2>1 DEF Local
  <2> QED BY <1>5, <2>2 DEF Skip
<1>6. CASE ReadVar(j)
  BY <1>6, ReadVarForm, NextMemberType
<1>7. CASE OpenTmp(j)
  <2>1. PICK b : n = [r EXCEPT !.pc = "write", !.at = "tmp", !.mixed = b]
    BY <1>7 DEF OpenTmp
  <2>2. n.pc = "write" /\ n.cur = r.cur BY <1>1, <2>1 DEF Local
  <2> QED BY <1>7, <2>2 DEF OpenTmp
<1>8. CASE FinishWrite(j)
  <2>1. n = [r EXCEPT !.pc = "publish", !.at = "none"] BY <1>2, <1>8 DEF FinishWrite
  <2>2. n.pc = "publish" /\ n.cur = r.cur BY <1>1, <2>1 DEF Local
  <2> QED BY <1>8, <2>2 DEF FinishWrite
<1>9. CASE WriteFails(j)
  <2>1. n = Raise(r) /\ r.pc \in {"open", "write"} BY <1>2, <1>9 DEF WriteFails
  <2>2. r.cur \in Targets BY <1>1, <2>1 DEF PhaseOK
  <2> QED BY <1>1, <2>1, <2>2, RaiseMoves
<1>10. CASE Publish(j)
  <2>1. r.pc = "publish" /\ r.cur \in Targets BY <1>1, <1>10 DEF Publish, PhaseOK
  <2>2. \/ n = Raise(r)
        \/ n = NextGroup(r) /\ r.cur \in Groups
        \/ n = [r EXCEPT !.pc = "cleanup", !.ok = TRUE]
    BY <1>2, <1>10 DEF Publish
  <2>3. CASE n = Raise(r) BY <1>1, <2>1, <2>3, RaiseMoves
  <2>4. CASE n = NextGroup(r) /\ r.cur \in Groups
    <3>1. r.todo \in Seq(Groups) BY <1>1, <2>4 DEF PhaseOK
    <3> QED BY <1>1, <2>4, <3>1, NextGroupType
  <2>5. CASE n = [r EXCEPT !.pc = "cleanup", !.ok = TRUE]
    <3>1. n.pc = "cleanup" /\ n.cur = r.cur BY <1>1, <2>5 DEF Local
    <3> QED BY <2>1, <3>1
  <2> QED BY <2>2, <2>3, <2>4, <2>5
<1>11. CASE Cleanup(j)
  <2>1. n = [r EXCEPT !.pc = "record"] \/ n = NextMember(r) BY <1>11 DEF Cleanup
  <2>2. r.pc = "cleanup" BY <1>11 DEF Cleanup
  <2>3. r.todo \in Seq(Members) BY <1>1, <2>2 DEF PhaseOK
  <2>4. CASE n = [r EXCEPT !.pc = "record"]
    <3>1. n.pc = "record" /\ n.cur = r.cur BY <1>1, <2>4 DEF Local
    <3> QED BY <2>2, <3>1
  <2>5. CASE n = NextMember(r) BY <1>1, <2>3, <2>5, NextMemberType
  <2> QED BY <2>1, <2>4, <2>5
<1>12. CASE Record(j)
  <2> DEFINE q == [r EXCEPT !.paths = @ \cup {r.cur}]
  <2>1. n = NextMember(q) BY <1>2, <1>12 DEF Record
  <2>2. r.cur \in Members /\ r.todo \in Seq(Members) BY <1>1, <1>12 DEF Record, PhaseOK
  <2>3. q \in Local /\ q.todo = r.todo BY <1>1, <2>2 DEF Local
  <2> HIDE DEF q
  <2> QED BY <2>1, <2>2, <2>3, NextMemberType
<1>13. CASE Concat(j)
  <2>1. PICK b : n = Raise(r) \/ n = [r EXCEPT !.pc = "open", !.body = b]
    BY <1>2, <1>13 DEF Concat
  <2>2. r.pc = "concat" /\ r.cur \in Groups BY <1>1, <1>13 DEF Concat, PhaseOK
  <2>3. CASE n = Raise(r) BY <1>1, <2>2, <2>3, NamesAssumption, RaiseMoves
  <2>4. CASE n = [r EXCEPT !.pc = "open", !.body = b]
    <3>1. n.pc = "open" /\ n.cur = r.cur BY <1>1, <2>4 DEF Local
    <3> QED BY <2>2, <3>1
  <2> QED BY <2>1, <2>3, <2>4
<1>14. CASE Kill(j)
  <2>1. n = End(r, "killed") BY <1>2, <1>14 DEF Kill
  <2> QED BY <1>1, <2>1, EndType
<1>15. CASE MemberRaises(j)
  BY <1>2, <1>15, MemberRaisesForm
<1> QED BY <1>3, <1>4, <1>5, <1>6, <1>7, <1>8, <1>9, <1>10, <1>11, <1>12, <1>13, <1>14, <1>15
        DEF JobMoves, JobStep

(* The program counter says which step a job takes; a killed job is idle.  *)
LEMMA JobActs ==
    ASSUME TypeOK, NEW j \in Jobs, JobMoves(j)
    PROVE  \/ Kill(j)
           \/ job[j].pc \in {"check", "skip", "read"} /\ MemberRaises(j)
           \/ job[j].pc = "idle" /\ Start(j)
           \/ job[j].pc = "check" /\ Check(j)
           \/ job[j].pc = "skip" /\ Skip(j)
           \/ job[j].pc = "read" /\ ReadVar(j)
           \/ job[j].pc = "open" /\ (OpenTmp(j) \/ WriteFails(j))
           \/ job[j].pc = "write" /\ (FinishWrite(j) \/ WriteFails(j))
           \/ job[j].pc = "publish" /\ Publish(j)
           \/ job[j].pc = "cleanup" /\ Cleanup(j)
           \/ job[j].pc = "record" /\ Record(j)
           \/ job[j].pc = "concat" /\ Concat(j)
<1>1. /\ (Start(j) => job[j].pc = "idle") /\ (Check(j) => job[j].pc = "check")
      /\ (Skip(j) => job[j].pc = "skip") /\ (ReadVar(j) => job[j].pc = "read")
  BY DEF Start, Active, Check, Skip, ReadVar
<1>2. /\ (OpenTmp(j) => job[j].pc = "open") /\ (FinishWrite(j) => job[j].pc = "write")
      /\ WriteFails(j) => job[j].pc \in {"open", "write"}
      /\ Publish(j) => job[j].pc = "publish"
  BY DEF OpenTmp, FinishWrite, WriteFails, Publish
<1>3. /\ (Cleanup(j) => job[j].pc = "cleanup") /\ (Record(j) => job[j].pc = "record")
      /\ Concat(j) => job[j].pc = "concat"
      /\ MemberRaises(j) => job[j].pc \in {"check", "skip", "read"}
  BY DEF Cleanup, Record, Concat, MemberRaises
<1> QED BY <1>1, <1>2, <1>3 DEF JobMoves, JobStep

LEMMA KillForm ==
    ASSUME TypeOK, NEW j \in Jobs, Kill(j)
    PROVE  /\ job'[j].pc = "idle" /\ job'[j].cur = None /\ job'[j].exit = "killed"
           /\ Same(job'[j], job[j])
<1>1. job'[j] = End(job[j], "killed") BY DEF Kill, Become, TypeOK
<1>2. job[j] \in Local BY DEF TypeOK
<1> QED BY <1>1, <1>2, EndMoves

LEMMA RaisesForm ==
    ASSUME TypeOK, NEW j \in Jobs, MemberRaises(j)
    PROVE  LET r == job[j]
               n == job'[j]
           IN
           /\ r.cur \in Members /\ n.pc \in {"idle", "concat", "check"}
           /\ \E q \in Local : /\ q.todo = r.todo /\ q.todo \in Seq(Members)
                             /\ Same(q, r) /\ n = NextMember(q)
           /\ spent'.faults # 0
           /\ UNCHANGED <<src, out, tmp, prov, excused>>
<1>1. \A x : Become(j, x) => job'[j] = x BY DEF Become, TypeOK
<1> QED BY <1>1, MemberRaisesForm DEF Same

LEMMA JobReads ==
    ASSUME TypeOK, NEW j \in Jobs, JobMoves(j), NEW m \in Members, ReadCurrent(m),
           m \notin excused', job'[j].cur = m
    PROVE  HasRead(job'[j], m)
<1> DEFINE r == job[j]
           n == job'[j]
<1>1. r \in Local /\ PhaseOK(r) BY JobType DEF Good
<1>2. CASE n.pc \notin {"read", "open", "write"} BY <1>2 DEF HasRead
<1>3. CASE n.pc \in {"read", "open", "write"}
  <2>1. /\ r.cur = m /\ HasRead(r, m)
        /\ <<r.pc, n.pc>> \in {<<"check", "read">>, <<"read", "read">>, <<"read", "open">>,
                                <<"concat", "open">>, <<"open", "write">>}
    BY <1>3, JobStays DEF ReadCurrent
  <2>2. r.pc # "concat" BY <1>1, <2>1, NamesAssumption DEF PhaseOK
  <2>3. CASE r.pc = "check"
    <3>1. Check(j) BY <1>1, <1>3, <2>3, JobActs, KillForm, RaisesForm
    <3>2. \/ n = [r EXCEPT !.pc = "skip"]
          \/ n = [r EXCEPT !.pc = "read", !.unread = VarOrder]
      BY <3>1 DEF Check, Become, TypeOK
    <3>3. n.pc = "read" /\ n.unread = VarOrder BY <1>1, <1>3, <3>2 DEF Local
    <3>4. Vars \ Elements(VarOrder) = {} BY OrderAssumption DEF Elements
    <3> QED BY <3>3, <3>4 DEF HasRead
  <2>4. CASE r.pc = "read"
    <3>1. ReadVar(j) BY <1>1, <1>3, <2>4, JobActs, KillForm, RaisesForm
    <3>2. PICK got \in Fields :
             /\ \A v \in Vars \ Elements(Tail(r.unread)) : got[v] = Resolve(m, v, {})
             /\ Tail(r.unread) = <<>> => got = Wanted(m)
             /\ \/ /\ Tail(r.unread) # <<>>
                   /\ Become(j, [r EXCEPT !.body = got, !.unread = Tail(r.unread)])
                \/ /\ Tail(r.unread) = <<>> /\ got = NoFields
                   /\ Become(j, NextMember([r EXCEPT !.unread = <<>>]))
                \/ /\ Tail(r.unread) = <<>> /\ got # NoFields
                   /\ Become(j, [r EXCEPT !.pc = "open", !.body = got, !.unread = <<>>,
                                          !.rows = RowsOfBuild(r.cur, got)])
      BY <2>1, <3>1, ReadVarReads
    <3>3. CASE n = [r EXCEPT !.body = got, !.unread = Tail(r.unread)]
      <4>1. n.pc = "read" /\ n.body = got /\ n.unread = Tail(r.unread)
        BY <1>1, <2>4, <3>3 DEF Local
      <4> QED BY <3>2, <4>1 DEF HasRead
    <3>4. CASE n = NextMember([r EXCEPT !.unread = <<>>])
      BY <1>3, <3>1, <3>4, ReadVarForm, NextMemberType
    <3>5. CASE /\ Tail(r.unread) = <<>>
               /\ n = [r EXCEPT !.pc = "open", !.body = got, !.unread = <<>>,
                                !.rows = RowsOfBuild(r.cur, got)]
      <4>1. n.pc = "open" /\ n.body = got BY <1>1, <3>5 DEF Local
      <4> QED BY <3>2, <3>5, <4>1 DEF HasRead
    <3> QED BY <3>2, <3>3, <3>4, <3>5 DEF Become, TypeOK
  <2>5. CASE r.pc = "open"
    <3>1. OpenTmp(j)
      <4>1. ~WriteFails(j)
        <5>1. ASSUME WriteFails(j) PROVE n = Raise(r) BY <5>1 DEF WriteFails, Become, TypeOK
        <5> QED BY <1>1, <1>3, <2>1, <5>1, RaiseMoves
      <4> QED BY <1>1, <1>3, <2>5, <4>1, JobActs, KillForm
    <3>2. PICK b : n = [r EXCEPT !.pc = "write", !.at = "tmp", !.mixed = b]
      BY <3>1 DEF OpenTmp
    <3>3. n.pc = "write" /\ n.body = r.body BY <1>1, <3>2 DEF Local
    <3> QED BY <2>1, <2>5, <3>3 DEF HasRead
  <2> QED BY <2>1, <2>2, <2>3, <2>4, <2>5
<1> QED BY <1>2, <1>3

LEMMA StepReads ==
    ASSUME TypeOK, [Next]_vars, NEW m \in Members, m \notin excused', ReadCurrent(m)
    PROVE  ReadCurrent(m)'
<1>1. ASSUME src'[m] = src[m], NEW r PROVE HasRead(r, m)' <=> HasRead(r, m)
  BY <1>1, SameSources DEF HasRead
<1>2. ASSUME NEW j \in Jobs, JobMoves(j) PROVE ReadCurrent(m)'
  <2>1. src' = src BY <1>2, SourcesStay
  <2>2. ASSUME NEW k \in Jobs, job'[k].cur = m PROVE HasRead(job[k], m)'
    <3>1. CASE k = j
      <4>1. HasRead(job'[j], m) BY <1>2, <2>2, <3>1, JobReads
      <4> QED BY <2>1, <3>1, <4>1, SameSources DEF HasRead
    <3>2. CASE k # j
      <4>1. /\ job'[k].pc = job[k].pc /\ job'[k].cur = job[k].cur
            /\ job'[k].body = job[k].body /\ job'[k].unread = job[k].unread
        BY <1>2, <3>2, OthersKeep
      <4>2. HasRead(job[k], m) BY <2>2, <4>1 DEF ReadCurrent
      <4> QED BY <2>1, <4>1, <4>2, SameSources DEF HasRead
    <3> QED BY <3>1, <3>2
  <2> QED BY <2>2 DEF ReadCurrent
<1>3. CASE job' = job /\ src'[m] = src[m]
  BY <1>3, SameSources DEF ReadCurrent, HasRead
<1>4. ASSUME NEW g \in Streams, EditSource(m, g) PROVE ReadCurrent(m)'
  <2>1. job' = job BY <1>4 DEF EditSource
  <2>2. \A k \in Jobs : ~(job[k].cur = m /\ job[k].pc \in {"read", "open", "write"})
    BY <1>4 DEF EditSource, Invisible
  <2> QED BY <2>1, <2>2 DEF ReadCurrent, HasRead
<1>5. ASSUME NEW p \in Members, p # m, NEW g \in Streams, EditSource(p, g)
      PROVE  job' = job /\ src'[m] = src[m]
  BY <1>5 DEF EditSource, TypeOK
<1>6. Tick \/ UNCHANGED vars => job' = job /\ src'[m] = src[m]
  BY DEF Tick, vars
<1> QED BY <1>2, <1>3, <1>4, <1>5, <1>6, NextMoves DEF WorldMoves

-----------------------------------------------------------------------------
(* A member's file, and the one about to be renamed, stay current.         *)

LEMMA FilesFrame ==
    ASSUME NEW m \in Members, FileCurrent(m), src'[m] = src[m],
           out'[m] = out[m], tmp'[m] = tmp[m],
           \A k \in Jobs : job'[k].cur = m /\ job'[k].pc = "publish" =>
                           job[k].cur = m /\ job[k].pc = "publish"
    PROVE  FileCurrent(m)'
<1>1. Wanted(m)' = Wanted(m) /\ Gating(m)' = Gating(m) BY SameSources
<1>2. /\ NotOlder(m, out[m])' => NotOlder(m, out[m])
      /\ NotOlder(m, tmp[m])' => NotOlder(m, tmp[m])
  BY <1>1 DEF NotOlder
<1> QED BY <1>1, <1>2 DEF FileCurrent

LEMMA JobFiles ==
    ASSUME TypeOK, NEW j \in Jobs, JobMoves(j), NEW m \in Members, m \notin contended',
           Exclusive(m), ReadCurrent(m), FileCurrent(m)
    PROVE  FileCurrent(m)'
<1> DEFINE r == job[j]
           n == job'[j]
<1>1. r \in Local /\ PhaseOK(r) BY JobType DEF Good
<1>2. src' = src /\ Wanted(m)' = Wanted(m) /\ Gating(m)' = Gating(m)
  BY SourcesStay, SameSources
<1>3. ASSUME NEW k \in Jobs, k # j, job'[k].cur = m, job'[k].pc = "publish"
      PROVE  job[k].cur = m /\ job[k].pc = "publish"
  BY <1>3, OthersKeep
<1>4. n.pc = "publish" => n.cur = r.cur /\ r.pc = "write" BY JobStays
<1>5. m \in Targets OBVIOUS
<1>6. CASE ~FinishWrite(j) /\ out'[m] = out[m] /\ tmp'[m] = tmp[m]
  <2>1. n.pc # "publish"
    <3>1. ASSUME n.pc = "publish" PROVE FALSE
      <4>1. r.pc = "write" BY <1>4, <3>1
      <4>2. Kill(j) \/ WriteFails(j) BY <1>6, <4>1, JobActs
      <4>3. ~Kill(j) BY <3>1, KillForm
      <4>4. r.cur \in Targets BY <1>1, <4>1 DEF PhaseOK
      <4>5. n = Raise(r) BY <4>2, <4>3 DEF WriteFails, Become, TypeOK
      <4> QED BY <1>1, <3>1, <4>4, <4>5, RaiseMoves
    <3> QED BY <3>1
  <2> QED BY <1>2, <1>3, <1>6, <2>1, FilesFrame
<1>7. CASE FinishWrite(j)
  <2>1. r.pc = "write" /\ r.cur \in Targets BY <1>1, <1>7 DEF FinishWrite, PhaseOK
  <2>2. PICK w \in BOOLEAN :
          LET f == [whole |-> w, mtime |-> clock, body |-> r.body] IN
          /\ tmp' = IF r.at = "tmp" THEN [tmp EXCEPT ![r.cur] = f] ELSE tmp
          /\ out' = IF r.at = "out" THEN [out EXCEPT ![r.cur] = f] ELSE out
    BY <1>7 DEF FinishWrite
  <2>3. CASE r.cur # m
    <3>1. out'[m] = out[m] /\ tmp'[m] = tmp[m] BY <2>1, <2>2, <2>3 DEF TypeOK
    <3> QED BY <1>2, <1>3, <1>4, <2>3, <3>1, FilesFrame
  <2>4. CASE r.cur = m
    <3>1. r.at # "out" /\ (r.at # "tmp" => tmp[m] = None)
      BY <2>1, <2>4 DEF Exclusive
    <3>2. r.body = Wanted(m) BY <2>1, <2>4 DEF ReadCurrent, HasRead
    <3>3. out'[m] = out[m] /\ (tmp'[m] = None \/ tmp'[m].body = Wanted(m))
      BY <2>2, <2>4, <3>1, <3>2 DEF TypeOK
    <3>4. NotOlder(m, out[m])' => NotOlder(m, out[m])
      BY <1>2, <3>3 DEF NotOlder
    <3> QED BY <1>2, <3>3, <3>4 DEF FileCurrent
  <2> QED BY <2>3, <2>4
<1>8. CASE OpenTmp(j) /\ r.cur = m
  <2>1. \A k \in Jobs : k # j => ~Busy(k, m) BY <1>8 DEF OpenTmp
  <2>2. \A k \in Jobs : ~(job'[k].cur = m /\ job'[k].pc = "publish")
    BY <1>3, <1>4, <1>8, <2>1 DEF Busy, OpenTmp
  <2>3. out' = out BY <1>8 DEF OpenTmp
  <2>4. NotOlder(m, out[m])' => NotOlder(m, out[m])
    BY <1>2, <2>3 DEF NotOlder
  <2> QED BY <1>2, <2>2, <2>3, <2>4 DEF FileCurrent
<1>9. CASE Publish(j) /\ r.cur = m /\ tmp[m] # None
  <2>1. out'[m] = tmp[m] /\ tmp'[m] = None BY <1>9 DEF Publish, TypeOK
  <2>2. NotOlder(m, out[m])' => NotOlder(m, tmp[m])
    BY <1>2, <2>1 DEF NotOlder
  <2>3. r.pc = "publish" BY <1>9 DEF Publish
  <2> QED BY <1>2, <1>9, <2>1, <2>2, <2>3 DEF FileCurrent
<1>10. CASE Cleanup(j) /\ r.cur = m
  <2>1. out' = out /\ tmp'[m] = None BY <1>10 DEF Cleanup, TypeOK
  <2>2. NotOlder(m, out[m])' => NotOlder(m, out[m])
    BY <1>2, <2>1 DEF NotOlder
  <2> QED BY <1>2, <2>1, <2>2 DEF FileCurrent
<1>11. CASE /\ ~FinishWrite(j) /\ ~(OpenTmp(j) /\ r.cur = m) /\ ~(Cleanup(j) /\ r.cur = m)
            /\ ~(Publish(j) /\ r.cur = m /\ tmp[m] # None)
  <2>1. CASE OpenTmp(j)
    <3>1. r.cur \in Targets BY <1>1, <2>1 DEF OpenTmp, PhaseOK
    <3> QED BY <1>6, <1>11, <2>1, <3>1 DEF OpenTmp, TypeOK
  <2>2. CASE Publish(j)
    <3>1. r.cur \in Targets BY <1>1, <2>2 DEF Publish, PhaseOK
    <3> QED BY <1>6, <1>11, <2>2, <3>1 DEF Publish, TypeOK
  <2>3. CASE Cleanup(j)
    <3>1. r.cur \in Targets BY <1>1, <2>3 DEF Cleanup, PhaseOK
    <3> QED BY <1>6, <1>11, <2>3, <3>1 DEF Cleanup, TypeOK
  <2>4. CASE ~OpenTmp(j) /\ ~Publish(j) /\ ~Cleanup(j)
    <3>1. out' = out /\ tmp' = tmp
      BY <1>11, <2>4 DEF JobMoves, JobStep, Start, Check, Skip, ReadVar, WriteFails,
                         MemberRaises, Record, Concat, Kill
    <3> QED BY <1>6, <1>11, <3>1
  <2> QED BY <2>1, <2>2, <2>3, <2>4
<1> QED BY <1>7, <1>8, <1>9, <1>10, <1>11

LEMMA StepFiles ==
    ASSUME TypeOK, [Next]_vars, NEW m \in Members, m \notin excused', m \notin contended',
           Exclusive(m), ReadCurrent(m), FileCurrent(m)
    PROVE  FileCurrent(m)'
<1>1. CASE job' = job /\ src'[m] = src[m] /\ UNCHANGED <<out, tmp>>
  BY <1>1, FilesFrame
<1>2. ASSUME NEW g \in Streams, EditSource(m, g) PROVE FileCurrent(m)'
  <2>1. UNCHANGED <<out, tmp, job>> BY <1>2 DEF EditSource
  <2>2. PICK new \in [ver : {spent.edits + 2}, mtime : 0 .. clock] \cup {None} :
          /\ src' = [src EXCEPT ![m][g] = new]
          /\ ~Invisible(m, g, new)
    BY <1>2 DEF EditSource
  <2>3. /\ g # Hifreq /\ new # None
        /\ out[m] # None => ~(new.mtime <= out[m].mtime)
        /\ \A k \in Jobs : /\ job[k].cur = m /\ job[k].pc = "publish"
                           /\ tmp[m] # None
                           => ~(new.mtime <= tmp[m].mtime)
    BY <2>2 DEF Invisible
  <2>4. src'[m][g] = new BY <2>2 DEF TypeOK
  <2>5. g \in Gating(m)' BY <2>3, <2>4 DEF Gating
  <2>6. ASSUME out[m] # None PROVE ~NotOlder(m, out[m])'
    BY <2>1, <2>3, <2>4, <2>5, <2>6 DEF NotOlder
  <2>7. ASSUME NEW k \in Jobs, job[k].cur = m, job[k].pc = "publish", tmp[m] # None
        PROVE  ~NotOlder(m, tmp[m])'
    BY <2>1, <2>3, <2>4, <2>5, <2>7 DEF NotOlder
  <2> QED BY <2>1, <2>6, <2>7 DEF FileCurrent
<1>3. ASSUME NEW p \in Members, p # m, NEW g \in Streams, EditSource(p, g)
      PROVE  job' = job /\ src'[m] = src[m] /\ UNCHANGED <<out, tmp>>
  BY <1>3 DEF EditSource, TypeOK
<1>4. Tick \/ UNCHANGED vars => job' = job /\ src'[m] = src[m] /\ UNCHANGED <<out, tmp>>
  BY DEF Tick, vars
<1> QED BY <1>1, <1>2, <1>3, <1>4, JobFiles, NextMoves DEF WorldMoves

LEMMA CurrentStep == IInv /\ CurrentInv /\ [Next]_vars => CurrentInv'
<1> SUFFICES ASSUME IInv, CurrentInv, [Next]_vars PROVE CurrentInv' OBVIOUS
<1>1. TypeOK /\ excused \subseteq excused' /\ contended \subseteq contended'
  BY HistoryGrows DEF IInv
<1>2. ASSUME NEW m \in Members \ excused' PROVE ReadCurrent(m) /\ ReadCurrent(m)'
  BY <1>1, StepReads DEF CurrentInv
<1>3. ASSUME NEW m \in Members \ (excused' \cup contended') PROVE FileCurrent(m)'
  <2>1. FileCurrent(m) /\ Exclusive(m) BY <1>1 DEF CurrentInv, IInv
  <2> QED BY <1>1, <1>2, <2>1, StepFiles
<1> QED BY <1>2, <1>3 DEF CurrentInv

LEMMA CurrentInit == Init => CurrentInv
<1> SUFFICES ASSUME Init PROVE CurrentInv OBVIOUS
<1>1. \A j \in Jobs : job[j].pc = "idle" BY DEF Init, Idle
<1>2. \A m \in Members : out[m] = None BY DEF Init
<1> QED BY <1>1, <1>2 DEF CurrentInv, ReadCurrent, HasRead, FileCurrent

(* A member the freshness test would skip holds what the sources hold now, *)
(* for any number of members, streams, jobs, crashes and edits, but for    *)
(* the listed blind spots of the test (member_is_fresh L342-352).          *)
THEOREM Freshness == Spec => []FreshIsCurrent
<1>1. Init => IInv /\ CurrentInv
  BY CurrentInit, InitType, InitExclusive DEF IInv
<1>2. IInv /\ CurrentInv /\ [Next]_vars => IInv' /\ CurrentInv'
  BY CurrentStep, IInvStep
<1>3. IInv /\ CurrentInv => FreshIsCurrent
  BY DEF IInv, CurrentInv, FileCurrent, Exclusive, FreshIsCurrent, MemberIsFresh, NotOlder
<1> QED BY <1>1, <1>2, <1>3, PTL DEF Spec

-----------------------------------------------------------------------------
(* What each step leaves of the job that takes it, and of the files.       *)

Keeps(n, r) == Same(n, r) /\ n.cur = r.cur /\ n.todo = r.todo

LEMMA ReadVarKeeps ==
    ASSUME TypeOK, NEW j \in Jobs, ReadVar(j)
    PROVE  LET r == job[j]
               n == job'[j]
               q == [r EXCEPT !.unread = <<>>]
           IN
           /\ r.cur \in Members
           /\ q \in Local /\ Same(q, r) /\ q.todo = r.todo /\ q.todo \in Seq(Members)
           /\ \/ n = NextMember(q)
              \/ Keeps(n, r) /\ n.pc = "read"
              \/ Keeps(n, r) /\ n.pc = "open" /\ n.rows = RowsOfBuild(n.cur, n.body)
           /\ UNCHANGED <<src, out, tmp, prov>>
           /\ UNCHANGED <<spent, excused>> \/ spent'.faults # 0
<1> DEFINE r == job[j]
           n == job'[j]
           q == [r EXCEPT !.unread = <<>>]
<1>1. r \in Local BY DEF TypeOK
<1>2. PICK got :
        Become(j, IF Tail(r.unread) # <<>>
                  THEN [r EXCEPT !.body = got, !.unread = Tail(r.unread)]
                  ELSE IF got = NoFields
                  THEN NextMember([r EXCEPT !.unread = <<>>])
                  ELSE [r EXCEPT !.pc = "open", !.body = got, !.unread = <<>>,
                                 !.rows = RowsOfBuild(r.cur, got)])
  BY DEF ReadVar
<1> DEFINE R == RowsOfBuild(r.cur, got)
<1>3. \/ n = [r EXCEPT !.body = got, !.unread = Tail(r.unread)]
      \/ n = NextMember(q)
      \/ n = [r EXCEPT !.pc = "open", !.body = got, !.unread = <<>>, !.rows = R]
  BY <1>2 DEF Become, TypeOK
<1> HIDE DEF R
<1>4. \/ n = NextMember(q)
      \/ Keeps(n, r) /\ n.pc = r.pc
      \/ Keeps(n, r) /\ n.pc = "open" /\ n.rows = R /\ n.body = got
  BY <1>1, <1>3 DEF Local, Keeps, Same
<1>5. \/ n = NextMember(q)
      \/ Keeps(n, r) /\ n.pc = "read"
      \/ Keeps(n, r) /\ n.pc = "open" /\ n.rows = RowsOfBuild(n.cur, n.body)
  BY <1>4 DEF R, Keeps, ReadVar
<1>6. UNCHANGED <<spent, excused>> \/ spent'.faults # 0
  BY BoundsAssumption DEF ReadVar, Fault, TypeOK
<1>7. UNCHANGED <<src, out, tmp, prov>> BY DEF ReadVar
<1> HIDE DEF q
<1> QED BY <1>5, <1>6, <1>7, ReadVarForm DEF q

LEMMA CheckForm ==
    ASSUME TypeOK, NEW j \in Jobs, Check(j)
    PROVE  /\ Keeps(job'[j], job[j]) /\ job'[j].pc \in {"skip", "read"}
           /\ UNCHANGED <<src, out, tmp, prov, excused, spent>>
<1>1. job[j] \in Local BY DEF TypeOK
<1>2. \/ job'[j] = [job[j] EXCEPT !.pc = "skip"]
      \/ job'[j] = [job[j] EXCEPT !.pc = "read", !.unread = VarOrder]
  BY DEF Check, Become, TypeOK
<1>3. Keeps(job'[j], job[j]) /\ job'[j].pc \in {"skip", "read"}
  BY <1>1, <1>2 DEF Local, Keeps, Same
<1> QED BY <1>3 DEF Check

LEMMA SkipForm ==
    ASSUME TypeOK, NEW j \in Jobs, Skip(j)
    PROVE  /\ Keeps(job'[j], job[j]) /\ job'[j].pc = "record"
           /\ job'[j].rows = RowsOfExisting(job[j].cur)
           /\ UNCHANGED <<src, out, tmp, prov, excused, spent>>
<1>1. job[j] \in Local BY DEF TypeOK
<1> DEFINE R == RowsOfExisting(job[j].cur)
<1>2. job'[j] = [job[j] EXCEPT !.pc = "record", !.rows = R] BY DEF Skip, Become, TypeOK
<1> HIDE DEF R
<1>3. Keeps(job'[j], job[j]) /\ job'[j].pc = "record" /\ job'[j].rows = R
  BY <1>1, <1>2 DEF Local, Keeps, Same
<1> QED BY <1>3 DEF Skip, R

LEMMA OpenTmpForm ==
    ASSUME TypeOK, NEW j \in Jobs, OpenTmp(j)
    PROVE  LET r == job[j]
               n == job'[j]
           IN
           /\ r.cur \in Targets
           /\ Keeps(n, r) /\ n.pc = "write" /\ n.at = "tmp" /\ n.body = r.body /\ n.rows = r.rows
           /\ (\A k \in Jobs \ {j} : ~Busy(k, r.cur)) => ~n.mixed
           /\ UNCHANGED <<src, out, prov, excused, spent>>
<1> DEFINE r == job[j]
           shared == {k \in {k \in Jobs \ {j} : Busy(k, r.cur)} : job[k].at = "tmp"}
           b == shared # {}
<1>1. r \in Local /\ PhaseOK(r) BY JobType DEF Good
<1>2. r.pc = "open" /\ job'[j] = [r EXCEPT !.pc = "write", !.at = "tmp", !.mixed = b]
  BY DEF OpenTmp
<1>3. (\A k \in Jobs \ {j} : ~Busy(k, r.cur)) => ~b OBVIOUS
<1> HIDE DEF b
<1>4. /\ Keeps(job'[j], r) /\ job'[j].pc = "write" /\ job'[j].at = "tmp"
      /\ job'[j].body = r.body /\ job'[j].rows = r.rows /\ job'[j].mixed = b
  BY <1>1, <1>2 DEF Local, Keeps, Same
<1>5. r.cur \in Targets BY <1>1, <1>2 DEF PhaseOK
<1> QED BY <1>3, <1>4, <1>5 DEF OpenTmp

LEMMA FinishWriteForm ==
    ASSUME TypeOK, NEW j \in Jobs, FinishWrite(j)
    PROVE  LET r == job[j]
               n == job'[j]
           IN
           /\ r.cur \in Targets
           /\ Keeps(n, r) /\ n.pc = "publish" /\ n.body = r.body /\ n.rows = r.rows
           /\ r.at = "tmp" /\ ~r.mixed =>
                 /\ out' = out
                 /\ tmp' = [tmp EXCEPT ![r.cur] = [whole |-> TRUE, mtime |-> clock,
                                                   body |-> r.body]]
           /\ UNCHANGED <<src, prov, excused, spent>>
<1> DEFINE r == job[j]
<1>1. r \in Local /\ PhaseOK(r) BY JobType DEF Good
<1>2. r.pc = "write" /\ job'[j] = [r EXCEPT !.pc = "publish", !.at = "none"]
  BY DEF FinishWrite, Become, TypeOK
<1>3. /\ Keeps(job'[j], r) /\ job'[j].pc = "publish"
      /\ job'[j].body = r.body /\ job'[j].rows = r.rows
  BY <1>1, <1>2 DEF Local, Keeps, Same
<1>4. r.cur \in Targets BY <1>1, <1>2 DEF PhaseOK
<1>5. ASSUME r.at = "tmp", ~r.mixed
      PROVE  /\ out' = out
             /\ tmp' = [tmp EXCEPT ![r.cur] = [whole |-> TRUE, mtime |-> clock,
                                               body |-> r.body]]
  BY <1>5 DEF FinishWrite
<1> QED BY <1>3, <1>4, <1>5 DEF FinishWrite

LEMMA WriteFailsForm ==
    ASSUME TypeOK, NEW j \in Jobs, WriteFails(j)
    PROVE  /\ job[j].cur \in Targets /\ job'[j] = Raise(job[j])
           /\ spent'.faults # 0
           /\ UNCHANGED <<src, out, tmp, prov, excused>>
<1>1. job[j].cur \in Targets BY JobType DEF Good, PhaseOK, WriteFails
<1>2. spent'.faults # 0 BY BoundsAssumption DEF WriteFails, Fault, TypeOK
<1> QED BY <1>1, <1>2 DEF WriteFails, Become, TypeOK

LEMMA PublishForm ==
    ASSUME TypeOK, NEW j \in Jobs, Publish(j)
    PROVE  LET r == job[j]
               n == job'[j]
               t == r.cur
           IN
           /\ t \in Targets
           /\ tmp[t] = None => n = Raise(r) /\ UNCHANGED <<out, tmp>>
           /\ tmp[t] # None =>
                 /\ out' = [out EXCEPT ![t] = tmp[t]]
                 /\ \/ t \in Groups /\ r.todo \in Seq(Groups) /\ n = NextGroup(r)
                    \/ /\ t \in Members /\ Keeps(n, r) /\ n.pc = "cleanup" /\ n.ok
                       /\ n.body = r.body /\ n.rows = r.rows
           /\ UNCHANGED <<src, prov, excused, spent>>
<1> DEFINE r == job[j]
           n == job'[j]
<1>1. r \in Local /\ PhaseOK(r) /\ r.pc = "publish" BY JobType DEF Good, Publish
<1>2. r.cur \in Targets /\ (r.cur \in Groups => r.todo \in Seq(Groups)) BY <1>1 DEF PhaseOK
<1>3. CASE tmp[r.cur] = None
  BY <1>2, <1>3 DEF Publish, Become, TypeOK
<1>4. CASE tmp[r.cur] # None
  <2>1. /\ out' = [out EXCEPT ![r.cur] = tmp[r.cur]]
        /\ n = IF r.cur \in Groups THEN NextGroup(r)
               ELSE [r EXCEPT !.pc = "cleanup", !.ok = TRUE]
    BY <1>4 DEF Publish
  <2>2. CASE r.cur \in Groups BY <1>2, <1>4, <2>1, <2>2 DEF Publish
  <2>3. CASE r.cur \notin Groups
    <3>1. /\ Keeps(n, r) /\ n.pc = "cleanup" /\ n.ok
          /\ n.body = r.body /\ n.rows = r.rows
      BY <1>1, <2>1, <2>3 DEF Local, Keeps, Same
    <3> QED BY <1>2, <1>4, <2>1, <2>3, <3>1 DEF Publish
  <2> QED BY <2>2, <2>3
<1> QED BY <1>3, <1>4

LEMMA CleanupForm ==
    ASSUME TypeOK, NEW j \in Jobs, Cleanup(j)
    PROVE  LET r == job[j]
               n == job'[j]
           IN
           /\ r.cur \in Members /\ r.todo \in Seq(Members)
           /\ \/ r.ok /\ Keeps(n, r) /\ n.pc = "record" /\ n.rows = r.rows
              \/ ~r.ok /\ n = NextMember(r)
           /\ UNCHANGED <<src, out, prov, excused, spent>>
<1> DEFINE r == job[j]
           n == job'[j]
<1>1. r \in Local /\ PhaseOK(r) /\ r.pc = "cleanup" BY JobType DEF Good, Cleanup
<1>2. r.cur \in Members /\ r.todo \in Seq(Members) BY <1>1 DEF PhaseOK
<1>3. n = IF r.ok THEN [r EXCEPT !.pc = "record"] ELSE NextMember(r) BY DEF Cleanup
<1>4. CASE r.ok
  <2>1. Keeps(n, r) /\ n.pc = "record" /\ n.rows = r.rows
    BY <1>1, <1>3, <1>4 DEF Local, Keeps, Same
  <2> QED BY <1>2, <1>4, <2>1 DEF Cleanup
<1>5. CASE ~r.ok BY <1>2, <1>3, <1>5 DEF Cleanup
<1> QED BY <1>4, <1>5

LEMMA RecordForm ==
    ASSUME TypeOK, NEW j \in Jobs, Record(j)
    PROVE  LET r == job[j]
               n == job'[j]
           IN
           /\ r.cur \in Members /\ r.todo \in Seq(Members)
           /\ \E q \in Local :
                 /\ q.todo = r.todo /\ q.paths = r.paths \cup {r.cur}
                 /\ q.plan = r.plan /\ q.alone = r.alone /\ q.skip = r.skip
                 /\ n = NextMember(q)
           /\ prov' \in {prov, prov \cup r.rows}
           /\ UNCHANGED <<src, out, tmp, excused>>
           /\ UNCHANGED spent \/ spent'.faults # 0
<1> DEFINE r == job[j]
           n == job'[j]
           q == [r EXCEPT !.paths = @ \cup {r.cur}]
<1>1. r \in Local /\ PhaseOK(r) /\ r.pc = "record" BY JobType DEF Good, Record
<1>2. r.cur \in Members /\ r.todo \in Seq(Members) BY <1>1 DEF PhaseOK
<1>3. n = NextMember(q) BY DEF Record, Become, TypeOK
<1>4. /\ q \in Local /\ q.todo = r.todo /\ q.paths = r.paths \cup {r.cur}
      /\ q.plan = r.plan /\ q.alone = r.alone /\ q.skip = r.skip
  BY <1>1, <1>2 DEF Local
<1> HIDE DEF q
<1>5. prov' \in {prov, prov \cup r.rows}
  <2>1. [job[j] EXCEPT !.paths = @ \cup {job[j].cur}].rows = r.rows BY <1>1 DEF Local
  <2> QED BY <2>1 DEF Record
<1>6. UNCHANGED spent \/ spent'.faults # 0 BY BoundsAssumption DEF Record, Fault, TypeOK
<1> QED BY <1>2, <1>3, <1>4, <1>5, <1>6 DEF Record

LEMMA ConcatForm ==
    ASSUME TypeOK, NEW j \in Jobs, Concat(j)
    PROVE  LET r == job[j]
               n == job'[j]
           IN
           /\ r.cur \in Groups
           /\ \/ n = Raise(r)
              \/ Keeps(n, r) /\ n.pc = "open" /\ n.body = GroupOf(out, r.paths, r.cur)
           /\ UNCHANGED <<src, out, tmp, prov, excused>>
           /\ UNCHANGED spent \/ spent'.faults # 0
<1> DEFINE r == job[j]
           n == job'[j]
           b == GroupOf(out, r.paths, r.cur)
<1>1. r \in Local /\ PhaseOK(r) /\ r.pc = "concat" BY JobType DEF Good, Concat
<1>2. r.cur \in Groups BY <1>1 DEF PhaseOK
<1>3. n = Raise(r) \/ n = [r EXCEPT !.pc = "open", !.body = b]
  <2> DEFINE used == {m \in r.paths : HasGroup(m, r.cur)}
             u == [m \in Members |-> IF m \in used
                       THEN Restricted(out[m].body, r.cur) ELSE None]
  <2>1. n = Raise(r) \/ n = [r EXCEPT !.pc = "open", !.body = u]
    BY DEF Concat, Become, TypeOK
  <2>2. u = b BY DEF GroupOf, HasGroup
  <2> QED BY <2>1, <2>2
<1> HIDE DEF b
<1>4. \/ n = Raise(r)
      \/ Keeps(n, r) /\ n.pc = "open" /\ n.body = b
  BY <1>1, <1>3 DEF Local, Keeps, Same
<1>5. UNCHANGED spent \/ spent'.faults # 0 BY BoundsAssumption DEF Concat, Fault, TypeOK
<1> QED BY <1>2, <1>4, <1>5 DEF Concat, b

(* Once started, a job keeps its plan and its options. *)
LEMMA OptionsStay ==
    ASSUME TypeOK, NEW j \in Jobs, JobMoves(j), ~Start(j)
    PROVE  /\ job'[j].alone = job[j].alone /\ job'[j].plan = job[j].plan
           /\ job'[j].skip = job[j].skip
<1> DEFINE r == job[j]
           n == job'[j]
<1>1. r \in Local /\ PhaseOK(r) BY JobType DEF Good
<1>2. ASSUME Same(n, r) PROVE n.alone = r.alone /\ n.plan = r.plan /\ n.skip = r.skip
  BY <1>2 DEF Same
<1>3. CASE Kill(j) BY <1>2, <1>3, KillForm
<1>4. CASE Check(j) BY <1>2, <1>4, CheckForm DEF Keeps
<1>5. CASE Skip(j) BY <1>2, <1>5, SkipForm DEF Keeps
<1>6. CASE ReadVar(j)
  <2> DEFINE q == [r EXCEPT !.unread = <<>>]
  <2>1. /\ q \in Local /\ Same(q, r) /\ q.todo \in Seq(Members)
        /\ n = NextMember(q) \/ Same(n, r)
    BY <1>6, ReadVarKeeps DEF Keeps
  <2> HIDE DEF q
  <2> QED BY <1>2, <2>1, NextMemberMoves DEF Same
<1>7. CASE OpenTmp(j) BY <1>2, <1>7, OpenTmpForm DEF Keeps
<1>8. CASE FinishWrite(j) BY <1>2, <1>8, FinishWriteForm DEF Keeps
<1>9. CASE WriteFails(j) BY <1>1, <1>2, <1>9, WriteFailsForm, RaiseMoves
<1>10. CASE Publish(j)
  BY <1>1, <1>2, <1>10, PublishForm, RaiseMoves, NextGroupMoves DEF Keeps
<1>11. CASE Cleanup(j) BY <1>1, <1>2, <1>11, CleanupForm, NextMemberMoves DEF Keeps
<1>12. CASE Record(j) BY <1>1, <1>12, RecordForm, NextMemberMoves DEF Same
<1>13. CASE Concat(j)
  <2>1. r.cur \in Targets BY <1>13, ConcatForm
  <2> QED BY <1>1, <1>2, <1>13, <2>1, ConcatForm, RaiseMoves DEF Keeps
<1>14. CASE MemberRaises(j)
  <2>1. PICK q \in Local : q.todo \in Seq(Members) /\ Same(q, r) /\ n = NextMember(q)
    BY <1>14, RaisesForm
  <2> QED BY <1>2, <2>1, NextMemberMoves DEF Same
<1> QED BY <1>3, <1>4, <1>5, <1>6, <1>7, <1>8, <1>9, <1>10, <1>11, <1>12, <1>13, <1>14
        DEF JobMoves, JobStep

(* A job that is alone after a step took that step, or nothing of its      *)
(* files, locals and log changed.                                          *)
LEMMA AloneActs ==
    ASSUME TypeOK, SoloInv, [Next]_vars, NEW j \in Jobs, job'[j].alone
    PROVE  \/ Start(j)
           \/ job[j].alone /\ Solo(j) /\ JobMoves(j) /\ ~Start(j)
           \/ job[j].alone /\ Solo(j) /\ UNCHANGED <<out, tmp, job, prov>> /\ WorldMoves
           \/ job[j].alone /\ Solo(j) /\ UNCHANGED vars
<1>1. ASSUME NEW k \in Jobs, JobMoves(k), k # j PROVE FALSE
  <2>1. job[j].alone BY <1>1, OthersKeep
  <2>2. ~Active(k) BY <1>1, <2>1 DEF SoloInv, Solo
  <2>3. Start(k)
    <3>1. ~Kill(k) BY <2>2 DEF Kill
    <3> QED BY <1>1, <2>2, <3>1, JobActs DEF Active
  <2>4. job'[j] = [job[j] EXCEPT !.alone = FALSE] BY <1>1, <2>3 DEF Start
  <2>5. job[j] \in Local BY DEF TypeOK
  <2>6. job'[j].alone = FALSE BY <2>4, <2>5 DEF Local
  <2> QED BY <2>6
<1>2. CASE JobMoves(j) /\ ~Start(j) BY <1>2, OptionsStay DEF SoloInv
<1>3. CASE WorldMoves
  <2>1. UNCHANGED <<out, tmp, job, prov>> BY <1>3 DEF WorldMoves, EditSource, Tick
  <2> QED BY <1>3, <2>1 DEF SoloInv
<1>4. CASE UNCHANGED vars BY <1>4 DEF vars, SoloInv
<1> QED BY <1>1, <1>2, <1>3, <1>4, NextMoves

LEMMA SoloStep == TypeOK /\ SoloInv /\ [Next]_vars => SoloInv'
<1> SUFFICES ASSUME TypeOK, SoloInv, [Next]_vars, NEW j \in Jobs, job'[j].alone
             PROVE  Solo(j)'
  BY DEF SoloInv
<1> DEFINE r == job[j]
           n == job'[j]
<1>1. r \in Local /\ PhaseOK(r) BY JobType DEF Good
<1>2. CASE Start(j)
  <2>1. PICK q \in Local : /\ n = NextMember(q) /\ q.todo \in Seq(Members)
                           /\ q.alone => \A k \in Jobs : ~Active(k)
    BY <1>2, StartForm
  <2>2. n.alone = q.alone /\ n.pc \in {"idle", "check", "concat"}
    BY <2>1, NextMemberMoves DEF Same
  <2>3. \A k \in Jobs \ {j} : job'[k].pc = job[k].pc
    BY <1>2, OthersKeep DEF JobMoves
  <2> QED BY <2>1, <2>2, <2>3 DEF Solo, Active
<1>3. CASE r.alone /\ Solo(j) /\ JobMoves(j) /\ ~Start(j)
  <2>1. \A k \in Jobs \ {j} : ~Active(k) /\ ~Active(k)' BY <1>3, OthersKeep DEF Solo, Active
  <2>2. ASSUME n.pc = "write" PROVE n.at = "tmp" /\ ~n.mixed
    <3>1. r.pc = "open" BY <1>3, <2>2, JobStays
    <3>2. ~Kill(j) BY <2>2, KillForm
    <3>3. ~WriteFails(j) BY <1>1, <2>2, WriteFailsForm, RaiseMoves
    <3>4. OpenTmp(j) BY <1>3, <3>1, <3>2, <3>3, JobActs
    <3>5. \A k \in Jobs \ {j} : ~Busy(k, r.cur) BY <2>1 DEF Active, Busy
    <3> QED BY <3>4, <3>5, OpenTmpForm
  <2>3. ASSUME n.pc = "publish"
        PROVE  tmp'[n.cur] # None /\ tmp'[n.cur].whole /\ tmp'[n.cur].body = n.body
    <3>1. r.pc = "write" BY <1>3, <2>3, JobStays
    <3>2. ~Kill(j) BY <2>3, KillForm
    <3>3. ~WriteFails(j) BY <1>1, <2>3, WriteFailsForm, RaiseMoves
    <3>4. FinishWrite(j) BY <1>3, <3>1, <3>2, <3>3, JobActs
    <3>5. r.at = "tmp" /\ ~r.mixed BY <1>3, <3>1 DEF Solo
    <3> DEFINE f == [whole |-> TRUE, mtime |-> clock, body |-> r.body]
    <3>6. /\ r.cur \in Targets /\ n.cur = r.cur /\ n.body = r.body
          /\ tmp' = [tmp EXCEPT ![r.cur] = f]
      BY <3>4, <3>5, FinishWriteForm DEF Keeps
    <3>7. tmp'[n.cur] = f BY <3>6 DEF TypeOK
    <3>8. f \in File BY <1>1 DEF File, TypeOK, Local
    <3>9. f # None /\ f.whole /\ f.body = r.body BY <3>8, NoneIsNoFile
    <3> HIDE DEF f
    <3> QED BY <3>6, <3>7, <3>9
  <2> QED BY <2>1, <2>2, <2>3 DEF Solo
<1>4. CASE Solo(j) /\ UNCHANGED <<out, tmp, job, prov>> BY <1>4 DEF Solo, Active
<1> QED BY <1>2, <1>3, <1>4, AloneActs DEF vars

-----------------------------------------------------------------------------
(* The group files of a job that runs alone are of the members it kept.    *)

(* Group files are not made of group files. *)
LEMMA SameMemberFiles ==
    ASSUME NEW files, NEW later, \A m \in Members : later[m] = files[m],
           NEW paths, NEW g
    PROVE  GroupOf(later, paths, g) = GroupOf(files, paths, g)
BY DEF GroupOf

LEMMA IntoGroups ==
    ASSUME NEW n, n.pc = "concat", n.cur = Head(GroupOrder), n.todo = Tail(GroupOrder)
    PROVE  /\ n.cur \in Groups /\ n.todo \in Seq(Groups)
           /\ Groups \ (Elements(n.todo) \cup {n.cur}) = {}
<1>1. GroupOrder \in Seq(Groups) /\ GroupOrder # <<>> BY NamesAssumption
<1>2. Elements(GroupOrder) = Groups BY OrderAssumption DEF Elements
<1> QED BY <1>1, <1>2, ElementsOfTail

LEMMA LeavesMembers ==
    ASSUME NEW n, n.cur \in Members, n.pc # "idle", NEW files
    PROVE  GroupsDone(n, files)
<1>1. n.cur \notin Groups BY NamesAssumption
<1> QED BY <1>1 DEF GroupsDone

LEMMA MemberLoopMoves ==
    ASSUME NEW q \in Local, q.todo \in Seq(Members), NEW files
    PROVE  GroupsDone(NextMember(q), files)
<1> DEFINE n == NextMember(q)
<1>1. CASE n.pc = "check"
  <2>1. n.cur \in Members BY <1>1, NextMemberType DEF Good, PhaseOK
  <2> QED BY <1>1, <2>1, LeavesMembers
<1>2. CASE n.pc = "idle"
  <2>1. n.cur = None /\ (n.exit = "ok" => n.skip) BY <1>2, NextMemberMoves DEF Same
  <2>2. n.cur \notin Groups BY <2>1, NamesAssumption
  <2> QED BY <1>2, <2>1, <2>2 DEF GroupsDone
<1>3. CASE n.pc = "concat"
  <2>1. n.cur = Head(GroupOrder) /\ n.todo = Tail(GroupOrder) BY <1>3, NextMemberMoves
  <2>2. Groups \ (Elements(n.todo) \cup {n.cur}) = {} BY <1>3, <2>1, IntoGroups
  <2> QED BY <1>3, <2>2 DEF GroupsDone
<1> QED BY <1>1, <1>2, <1>3, NextMemberMoves

LEMMA GroupLoopEnds ==
    ASSUME NEW n, n.pc = "idle", n.cur = None, n.exit # "ok", NEW files
    PROVE  GroupsDone(n, files)
<1>1. n.cur \notin Groups BY NamesAssumption
<1> QED BY <1>1 DEF GroupsDone

(* A group file was published: it is done, and so are those done before.   *)
LEMMA GroupLoopMoves ==
    ASSUME NEW r \in Local, r.cur \in Groups, r.todo \in Seq(Groups), NEW files, NEW later,
           r.pc = "publish", GroupsDone(r, files),
           \A t \in Targets : t # r.cur => later[t] = files[t],
           later[r.cur] # None, later[r.cur].whole, later[r.cur].body = r.body
    PROVE  GroupsDone(NextGroup(r), later)
<1> DEFINE n == NextGroup(r)
<1>1. \A m \in Members : later[m] = files[m] BY NamesAssumption
<1>2. \A g \in Groups : GroupOf(later, r.paths, g) = GroupOf(files, r.paths, g)
  BY <1>1, SameMemberFiles
<1>3. ASSUME NEW g \in Groups \ Elements(r.todo) PROVE GroupDone(later, r.paths, g)
  <2>1. CASE g = r.cur BY <1>2, <2>1 DEF GroupDone, GroupsDone
  <2>2. CASE g # r.cur
    <3>1. GroupDone(files, r.paths, g) BY <2>2 DEF GroupsDone
    <3> QED BY <1>2, <2>2, <3>1 DEF GroupDone
  <2> QED BY <2>1, <2>2
<1>4. n.paths = r.paths BY NextGroupMoves DEF Same
<1>5. CASE r.todo = <<>>
  <2>1. n.pc = "idle" /\ n.cur = None BY <1>5, NextGroupMoves
  <2>2. n.cur \notin Groups BY <2>1, NamesAssumption
  <2>3. \A g \in Groups : GroupDone(later, n.paths, g) BY <1>3, <1>4, <1>5 DEF Elements
  <2> QED BY <2>1, <2>2, <2>3 DEF GroupsDone
<1>6. CASE r.todo # <<>>
  <2>1. n.pc = "concat" /\ n.cur = Head(r.todo) /\ n.todo = Tail(r.todo)
    BY <1>6, NextGroupMoves
  <2>2. Elements(r.todo) = {n.cur} \cup Elements(n.todo) BY <1>6, <2>1, ElementsOfTail
  <2> QED BY <1>3, <1>4, <2>1, <2>2 DEF GroupsDone
<1> QED BY <1>5, <1>6

(* A step that keeps the files and the target keeps what is done. *)
LEMMA GroupsFrame ==
    ASSUME NEW r, NEW n, NEW files, GroupsDone(r, files), Keeps(n, r), r.pc # "idle", n.pc # "idle",
           n.cur \in Groups /\ n.pc \in {"open", "write", "publish"} =>
               n.body = GroupOf(files, r.paths, r.cur)
    PROVE  GroupsDone(n, files)
BY DEF GroupsDone, Keeps, Same

LEMMA JobGroups ==
    ASSUME TypeOK, NEW j \in Jobs, JobMoves(j), ~Start(j), Solo(j), GroupsDone(job[j], out)
    PROVE  GroupsDone(job'[j], out')
<1> DEFINE r == job[j]
           n == job'[j]
<1>1. r \in Local /\ PhaseOK(r) BY JobType DEF Good
<1>2. ASSUME Keeps(n, r), r.cur \in Members, n.pc # "idle" PROVE GroupsDone(n, out')
  BY <1>2, LeavesMembers DEF Keeps
<1>3. ASSUME NEW q \in Local, q.todo \in Seq(Members), n = NextMember(q)
      PROVE  GroupsDone(n, out')
  BY <1>3, MemberLoopMoves
<1>4. ASSUME r.cur \in Targets, n = Raise(r) PROVE GroupsDone(n, out')
  <2>1. CASE n.pc = "idle" BY <1>1, <1>4, <2>1, RaiseMoves, GroupLoopEnds
  <2>2. CASE n.pc # "idle" BY <1>1, <1>4, <2>2, RaiseMoves, LeavesMembers
  <2> QED BY <2>1, <2>2
<1>5. CASE Kill(j) BY <1>5, KillForm, GroupLoopEnds
<1>6. CASE Check(j) /\ r.pc = "check"
  BY <1>1, <1>2, <1>6, CheckForm DEF PhaseOK
<1>7. CASE Skip(j) /\ r.pc = "skip"
  BY <1>1, <1>2, <1>7, SkipForm DEF PhaseOK
<1>8. CASE ReadVar(j)
  <2> DEFINE q == [r EXCEPT !.unread = <<>>]
  <2>1. /\ r.cur \in Members /\ q \in Local /\ q.todo \in Seq(Members)
        /\ n = NextMember(q) \/ (Keeps(n, r) /\ n.pc # "idle")
    BY <1>8, ReadVarKeeps
  <2> HIDE DEF q
  <2> QED BY <1>2, <1>3, <2>1
<1>9. CASE OpenTmp(j) /\ r.pc = "open"
  <2>1. Keeps(n, r) /\ n.pc = "write" /\ n.body = r.body /\ out' = out
    BY <1>9, OpenTmpForm
  <2>2. n.cur \in Groups => n.body = GroupOf(out, r.paths, r.cur)
    BY <1>9, <2>1 DEF GroupsDone, Keeps
  <2> HIDE DEF n
  <2>3. GroupsDone(n, out) BY <1>9, <2>1, <2>2, GroupsFrame
  <2> QED BY <2>1, <2>3 DEF n
<1>10. CASE FinishWrite(j) /\ r.pc = "write"
  <2>1. Keeps(n, r) /\ n.pc = "publish" /\ n.body = r.body /\ out' = out
    BY <1>10, FinishWriteForm DEF Solo
  <2>2. n.cur \in Groups => n.body = GroupOf(out, r.paths, r.cur)
    BY <1>10, <2>1 DEF GroupsDone, Keeps
  <2> HIDE DEF n
  <2>3. GroupsDone(n, out) BY <1>10, <2>1, <2>2, GroupsFrame
  <2> QED BY <2>1, <2>3 DEF n
<1>11. CASE WriteFails(j) BY <1>4, <1>11, WriteFailsForm
<1>12. CASE Publish(j) /\ r.pc = "publish"
  <2>1. /\ r.cur \in Targets /\ tmp[r.cur] # None
        /\ tmp[r.cur].whole /\ tmp[r.cur].body = r.body
    BY <1>12, PublishForm DEF Solo
  <2>2. out' = [out EXCEPT ![r.cur] = tmp[r.cur]] BY <1>12, <2>1, PublishForm
  <2>3. CASE r.cur \in Groups /\ r.todo \in Seq(Groups) /\ n = NextGroup(r)
    <3>1. /\ out'[r.cur] = tmp[r.cur]
          /\ \A t \in Targets : t # r.cur => out'[t] = out[t]
      BY <2>1, <2>2 DEF TypeOK
    <3> QED BY <1>1, <1>12, <2>1, <2>3, <3>1, GroupLoopMoves
  <2>4. CASE r.cur \in Members /\ Keeps(n, r) /\ n.pc = "cleanup"
    BY <1>2, <2>4
  <2> QED BY <1>12, <2>1, <2>3, <2>4, PublishForm
<1>13. CASE Cleanup(j) BY <1>1, <1>2, <1>3, <1>13, CleanupForm
<1>14. CASE Record(j)
  <2>1. PICK q \in Local : q.todo = r.todo /\ n = NextMember(q) BY <1>14, RecordForm
  <2> QED BY <1>3, <1>14, <2>1, RecordForm
<1>15. CASE Concat(j) /\ r.pc = "concat"
  <2>1. r.cur \in Groups /\ r.cur \in Targets /\ out' = out BY <1>15, ConcatForm
  <2>2. CASE n = Raise(r) BY <1>4, <2>1, <2>2
  <2>3. CASE Keeps(n, r) /\ n.pc = "open" /\ n.body = GroupOf(out, r.paths, r.cur)
    <3> HIDE DEF n
    <3>1. GroupsDone(n, out) BY <1>15, <2>3, GroupsFrame
    <3> QED BY <2>1, <3>1 DEF n
  <2> QED BY <1>15, <2>2, <2>3, ConcatForm
<1>16. CASE MemberRaises(j) BY <1>3, <1>16, RaisesForm
<1> QED BY <1>5, <1>6, <1>7, <1>8, <1>9, <1>10, <1>11, <1>12, <1>13, <1>14, <1>15, <1>16,
           JobActs

LEMMA GroupsStep == TypeOK /\ SoloInv /\ GroupsInv /\ [Next]_vars => GroupsInv'
<1> SUFFICES ASSUME TypeOK, SoloInv, GroupsInv, [Next]_vars, NEW j \in Jobs, job'[j].alone
             PROVE  GroupsDone(job'[j], out')
  BY DEF GroupsInv
<1>1. CASE Start(j)
  <2>1. PICK q \in Local : job'[j] = NextMember(q) /\ q.todo \in Seq(Members)
    BY <1>1, StartForm
  <2> QED BY <2>1, MemberLoopMoves
<1>2. CASE job[j].alone /\ Solo(j) /\ JobMoves(j) /\ ~Start(j)
  BY <1>2, JobGroups DEF GroupsInv
<1>3. CASE job[j].alone /\ job' = job /\ out' = out
  BY <1>3 DEF GroupsInv
<1> QED BY <1>1, <1>2, <1>3, AloneActs DEF vars

-----------------------------------------------------------------------------
(* The log of a job that runs alone agrees with the files.                 *)

LEMMA LoggedMember ==
    ASSUME NEW r, NEW n, NEW files, NEW log, Logged(r, files, log), r.cur \in Members,
           Keeps(n, r),
           n.pc \in {"open", "write", "publish"} => n.rows = RowsOfBuild(n.cur, n.body),
           n.pc = "record" \/ (n.pc = "cleanup" /\ n.ok) =>
               \A row \in n.rows : row.mem = n.cur /\ Agrees(files, row)
    PROVE  Logged(n, files, log)
BY DEF Logged, Keeps

LEMMA LoggedElsewhere ==
    ASSUME NEW n, n.cur \notin Members, n.pc \notin {"cleanup", "record"}, NEW files, NEW log,
           \A row \in log : Agrees(files, row)
    PROVE  Logged(n, files, log)
BY DEF Logged

LEMMA LoggedMoves ==
    ASSUME NEW q \in Local, q.todo \in Seq(Members), Distinct(q.todo), NEW files, NEW log,
           \A row \in log : Agrees(files, row) /\ row.mem \notin Elements(q.todo)
    PROVE  Logged(NextMember(q), files, log)
<1> DEFINE n == NextMember(q)
<1>1. CASE n.pc = "check"
  <2>1. q.todo # <<>> /\ n.cur = Head(q.todo) /\ n.todo = Tail(q.todo)
    BY <1>1, NextMemberMoves
  <2>2. /\ Elements(q.todo) = {n.cur} \cup Elements(n.todo)
        /\ Distinct(n.todo) /\ n.cur \notin Elements(n.todo)
    BY <2>1, ElementsOfTail
  <2> QED BY <1>1, <2>2 DEF Logged
<1>2. CASE n.pc # "check"
  <2>1. n.cur \notin Members /\ n.pc \notin {"cleanup", "record"}
    <3>1. Head(GroupOrder) \in Groups BY NamesAssumption
    <3> QED BY <1>2, <3>1, NextMemberMoves, NamesAssumption
  <2> QED BY <2>1, LoggedElsewhere
<1> QED BY <1>1, <1>2

LEMMA RowsOfBuildAgree ==
    ASSUME NEW m, NEW fields, NEW files, files[m].body = fields,
           NEW row \in RowsOfBuild(m, fields)
    PROVE  row.mem = m /\ Agrees(files, row)
<1>1. PICK v \in Vars : row = [mem |-> m, var |-> v, status |-> Status(fields[v])]
  BY DEF RowsOfBuild
<1>2. Status(fields[v]) = "missing" <=> fields[v] = Missing BY DEF Status
<1> QED BY <1>1, <1>2 DEF Agrees

LEMMA RowsOfExistingAgree ==
    ASSUME NEW m, NEW row \in RowsOfExisting(m)
    PROVE  row.mem = m /\ Agrees(out, row)
<1>1. PICK v \in Vars :
        row = [mem |-> m, var |-> v,
               status |-> IF out[m].body[v] = Missing THEN "missing" ELSE "monthly"]
  BY DEF RowsOfExisting
<1> QED BY <1>1 DEF Agrees

LEMMA JobLogs ==
    ASSUME TypeOK, NEW j \in Jobs, JobMoves(j), ~Start(j), Solo(j), Logged(job[j], out, prov)
    PROVE  Logged(job'[j], out', prov')
<1> DEFINE r == job[j]
           n == job'[j]
<1>1. r \in Local /\ PhaseOK(r) /\ prov \in SUBSET Row BY JobType DEF Good, TypeOK
<1>2. \A row \in prov : Agrees(out, row) BY DEF Logged
<1>3. ASSUME r.cur \in Members
      PROVE  /\ Distinct(r.todo) /\ r.cur \notin Elements(r.todo)
             /\ \A row \in prov : row.mem \notin Elements(r.todo)
  BY <1>3 DEF Logged
<1>4. ASSUME r.cur \in Targets, n = Raise(r), out' = out, prov' = prov
      PROVE  Logged(n, out', prov')
  <2>1. CASE r.cur \in Groups
    <3>1. n.cur \notin Members /\ n.pc = "idle"
      BY <1>1, <1>4, <2>1, RaiseMoves, NamesAssumption
    <3> QED BY <1>2, <1>4, <3>1, LoggedElsewhere
  <2>2. CASE r.cur \notin Groups
    <3>1. Keeps(n, r) /\ n.pc = "cleanup" /\ ~n.ok /\ r.cur \in Members
      BY <1>1, <1>4, <2>2, RaiseMoves DEF Keeps
    <3> QED BY <1>4, <3>1, LoggedMember
  <2> QED BY <2>1, <2>2
<1>5. CASE Kill(j)
  <2>1. n.cur \notin Members /\ n.pc = "idle" BY <1>5, KillForm, NamesAssumption
  <2>2. out' = out /\ prov' = prov BY <1>5 DEF Kill
  <2> QED BY <1>2, <2>1, <2>2, LoggedElsewhere
<1>6. CASE Check(j) /\ r.pc = "check"
  <2>1. r.cur \in Members BY <1>1, <1>6 DEF PhaseOK
  <2>2. Keeps(n, r) /\ n.pc \in {"skip", "read"} /\ out' = out /\ prov' = prov
    BY <1>6, CheckForm
  <2> QED BY <2>1, <2>2, LoggedMember
<1>7. CASE Skip(j) /\ r.pc = "skip"
  <2>1. r.cur \in Members BY <1>1, <1>7 DEF PhaseOK
  <2>2. Keeps(n, r) /\ n.pc = "record" /\ n.rows = RowsOfExisting(r.cur)
        /\ out' = out /\ prov' = prov
    BY <1>7, SkipForm
  <2>3. \A row \in n.rows : row.mem = n.cur /\ Agrees(out, row)
    BY <2>2, RowsOfExistingAgree DEF Keeps
  <2> QED BY <2>1, <2>2, <2>3, LoggedMember
<1>8. CASE ReadVar(j)
  <2> DEFINE q == [r EXCEPT !.unread = <<>>]
  <2>1. /\ r.cur \in Members /\ q \in Local /\ q.todo = r.todo /\ q.todo \in Seq(Members)
        /\ out' = out /\ prov' = prov
        /\ \/ n = NextMember(q)
           \/ Keeps(n, r) /\ n.pc = "read"
           \/ Keeps(n, r) /\ n.pc = "open" /\ n.rows = RowsOfBuild(n.cur, n.body)
    BY <1>8, ReadVarKeeps
  <2> HIDE DEF q
  <2>2. CASE n = NextMember(q) BY <1>2, <1>3, <2>1, <2>2, LoggedMoves
  <2>3. CASE Keeps(n, r) /\ (n.pc = "open" => n.rows = RowsOfBuild(n.cur, n.body))
             /\ n.pc \in {"read", "open"}
    BY <2>1, <2>3, LoggedMember
  <2> QED BY <2>1, <2>2, <2>3
<1>9. CASE (OpenTmp(j) /\ r.pc = "open") \/ (FinishWrite(j) /\ r.pc = "write")
  <2>1. /\ r.cur \in Targets /\ Keeps(n, r) /\ n.pc \in {"write", "publish"}
        /\ n.body = r.body /\ n.rows = r.rows /\ out' = out /\ prov' = prov
    BY <1>9, OpenTmpForm, FinishWriteForm DEF Solo
  <2>2. CASE r.cur \in Members
    <3>1. n.rows = RowsOfBuild(n.cur, n.body) BY <1>9, <2>1, <2>2 DEF Logged, Keeps
    <3> QED BY <2>1, <2>2, <3>1, LoggedMember
  <2>3. CASE r.cur \notin Members
    <3>1. n.cur \notin Members BY <2>1, <2>3 DEF Keeps
    <3> QED BY <1>2, <2>1, <3>1, LoggedElsewhere
  <2> QED BY <2>2, <2>3
<1>10. CASE WriteFails(j) BY <1>4, <1>10, WriteFailsForm
<1>11. CASE Publish(j) /\ r.pc = "publish"
  <2>1. /\ r.cur \in Targets /\ tmp[r.cur] # None /\ tmp[r.cur].body = r.body /\ prov' = prov
    BY <1>11, PublishForm DEF Solo
  <2>2. out' = [out EXCEPT ![r.cur] = tmp[r.cur]] BY <1>11, <2>1, PublishForm
  <2>3. ASSUME NEW row \in prov PROVE row.mem # r.cur /\ Agrees(out', row)
    <3>1. row.mem \in Members BY <1>1 DEF Row
    <3>2. row.mem # r.cur
      BY <3>1, NamesAssumption DEF Logged
    <3>3. out'[row.mem] = out[row.mem] BY <2>2, <3>1, <3>2 DEF TypeOK
    <3> QED BY <1>2, <3>2, <3>3 DEF Agrees
  <2>4. CASE r.cur \in Groups /\ r.todo \in Seq(Groups) /\ n = NextGroup(r)
    <3>1. r.todo # <<>> => Head(r.todo) \in Groups BY <2>4
    <3>2. n.cur \notin Members /\ n.pc \in {"idle", "concat"}
      BY <1>1, <2>4, <3>1, NextGroupMoves, NamesAssumption
    <3> QED BY <2>1, <2>3, <3>2, LoggedElsewhere
  <2>5. CASE /\ r.cur \in Members /\ Keeps(n, r) /\ n.pc = "cleanup" /\ n.ok
             /\ n.body = r.body /\ n.rows = r.rows
    <3>1. out'[r.cur] = tmp[r.cur] BY <2>1, <2>2 DEF TypeOK
    <3>2. r.rows = RowsOfBuild(r.cur, r.body) BY <1>11, <2>5 DEF Logged
    <3>3. \A row \in n.rows : row.mem = n.cur /\ Agrees(out', row)
      BY <2>1, <2>5, <3>1, <3>2, RowsOfBuildAgree DEF Keeps
    <3> QED BY <1>3, <2>1, <2>3, <2>5, <3>3 DEF Logged, Keeps
  <2> QED BY <1>11, <2>1, <2>4, <2>5, PublishForm
<1>12. CASE Cleanup(j) /\ r.pc = "cleanup"
  <2>1. /\ r.cur \in Members /\ r.todo \in Seq(Members) /\ out' = out /\ prov' = prov
        /\ \/ r.ok /\ Keeps(n, r) /\ n.pc = "record" /\ n.rows = r.rows
           \/ n = NextMember(r)
    BY <1>12, CleanupForm
  <2>2. CASE n = NextMember(r) BY <1>1, <1>2, <1>3, <2>1, <2>2, LoggedMoves
  <2>3. CASE r.ok /\ Keeps(n, r) /\ n.pc = "record" /\ n.rows = r.rows
    <3>1. \A row \in n.rows : row.mem = n.cur /\ Agrees(out, row)
      BY <1>12, <2>3 DEF Logged, Keeps
    <3> QED BY <2>1, <2>3, <3>1, LoggedMember
  <2> QED BY <2>1, <2>2, <2>3
<1>13. CASE Record(j) /\ r.pc = "record"
  <2>1. /\ r.cur \in Members /\ r.todo \in Seq(Members) /\ out' = out
        /\ prov' \in {prov, prov \cup r.rows}
    BY <1>13, RecordForm
  <2>2. PICK q \in Local : q.todo = r.todo /\ n = NextMember(q) BY <1>13, RecordForm
  <2>3. \A row \in r.rows : row.mem = r.cur /\ Agrees(out, row) BY <1>13 DEF Logged
  <2>4. \A row \in prov' : Agrees(out, row) /\ row.mem \notin Elements(r.todo)
    BY <1>2, <1>3, <2>1, <2>3
  <2> QED BY <1>3, <2>1, <2>2, <2>4, LoggedMoves
<1>14. CASE Concat(j)
  <2>1. r.cur \in Groups /\ out' = out /\ prov' = prov BY <1>14, ConcatForm
  <2>2. CASE n = Raise(r) BY <1>4, <2>1, <2>2
  <2>3. CASE Keeps(n, r) /\ n.pc = "open"
    <3>1. n.cur \notin Members BY <2>1, <2>3, NamesAssumption DEF Keeps
    <3> QED BY <1>2, <2>1, <2>3, <3>1, LoggedElsewhere
  <2> QED BY <1>14, <2>2, <2>3, ConcatForm
<1>15. CASE MemberRaises(j)
  <2>1. r.cur \in Members /\ out' = out /\ prov' = prov BY <1>15, RaisesForm
  <2>2. PICK q \in Local : q.todo = r.todo /\ q.todo \in Seq(Members) /\ n = NextMember(q)
    BY <1>15, RaisesForm
  <2> QED BY <1>2, <1>3, <2>1, <2>2, LoggedMoves
<1> QED BY <1>5, <1>6, <1>7, <1>8, <1>9, <1>10, <1>11, <1>12, <1>13, <1>14, <1>15, JobActs

LEMMA LoggedStep == TypeOK /\ SoloInv /\ LoggedInv /\ [Next]_vars => LoggedInv'
<1> SUFFICES ASSUME TypeOK, SoloInv, LoggedInv, [Next]_vars, NEW j \in Jobs, job'[j].alone
             PROVE  Logged(job'[j], out', prov')
  BY DEF LoggedInv
<1>1. CASE Start(j)
  <2>1. PICK plan \in Plans, q \in Local :
          job'[j] = NextMember(q) /\ q.todo = plan /\ plan \in Seq(Members)
    BY <1>1, StartForm
  <2>2. Distinct(q.todo) BY <2>1, OrderAssumption DEF Distinct
  <2>3. prov' = {} BY <1>1 DEF Start
  <2> QED BY <2>1, <2>2, <2>3, LoggedMoves
<1>2. CASE job[j].alone /\ Solo(j) /\ JobMoves(j) /\ ~Start(j)
  BY <1>2, JobLogs DEF LoggedInv
<1>3. CASE job[j].alone /\ job' = job /\ out' = out /\ prov' = prov
  BY <1>3 DEF LoggedInv
<1> QED BY <1>1, <1>2, <1>3, AloneActs DEF vars


-----------------------------------------------------------------------------
(* Undisturbed, a job that runs alone keeps every member it can.           *)

LEMMA KeptMoves ==
    ASSUME NEW q \in Local, q.todo \in Seq(Members), KeptUpTo(q, Elements(q.todo))
    PROVE  Kept(NextMember(q))
<1> DEFINE n == NextMember(q)
<1>1. n.plan = q.plan /\ n.paths = q.paths BY NextMemberMoves DEF Same
<1>2. CASE n.pc = "check"
  <2>1. q.todo # <<>> /\ n.cur = Head(q.todo) /\ n.todo = Tail(q.todo)
    BY <1>2, NextMemberMoves
  <2>2. Elements(q.todo) = Elements(n.todo) \cup {n.cur} BY <2>1, ElementsOfTail
  <2>3. n.cur \in Members BY <2>1
  <2>4. n.cur \notin Groups BY <2>3, NamesAssumption
  <2> HIDE DEF n
  <2>5. KeptUpTo(n, Elements(n.todo) \cup {n.cur}) BY <1>1, <2>2 DEF KeptUpTo
  <2> QED BY <1>2, <2>4, <2>5 DEF Kept, n
<1>3. CASE n.pc # "check"
  <2>1. q.todo = <<>> /\ n.pc \in {"idle", "concat"} BY <1>3, NextMemberMoves
  <2>2. n.cur \notin Members
    <3>1. Head(GroupOrder) \in Groups BY NamesAssumption
    <3> QED BY <1>3, <3>1, NextMemberMoves, NamesAssumption
  <2>3. Elements(q.todo) = {} BY <2>1 DEF Elements
  <2> HIDE DEF n
  <2>4. KeptUpTo(n, {}) BY <1>1, <2>3 DEF KeptUpTo
  <2> QED BY <2>1, <2>2, <2>4 DEF Kept, n
<1> QED BY <1>2, <1>3

LEMMA KeptAtTarget ==
    ASSUME NEW r, NEW n, Kept(r), Keeps(n, r), n.pc # "idle", n.pc = "cleanup" => n.ok
    PROVE  Kept(n)
BY DEF Kept, Keeps, Same, KeptUpTo

LEMMA KeptNextGroup ==
    ASSUME NEW r \in Local, r.cur \in Groups, r.todo \in Seq(Groups), Kept(r)
    PROVE  Kept(NextGroup(r))
<1> DEFINE n == NextGroup(r)
<1>1. n.plan = r.plan /\ n.paths = r.paths BY NextGroupMoves DEF Same
<1>2. n.pc \in {"idle", "concat"} BY NextGroupMoves
<1>3. n.cur \notin Members
  <2>1. r.todo # <<>> => Head(r.todo) \in Groups OBVIOUS
  <2> QED BY <2>1, NextGroupMoves, NamesAssumption
<1> HIDE DEF n
<1>4. KeptUpTo(n, {}) BY <1>1 DEF Kept, KeptUpTo
<1> QED BY <1>2, <1>3, <1>4 DEF Kept, n

LEMMA KeptEnds ==
    ASSUME NEW n, n.pc = "idle", n.cur = None, n.exit # "ok"
    PROVE  Kept(n)
BY NamesAssumption DEF Kept

LEMMA JobKept ==
    ASSUME TypeOK, NEW j \in Jobs, JobMoves(j), ~Start(j), Solo(j), Kept(job[j]),
           \A m \in Members : ReadCurrent(m),
           excused' = {}, spent'.faults = 0
    PROVE  Kept(job'[j])
<1> DEFINE r == job[j]
           n == job'[j]
<1>1. r \in Local /\ PhaseOK(r) BY JobType DEF Good
<1>2. ~WriteFails(j) /\ ~MemberRaises(j) BY WriteFailsForm, RaisesForm
<1>3. ASSUME r.cur \in Groups, n = Raise(r) PROVE Kept(n)
  <2>1. n.pc = "idle" /\ n.cur = None /\ n.exit = "fail"
    BY <1>1, <1>3, RaiseMoves, NamesAssumption
  <2> QED BY <2>1, KeptEnds
<1>4. CASE Kill(j) BY <1>4, KillForm, KeptEnds
<1>5. CASE Check(j) BY <1>5, CheckForm, KeptAtTarget
<1>6. CASE Skip(j) BY <1>6, SkipForm, KeptAtTarget
<1>7. CASE ReadVar(j)
  <2> DEFINE q == [r EXCEPT !.unread = <<>>]
  <2>1. /\ r.cur \in Members
        /\ q \in Local /\ Same(q, r) /\ q.todo = r.todo /\ q.todo \in Seq(Members)
        /\ \/ n = NextMember(q)
           \/ Keeps(n, r) /\ n.pc \in {"read", "open"}
    BY <1>7, ReadVarKeeps
  <2>2. CASE Keeps(n, r) /\ n.pc \in {"read", "open"} BY <2>2, KeptAtTarget
  <2>3. CASE n = NextMember(q) /\ n.pc \notin {"read", "open"}
    <3>1. HasRead(r, r.cur) BY <2>1 DEF ReadCurrent
    <3>2. PICK got \in Fields :
            /\ Tail(r.unread) = <<>> => got = Wanted(r.cur)
            /\ \/ /\ Tail(r.unread) # <<>>
                  /\ Become(j, [r EXCEPT !.body = got, !.unread = Tail(r.unread)])
               \/ /\ Tail(r.unread) = <<>> /\ got = NoFields
                  /\ Become(j, NextMember(q))
               \/ /\ Tail(r.unread) = <<>> /\ got # NoFields
                  /\ Become(j, [r EXCEPT !.pc = "open", !.body = got, !.unread = <<>>,
                                         !.rows = RowsOfBuild(r.cur, got)])
      BY <1>7, <2>1, <3>1, ReadVarReads
    <3>3. r.pc = "read" BY <1>7 DEF ReadVar
    <3>4. \A x : Become(j, x) => n = x BY DEF Become, TypeOK
    <3>5. Wanted(r.cur) = NoFields
      <4>1. ~Become(j, [r EXCEPT !.body = got, !.unread = Tail(r.unread)])
        BY <1>1, <2>3, <3>3, <3>4 DEF Local
      <4>2. ~Become(j, [r EXCEPT !.pc = "open", !.body = got, !.unread = <<>>,
                                 !.rows = RowsOfBuild(r.cur, got)])
        BY <1>1, <2>3, <3>4 DEF Local
      <4> QED BY <3>2, <4>1, <4>2
    <3>6. KeptUpTo(r, Elements(r.todo) \cup {r.cur}) BY <2>1 DEF Kept
    <3> HIDE DEF q
    <3>7. KeptUpTo(q, Elements(q.todo)) BY <2>1, <3>5, <3>6 DEF KeptUpTo, Same
    <3> QED BY <2>1, <2>3, <3>7, KeptMoves
  <2> HIDE DEF q
  <2>4. n = NextMember(q) => n.pc \notin {"read", "open"} BY <2>1, NextMemberMoves
  <2> QED BY <2>1, <2>2, <2>3, <2>4
<1>8. CASE OpenTmp(j) BY <1>8, OpenTmpForm, KeptAtTarget
<1>9. CASE FinishWrite(j) BY <1>9, FinishWriteForm, KeptAtTarget
<1>10. CASE Publish(j)
  <2>1. tmp[r.cur] # None BY <1>10 DEF Solo, Publish
  <2>2. CASE r.cur \in Groups /\ r.todo \in Seq(Groups) /\ n = NextGroup(r)
    BY <1>1, <2>2, KeptNextGroup
  <2>3. CASE Keeps(n, r) /\ n.pc = "cleanup" /\ n.ok BY <2>3, KeptAtTarget
  <2> QED BY <1>10, <2>1, <2>2, <2>3, PublishForm
<1>11. CASE Cleanup(j)
  <2>1. r.ok BY <1>11 DEF Cleanup, Kept
  <2> QED BY <1>11, <2>1, CleanupForm, KeptAtTarget
<1>12. CASE Record(j)
  <2>1. PICK q \in Local : /\ q.todo = r.todo /\ q.paths = r.paths \cup {r.cur}
                           /\ q.plan = r.plan /\ n = NextMember(q)
    BY <1>12, RecordForm
  <2>2. r.cur \in Members /\ r.todo \in Seq(Members) BY <1>12, RecordForm
  <2>3. KeptUpTo(r, Elements(r.todo) \cup {r.cur}) BY <2>2 DEF Kept
  <2>4. KeptUpTo(q, Elements(q.todo)) BY <2>1, <2>3 DEF KeptUpTo
  <2> QED BY <2>1, <2>2, <2>4, KeptMoves
<1>13. CASE Concat(j) BY <1>3, <1>13, ConcatForm, KeptAtTarget
<1> QED BY <1>2, <1>4, <1>5, <1>6, <1>7, <1>8, <1>9, <1>10, <1>11, <1>12, <1>13
        DEF JobMoves, JobStep

(* Faults and edits are not undone, and without them no source changes and *)
(* nothing is excused.                                                     *)
LEMMA StaysUndisturbed ==
    ASSUME TypeOK, KeptInv, [Next]_vars, Undisturbed'
    PROVE  Undisturbed /\ src' = src /\ excused' = {}
<1>1. spent.faults \in Nat /\ spent.edits \in Nat BY BoundsAssumption DEF TypeOK
<1>2. ASSUME NEW j \in Jobs, JobMoves(j)
      PROVE  src' = src /\ excused' = excused /\ spent.faults = 0 /\ spent.edits = 0
  <2>1. src' = src BY <1>2, SourcesStay
  <2>2. ~WriteFails(j) /\ ~MemberRaises(j)
    BY WriteFailsForm, RaisesForm DEF Undisturbed
  <2>3. CASE Start(j)
    <3>1. spent' = [spent EXCEPT !.starts = @ + 1] BY <2>3 DEF Start
    <3>2. spent'.faults = spent.faults /\ spent'.edits = spent.edits
      BY <3>1 DEF TypeOK
    <3> QED BY <2>1, <2>3, <3>2 DEF Start, Undisturbed
  <2>4. CASE ~Start(j)
    <3>1. UNCHANGED <<spent, excused>>
      <4>1. CASE ReadVar(j) BY <4>1, ReadVarKeeps DEF Undisturbed
      <4>2. CASE Record(j) BY <4>2, RecordForm DEF Undisturbed
      <4>3. CASE Concat(j) BY <4>3, ConcatForm DEF Undisturbed
      <4> QED BY <1>2, <2>2, <2>4, <4>1, <4>2, <4>3
              DEF JobMoves, JobStep, Check, Skip, OpenTmp, FinishWrite, Publish, Cleanup, Kill
    <3> QED BY <2>1, <3>1 DEF Undisturbed
  <2> QED BY <2>3, <2>4
<1>3. ASSUME NEW m \in Members, NEW g \in Streams, EditSource(m, g) PROVE FALSE
  <2>1. spent' = [spent EXCEPT !.edits = @ + 1] BY <1>3 DEF EditSource
  <2>2. spent'.edits = spent.edits + 1 BY <2>1 DEF TypeOK
  <2> QED BY <1>1, <2>2 DEF Undisturbed
<1>4. Tick \/ UNCHANGED vars => UNCHANGED <<src, excused, spent>> BY DEF Tick, vars
<1> QED BY <1>2, <1>3, <1>4, NextMoves DEF WorldMoves, Undisturbed, KeptInv

LEMMA KeptStep ==
    ASSUME TypeOK, TypeOK', CurrentInv, SoloInv, KeptInv, [Next]_vars
    PROVE  KeptInv'
<1> SUFFICES ASSUME Undisturbed'
             PROVE  excused' = {} /\ \A j \in Jobs : job'[j].alone => Kept(job[j])'
  BY DEF KeptInv
<1>1. /\ Undisturbed /\ src' = src /\ excused' = {} /\ excused = {}
      /\ \A j \in Jobs : job[j].alone => Kept(job[j])
  BY StaysUndisturbed DEF KeptInv
<1>2. \A m \in Members : ReadCurrent(m) /\ Wanted(m)' = Wanted(m)
  BY <1>1, SameSources DEF CurrentInv
<1>3. ASSUME NEW j \in Jobs, job'[j].alone PROVE Kept(job'[j])
  <2>1. CASE Start(j)
    <3>1. PICK plan \in Plans, q \in Local :
            /\ job'[j] = NextMember(q) /\ plan \in Seq(Members)
            /\ q.todo = plan /\ q.plan = plan
      BY <2>1, StartForm
    <3>2. KeptUpTo(q, Elements(q.todo)) BY <3>1 DEF KeptUpTo
    <3> QED BY <3>1, <3>2, KeptMoves
  <2>2. CASE job[j].alone /\ Solo(j) /\ JobMoves(j) /\ ~Start(j)
    BY <1>1, <1>2, <2>2, JobKept DEF Undisturbed
  <2>3. CASE job[j].alone /\ job' = job BY <1>1, <2>3
  <2> QED BY <1>3, <2>1, <2>2, <2>3, AloneActs DEF vars
<1>4. ASSUME NEW j \in Jobs, Kept(job'[j]) PROVE Kept(job[j])'
  <2>1. job'[j].plan \in Seq(Members) BY DEF TypeOK, Local
  <2>2. \A m \in Elements(job'[j].plan) : Wanted(m)' = Wanted(m)
    BY <1>2, <2>1 DEF Elements
  <2> QED BY <1>4, <2>2 DEF Kept, KeptUpTo
<1> QED BY <1>1, <1>3, <1>4

-----------------------------------------------------------------------------
(* The inductive invariant, and what follows from it.                      *)

LEMMA MembersInit == Init => MembersInv
<1> SUFFICES ASSUME Init PROVE MembersInv OBVIOUS
<1>1. IInv /\ CurrentInv BY CurrentInit, InitType, InitExclusive DEF IInv
<1>2. \A j \in Jobs : ~job[j].alone BY DEF Init, Idle
<1>3. excused = {} BY DEF Init
<1> QED BY <1>1, <1>2, <1>3 DEF MembersInv, SoloInv, GroupsInv, LoggedInv, KeptInv

LEMMA MembersStep == MembersInv /\ [Next]_vars => MembersInv'
<1> SUFFICES ASSUME MembersInv, [Next]_vars PROVE MembersInv' OBVIOUS
<1>1. IInv /\ IInv' /\ TypeOK /\ TypeOK' BY IInvStep DEF MembersInv, IInv
<1>2. CurrentInv' BY <1>1, CurrentStep DEF MembersInv
<1>3. SoloInv' BY <1>1, SoloStep DEF MembersInv
<1>4. GroupsInv' BY <1>1, GroupsStep DEF MembersInv
<1>5. LoggedInv' BY <1>1, LoggedStep DEF MembersInv
<1>6. KeptInv' BY <1>1, KeptStep DEF MembersInv
<1> QED BY <1>1, <1>2, <1>3, <1>4, <1>5, <1>6 DEF MembersInv

LEMMA Membership == Spec => []MembersInv
BY MembersInit, MembersStep, PTL DEF Spec

(* After a job that ran alone returned 0, each group file is whole and     *)
(* holds of each member the job kept exactly the group's variables of that *)
(* member's file, for any plan, crashes, failures and edits before or      *)
(* meanwhile (main L609-614).                                              *)
THEOREM GroupsAreOfMembers == Spec => []GroupsReflectMembers
<1>1. ASSUME MembersInv PROVE GroupsReflectMembers
  <2>1. ASSUME NEW j \in Jobs, Finished(j), ~job[j].skip, NEW g \in Groups
        PROVE  GroupDone(out, job[j].paths, g)
    BY <1>1, <2>1 DEF MembersInv, GroupsInv, GroupsDone, Finished
  <2> QED BY <2>1 DEF GroupsReflectMembers, GroupDone, GroupOf, HasGroup
<1> QED BY <1>1, Membership, PTL

(* After a job that ran alone returned 0, the log calls a variable missing *)
(* exactly when the member's file lacks it, whether the member was built   *)
(* or skipped, and even if appending some of it failed (main L590-597).    *)
THEOREM ProvenanceMatches == Spec => []ProvenanceMatchesMembers
<1>1. MembersInv => ProvenanceMatchesMembers
  BY DEF MembersInv, LoggedInv, Logged, Agrees, Finished, ProvenanceMatchesMembers
<1> QED BY <1>1, Membership, PTL

(* Without failures and edits, a job that ran alone and returned 0 has     *)
(* kept every planned member for which some variable exists: the handler   *)
(* of main L598 swallows nothing else.                                     *)
THEOREM NothingLost == Spec => []NoMemberLost
<1>1. ASSUME MembersInv PROVE NoMemberLost
  <2>1. ASSUME NEW j \in Jobs, Finished(j), spent.faults = 0, spent.edits = 0,
               NEW i \in DOMAIN job[j].plan
        PROVE  job[j].plan[i] \in job[j].paths \/ Wanted(job[j].plan[i]) = NoFields
    <3>1. KeptUpTo(job[j], {})
      BY <1>1, <2>1 DEF MembersInv, KeptInv, Kept, Undisturbed, Finished
    <3> QED BY <3>1 DEF KeptUpTo, Elements
  <2> QED BY <2>1 DEF NoMemberLost
<1> QED BY <1>1, Membership, PTL
=============================================================================
