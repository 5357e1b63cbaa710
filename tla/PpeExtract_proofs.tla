------------------------- MODULE PpeExtract_proofs -------------------------
(* Theorems about PpeExtract, for every value of its constants. *)
EXTENDS PpeExtract, SequenceTheorems, WellFoundedInduction, TLAPS

USE DEF Targets

-----------------------------------------------------------------------------
(* Types of the operators on a job's locals. *)

Good(r) == r \in Local /\ PhaseOK(r)

LEMMA NoFieldsType == NoFields \in Fields /\ NoFields \in Body
BY DEF NoFields, Fields, Value, Body

LEMMA IdleType == Idle \in Local
<1>1. {} \in SUBSET Row /\ <<>> \in Seq(Members) /\ <<>> \in Seq(Targets) /\ <<>> \in Seq(Vars)
  OBVIOUS
<1> QED BY <1>1, NoFieldsType DEF Idle, Local, PCs

(* A process that ended keeps its paths and has no target. *)
LEMMA EndType ==
    ASSUME NEW r \in Local, NEW x \in {"none", "ok", "fail", "killed"}
    PROVE  /\ Good(End(r, x))
           /\ End(r, x).pc = "idle" /\ End(r, x).cur = None
           /\ End(r, x).paths = r.paths /\ End(r, x).at = "none"
<1>1. End(r, x) \in Local
  BY IdleType DEF End, Idle, Local, PCs
<1>2. /\ End(r, x).pc = "idle" /\ End(r, x).cur = None
      /\ End(r, x).paths = r.paths /\ End(r, x).at = "none"
  BY IdleType DEF End, Idle, Local
<1>3. None \notin Members /\ None \notin Groups
  BY NamesAssumption
<1>4. PhaseOK(End(r, x))
  BY <1>2, <1>3 DEF PhaseOK
<1> QED BY <1>1, <1>2, <1>4 DEF Good

(* The group loop moves to the concatenation of a group, or ends. *)
LEMMA NextGroupType ==
    ASSUME NEW r \in Local, r.todo \in Seq(Groups)
    PROVE  /\ Good(NextGroup(r))
           /\ NextGroup(r).pc \in {"idle", "concat"}
           /\ NextGroup(r).paths = r.paths
<1>1. CASE r.todo = <<>>
  BY <1>1, EndType DEF NextGroup
<1>2. CASE r.todo # <<>>
  <2> DEFINE n == NextGroup(r)
  <2>1. Head(r.todo) \in Groups /\ Tail(r.todo) \in Seq(Groups)
    BY <1>2
  <2>2. Head(r.todo) \in Targets /\ Tail(r.todo) \in Seq(Targets)
    BY <2>1
  <2>3. n \in Local
    BY <1>2, <2>2, NoFieldsType DEF NextGroup, Local, PCs
  <2>4. n.pc = "concat" /\ n.cur \in Groups /\ n.todo \in Seq(Groups) /\ n.paths = r.paths
    BY <1>2, <2>1 DEF NextGroup, Local
  <2>5. n.cur \notin Members
    BY <2>4, NamesAssumption
  <2> QED BY <2>3, <2>4, <2>5 DEF Good, PhaseOK
<1> QED BY <1>1, <1>2

(* The member loop moves to a member's freshness test, to the groups, or   *)
(* ends.                                                                   *)
LEMMA NextMemberType ==
    ASSUME NEW r \in Local, r.todo \in Seq(Members)
    PROVE  /\ Good(NextMember(r))
           /\ NextMember(r).pc \in {"idle", "concat", "check"}
           /\ NextMember(r).paths = r.paths
<1>1. CASE r.todo = <<>>
  <2> DEFINE g == [r EXCEPT !.todo = GroupOrder, !.rows = {}]
  <2>1. GroupOrder \in Seq(Targets) /\ GroupOrder \in Seq(Groups) BY NamesAssumption
  <2>2. g \in Local /\ g.todo \in Seq(Groups) /\ g.paths = r.paths
    BY <2>1 DEF Local
  <2> HIDE DEF g
  <2>3. /\ Good(NextGroup(g)) /\ NextGroup(g).pc \in {"idle", "concat"}
        /\ NextGroup(g).paths = r.paths
    BY <2>2, NextGroupType
  <2>4. NextMember(r) \in {End(r, "fail"), End(r, "ok"), NextGroup(g)}
    BY <1>1 DEF NextMember, g
  <2> QED BY <2>3, <2>4, EndType
<1>2. CASE r.todo # <<>>
  <2> DEFINE n == NextMember(r)
  <2>1. Head(r.todo) \in Members /\ Tail(r.todo) \in Seq(Members)
    BY <1>2
  <2>2. Head(r.todo) \in Targets /\ Tail(r.todo) \in Seq(Targets)
    BY <2>1
  <2>3. n \in Local
    BY <1>2, <2>2, NoFieldsType DEF NextMember, Local, PCs
  <2>4. /\ n.pc = "check" /\ n.cur \in Members /\ n.todo \in Seq(Members)
        /\ n.paths = r.paths /\ n.body = NoFields
    BY <1>2, <2>1 DEF NextMember, Local
  <2>5. n.cur \notin Groups
    BY <2>4, NamesAssumption
  <2> QED BY <2>3, <2>4, <2>5, NoFieldsType DEF Good, PhaseOK
<1> QED BY <1>1, <1>2

(* An exception ends the group loop, or goes to write_member's finally. *)
LEMMA RaiseType ==
    ASSUME NEW r, Good(r), r.cur \in Targets
    PROVE  /\ Good(Raise(r))
           /\ Raise(r).pc \in {"idle", "cleanup"} /\ Raise(r).at = "none"
           /\ Raise(r).pc = "cleanup" => ~Raise(r).ok
           /\ Raise(r).paths = r.paths
<1>1. r \in Local BY DEF Good
<1>2. CASE r.cur \in Groups
  BY <1>1, <1>2, EndType DEF Raise
<1>3. CASE r.cur \notin Groups
  <2> DEFINE n == Raise(r)
  <2>1. r.cur \in Members BY <1>3
  <2>2. n \in Local BY <1>1, <1>3 DEF Raise, Local, PCs
  <2>3. /\ n.pc = "cleanup" /\ n.cur = r.cur /\ n.todo = r.todo /\ ~n.ok
        /\ n.paths = r.paths /\ n.body = r.body /\ n.at = "none"
    BY <1>1, <1>3 DEF Raise, Local
  <2> QED BY <1>3, <2>1, <2>2, <2>3 DEF Good, PhaseOK
<1> QED BY <1>2, <1>3

-----------------------------------------------------------------------------
(* Search order: a nonempty set of naturals has a least element. *)

LEMMA LeastExists ==
    ASSUME NEW S \in SUBSET Nat, S # {}
    PROVE  \E i \in S : \A k \in S : i <= k
<1>1. PICK i \in S : \A k \in S : ~(<<k, i>> \in OpToRel(<, Nat))
  BY NatLessThanWellFounded, WFMin
<1>2. \A k \in S : ~(k < i)
  BY <1>1 DEF OpToRel
<1>3. \A k \in S : i <= k
  BY <1>2
<1> QED BY <1>3

LEMMA SeqElement ==
    ASSUME NEW S, NEW s \in Seq(S), NEW i \in DOMAIN s
    PROVE  s[i] \in S /\ i \in Nat
BY ElementOfSeq, LenProperties

LEMMA ResolveType ==
    ASSUME TypeOK, NEW m \in Members, NEW v \in Vars, NEW bad
    PROVE  Resolve(m, v, bad) \in Value
<1> DEFINE order == SearchOrder[v]
           usable == {i \in DOMAIN order :
                         /\ src[m][order[i]] # None
                         /\ order[i] \notin bad
                         /\ v \in Carries[order[i]]}
           i == CHOOSE i \in usable : \A k \in usable : i <= k
<1>1. order \in Seq(Streams) BY NamesAssumption
<1>2. usable \subseteq Nat BY <1>1, SeqElement
<1>3. CASE usable = {}
  <2>1. Resolve(m, v, bad) = Missing BY <1>3 DEF Resolve
  <2> QED BY <2>1 DEF Value
<1>4. CASE usable # {}
  <2>1. \E k \in usable : \A l \in usable : k <= l
    BY <1>2, <1>4, LeastExists
  <2>2. i \in usable BY <2>1
  <2>3. order[i] \in Streams
    <3>1. i \in DOMAIN order BY <2>2
    <3> HIDE DEF i, order
    <3> QED BY <1>1, <3>1, SeqElement
  <2>4. src[m][order[i]] \in [ver : 1 .. MaxEdits + 1, mtime : 0 .. MaxClock]
    BY <2>2, <2>3 DEF TypeOK
  <2>5. Resolve(m, v, bad) = [stream |-> order[i], ver |-> src[m][order[i]].ver]
    BY <1>4 DEF Resolve
  <2>6. src[m][order[i]].ver \in 1 .. MaxEdits + 1 BY <2>4
  <2> HIDE DEF order, usable, i
  <2>7. QED BY <2>3, <2>5, <2>6 DEF Value
<1> QED BY <1>3, <1>4

-----------------------------------------------------------------------------
(* Type correctness: one lemma per action.                                 *)

Counters == [edits : 0 .. MaxEdits, faults : 0 .. MaxFaults, starts : 0 .. MaxStarts]

LEMMA JobType ==
    ASSUME TypeOK, NEW j \in Jobs
    PROVE  /\ job[j] \in Local /\ Good(job[j]) /\ PathsExist(job[j])
BY DEF TypeOK, Good

LEMMA FaultType ==
    ASSUME TypeOK, Fault
    PROVE  spent' \in Counters
BY BoundsAssumption DEF TypeOK, Fault, Counters

(* A step that only moves job j keeps the types if j's new locals fit. *)
LEMMA BecomeType ==
    ASSUME TypeOK, NEW j \in Jobs, NEW r, Good(r), PathsExist(r), Become(j, r),
           UNCHANGED <<clock, src, out, tmp, contended>>,
           prov' \in SUBSET Row, excused' \in SUBSET Members, spent' \in Counters
    PROVE  TypeOK'
<1>1. job' \in [Jobs -> Local]
  BY DEF TypeOK, Become, Good
<1>2. ASSUME NEW k \in Jobs PROVE PhaseOK(job'[k]) /\ PathsExist(job'[k])
  BY DEF TypeOK, Become, Good
<1>3. ASSUME NEW k \in Jobs PROVE PathsExist(job[k])' <=> PathsExist(job'[k])
  BY DEF PathsExist
<1>4. ASSUME NEW k \in Jobs PROVE PhaseOK(job[k])' <=> PhaseOK(job'[k])
  BY DEF PhaseOK
<1> QED BY <1>1, <1>2, <1>3, <1>4 DEF TypeOK, Counters

(* The locals main starts the next target with keep the paths. *)
LEMMA MovedPaths ==
    ASSUME NEW r, NEW n, \A m \in r.paths : out[m] # None,
           n.paths = r.paths, n.pc \notin {"skip", "record"},
           n.pc = "cleanup" => ~n.ok
    PROVE  PathsExist(n)
BY DEF PathsExist

LEMMA StartType ==
    ASSUME TypeOK, NEW j \in Jobs, Start(j)
    PROVE  TypeOK'
<1>1. PICK plan \in Plans, renew \in BOOLEAN, skip \in BOOLEAN :
        job' = [k \in Jobs |->
                    IF k = j
                    THEN NextMember([Idle EXCEPT !.plan = plan, !.todo = plan,
                                        !.renew = renew, !.skip = skip,
                                        !.alone = \A i \in Jobs : ~Active(i)])
                    ELSE [job[k] EXCEPT !.alone = FALSE]]
  BY DEF Start
<1> DEFINE a == \A i \in Jobs : ~Active(i)
           r == [Idle EXCEPT !.plan = plan, !.todo = plan, !.renew = renew,
                             !.skip = skip, !.alone = a]
<1>2. plan \in Seq(Members) /\ plan \in Seq(Targets) BY NamesAssumption
<1>3. a \in BOOLEAN OBVIOUS
<1> HIDE DEF a
<1>4. r \in Local /\ r.todo = plan /\ r.paths = {}
  BY <1>2, <1>3, IdleType DEF Local, Idle
<1> USE DEF a
<1>5. job'[j] = NextMember(r) BY <1>1
<1> HIDE DEF r, a
<1>6. /\ Good(NextMember(r)) /\ NextMember(r).paths = {}
      /\ NextMember(r).pc \in {"idle", "concat", "check"}
  BY <1>2, <1>4, NextMemberType
<1>7. ASSUME NEW k \in Jobs, k # j
      PROVE  /\ Good(job'[k])
             /\ job'[k].paths = job[k].paths /\ job'[k].pc = job[k].pc
             /\ job'[k].ok = job[k].ok /\ job'[k].cur = job[k].cur
  <2>1. job'[k] = [job[k] EXCEPT !.alone = FALSE] BY <1>1, <1>7
  <2>2. job[k] \in Local /\ PhaseOK(job[k]) BY DEF TypeOK
  <2>3. job'[k] \in Local BY <2>1, <2>2 DEF Local
  <2>4. /\ job'[k].paths = job[k].paths /\ job'[k].pc = job[k].pc
        /\ job'[k].ok = job[k].ok /\ job'[k].cur = job[k].cur
        /\ job'[k].todo = job[k].todo /\ job'[k].body = job[k].body
        /\ job'[k].unread = job[k].unread
    BY <2>1, <2>2 DEF Local
  <2> QED BY <2>2, <2>3, <2>4 DEF Good, PhaseOK
<1>8. ASSUME NEW k \in Jobs PROVE Good(job'[k]) /\ PathsExist(job[k])'
  <2>1. UNCHANGED out BY DEF Start
  <2>2. CASE k = j
    BY <1>5, <1>6, <2>1, <2>2 DEF PathsExist
  <2>3. CASE k # j
    BY <1>7, <2>1, <2>3 DEF PathsExist, TypeOK
  <2> QED BY <2>2, <2>3
<1>9. job' \in [Jobs -> Local]
  <2>1. job' = [k \in Jobs |-> job'[k]] BY <1>1
  <2> QED BY <1>8, <2>1 DEF Good
<1>10. spent' \in Counters /\ prov' \in SUBSET Row
  <2>1. /\ spent.starts < MaxStarts
        /\ spent' = [spent EXCEPT !.starts = @ + 1]
        /\ prov' = {}
    BY DEF Start
  <2>2. spent \in Counters BY DEF TypeOK, Counters
  <2>3. spent' \in Counters BY <2>1, <2>2, BoundsAssumption DEF Counters
  <2> QED BY <2>1, <2>3
<1> QED BY <1>8, <1>9, <1>10 DEF Start, TypeOK, Counters, Good, PhaseOK

LEMMA CheckType ==
    ASSUME TypeOK, NEW j \in Jobs, Check(j)
    PROVE  TypeOK'
<1> DEFINE r == job[j]
           n == IF MemberIsFresh(r.cur, r.renew) THEN [r EXCEPT !.pc = "skip"]
                ELSE [r EXCEPT !.pc = "read", !.unread = VarOrder]
<1>1. r \in Local /\ PhaseOK(r) /\ PathsExist(r) BY DEF TypeOK
<1>2. r.pc = "check" /\ Become(j, n) BY DEF Check
<1>3. /\ n.cur = r.cur /\ n.paths = r.paths /\ n.body = r.body /\ n.todo = r.todo
      /\ \/ n.pc = "skip" /\ MemberIsFresh(r.cur, r.renew)
         \/ n.pc = "read" /\ n.unread = VarOrder
  <2>1. CASE MemberIsFresh(r.cur, r.renew) BY <1>1, <2>1 DEF Local
  <2>2. CASE ~MemberIsFresh(r.cur, r.renew) BY <1>1, <2>2 DEF Local
  <2> QED BY <2>1, <2>2
<1>4. n \in Local BY <1>1, NamesAssumption DEF Local, PCs
<1>5. PhaseOK(n) BY <1>1, <1>2, <1>3, NamesAssumption DEF PhaseOK
<1>6. PathsExist(n) BY <1>1, <1>3 DEF PathsExist, MemberIsFresh
<1>7. spent' \in Counters /\ prov' \in SUBSET Row /\ excused' \in SUBSET Members
  BY DEF Check, TypeOK, Counters
<1> HIDE DEF n
<1> QED BY <1>2, <1>4, <1>5, <1>6, <1>7, BecomeType DEF Check, Good

LEMMA SkipType ==
    ASSUME TypeOK, NEW j \in Jobs, Skip(j)
    PROVE  TypeOK'
<1> DEFINE r == job[j]
           n == [r EXCEPT !.pc = "record", !.rows = RowsOfExisting(r.cur)]
<1>1. r \in Local /\ PhaseOK(r) /\ PathsExist(r) BY DEF TypeOK
<1>2. r.pc = "skip" /\ Become(j, n) BY DEF Skip
<1>3. r.cur \in Members BY <1>1, <1>2 DEF PhaseOK
<1>4. RowsOfExisting(r.cur) \in SUBSET Row BY <1>3 DEF RowsOfExisting, Row
<1> HIDE DEF r
<1>5. n \in Local BY <1>1, <1>4 DEF Local, PCs
<1>6. /\ n.cur = r.cur /\ n.paths = r.paths /\ n.body = r.body /\ n.todo = r.todo
      /\ n.pc = "record"
  BY <1>1 DEF Local
<1>7. PhaseOK(n) /\ PathsExist(n)
  BY <1>1, <1>2, <1>3, <1>6, NamesAssumption DEF PhaseOK, PathsExist
<1>8. spent' \in Counters /\ prov' \in SUBSET Row /\ excused' \in SUBSET Members
  BY DEF Skip, TypeOK, Counters
<1> HIDE DEF n
<1> QED BY <1>2, <1>5, <1>7, <1>8, BecomeType DEF Skip, Good

LEMMA StatusType ==
    ASSUME NEW value
    PROVE  Status(value) \in {"monthly", "hifreq_resampled", "missing"}
BY DEF Status

LEMMA ReadVarType ==
    ASSUME TypeOK, NEW j \in Jobs, ReadVar(j)
    PROVE  TypeOK'
<1> DEFINE r == job[j]
           v == Head(r.unread)
<1>1. r \in Local /\ PhaseOK(r) /\ PathsExist(r) /\ r.pc = "read"
  BY DEF TypeOK, ReadVar
<1>2. /\ r.cur \in Members /\ r.cur \notin Groups /\ r.unread # <<>>
      /\ r.body \in Fields /\ r.todo \in Seq(Members) /\ r.unread \in Seq(Vars)
  BY <1>1, NamesAssumption DEF PhaseOK, Local
<1>3. v \in Vars /\ Tail(r.unread) \in Seq(Vars) BY <1>2
<1>4. PICK bad \in {{}} \cup {{g} : g \in Streams} :
        LET got == [r.body EXCEPT ![v] = Resolve(r.cur, v, bad)] IN
          /\ IF bad = {} THEN UNCHANGED <<spent, excused>>
             ELSE Fault /\ excused' = excused \cup {r.cur}
          /\ Become(j, IF Tail(r.unread) # <<>>
                       THEN [r EXCEPT !.body = got, !.unread = Tail(r.unread)]
                       ELSE IF got = NoFields
                       THEN NextMember([r EXCEPT !.unread = <<>>])
                       ELSE [r EXCEPT !.pc = "open", !.body = got, !.unread = <<>>,
                                      !.rows = RowsOfBuild(r.cur, got)])
  BY DEF ReadVar
<1> DEFINE got == [r.body EXCEPT ![v] = Resolve(r.cur, v, bad)]
<1>5. got \in Fields /\ got \in Body
  BY <1>2, <1>3, ResolveType DEF Fields, Body
<1>6. spent' \in Counters /\ excused' \in SUBSET Members /\ prov' \in SUBSET Row
  BY <1>2, <1>4, FaultType DEF ReadVar, TypeOK, Counters
<1>7. RowsOfBuild(r.cur, got) \in SUBSET Row
  BY <1>2, StatusType DEF RowsOfBuild, Row
<1> HIDE DEF got, v
<1>8. UNCHANGED <<clock, src, out, tmp, contended>> BY DEF ReadVar
<1>9. CASE Tail(r.unread) # <<>>
  <2> DEFINE n == [r EXCEPT !.body = got, !.unread = Tail(r.unread)]
  <2>1. Become(j, n) BY <1>4, <1>9 DEF got, v
  <2>2. n \in Local BY <1>1, <1>3, <1>5 DEF Local
  <2>3. /\ n.cur = r.cur /\ n.paths = r.paths /\ n.body = got /\ n.todo = r.todo
        /\ n.pc = "read" /\ n.unread = Tail(r.unread)
    BY <1>1 DEF Local
  <2> HIDE DEF n
  <2>4. PhaseOK(n) /\ PathsExist(n)
    BY <1>1, <1>2, <1>5, <1>9, <2>3 DEF PhaseOK, PathsExist
  <2> QED BY <1>6, <1>8, <2>1, <2>2, <2>4, BecomeType DEF Good
<1>10. CASE Tail(r.unread) = <<>> /\ got = NoFields
  <2> DEFINE q == [r EXCEPT !.unread = <<>>]
  <2>1. Become(j, NextMember(q)) BY <1>4, <1>10 DEF got, v
  <2>a. <<>> \in Seq(Vars) OBVIOUS
  <2>2. q \in Local /\ q.todo = r.todo /\ q.paths = r.paths BY <1>1, <2>a DEF Local
  <2> HIDE DEF q
  <2>3. /\ Good(NextMember(q)) /\ NextMember(q).paths = r.paths
        /\ NextMember(q).pc \in {"idle", "concat", "check"}
    BY <1>2, <2>2, NextMemberType
  <2>4. PathsExist(NextMember(q)) BY <1>1, <2>3 DEF PathsExist
  <2> QED BY <1>6, <1>8, <2>1, <2>3, <2>4, BecomeType
<1>11. CASE Tail(r.unread) = <<>> /\ got # NoFields
  <2> DEFINE n == [r EXCEPT !.pc = "open", !.body = got, !.unread = <<>>,
                            !.rows = RowsOfBuild(r.cur, got)]
  <2>1. Become(j, n) BY <1>4, <1>11 DEF got, v
  <2>a. <<>> \in Seq(Vars) OBVIOUS
  <2>2. n \in Local BY <1>1, <1>5, <1>7, <2>a DEF Local, PCs
  <2>3. /\ n.cur = r.cur /\ n.paths = r.paths /\ n.body = got /\ n.todo = r.todo
        /\ n.pc = "open"
    BY <1>1 DEF Local
  <2> HIDE DEF n
  <2>4. PhaseOK(n) /\ PathsExist(n)
    BY <1>1, <1>2, <1>5, <2>3 DEF PhaseOK, PathsExist
  <2> QED BY <1>6, <1>8, <2>1, <2>2, <2>4, BecomeType DEF Good
<1> QED BY <1>9, <1>10, <1>11

(* A file fit for path t. *)
FitFile(t, f) == f \in File /\ (t \in Members => f.body \in Fields)

(* A step that moves several jobs, or files, keeps the types if each fits. *)
LEMMA WorldType ==
    ASSUME TypeOK,
           UNCHANGED <<clock, src>>,
           job' = [k \in Jobs |-> job'[k]],
           \A k \in Jobs : Good(job'[k]) /\ PathsExist(job[k])',
           NEW t \in Targets,
           \/ out' = out
           \/ \E f : FitFile(t, f) /\ out' = [out EXCEPT ![t] = f],
           \/ tmp' = tmp
           \/ tmp' = [tmp EXCEPT ![t] = None]
           \/ \E f : FitFile(t, f) /\ tmp' = [tmp EXCEPT ![t] = f],
           prov' \in SUBSET Row, excused' \in SUBSET Members,
           contended' \in SUBSET Targets, spent' \in Counters
    PROVE  TypeOK'
<1>1. job' \in [Jobs -> Local] BY DEF Good
<1>2. \A k \in Jobs : PhaseOK(job[k])' BY DEF Good, PhaseOK
<1>3. /\ out' \in [Targets -> File \cup {None}]
      /\ \A m \in Members : out'[m] # None => out'[m].body \in Fields
  BY DEF TypeOK, FitFile
<1>4. /\ tmp' \in [Targets -> File \cup {None}]
      /\ \A m \in Members : tmp'[m] # None => tmp'[m].body \in Fields
  BY DEF TypeOK, FitFile
<1> QED BY <1>1, <1>2, <1>3, <1>4 DEF TypeOK, Counters

(* Published files stay: a kept path survives any replacement. *)
LEMMA PathsSurvive ==
    ASSUME NEW k \in Jobs, Good(job[k]), PathsExist(job[k]),
           \A t \in Targets : out[t] # None => out'[t] # None,
           job'[k].paths = job[k].paths, job'[k].pc = job[k].pc,
           job'[k].cur = job[k].cur, job'[k].ok = job[k].ok
    PROVE  PathsExist(job[k])'
BY DEF PathsExist, Good, PhaseOK, Local

(* A job whose handle or sharing mark alone changes keeps its phase. *)
LEMMA MarkType ==
    ASSUME NEW r, Good(r), NEW a \in {"none", "tmp", "out", "gone"},
           NEW n, n = [r EXCEPT !.mixed = TRUE] \/ n = [r EXCEPT !.at = a]
    PROVE  /\ Good(n)
           /\ n.pc = r.pc /\ n.cur = r.cur /\ n.ok = r.ok /\ n.paths = r.paths
<1>1. r \in Local BY DEF Good
<1>2. n \in Local BY <1>1 DEF Local
<1>3. /\ n.pc = r.pc /\ n.cur = r.cur /\ n.ok = r.ok /\ n.paths = r.paths
      /\ n.body = r.body /\ n.todo = r.todo /\ n.unread = r.unread
  BY <1>1 DEF Local
<1> QED BY <1>2, <1>3 DEF Good, PhaseOK

LEMMA OpenTmpType ==
    ASSUME TypeOK, NEW j \in Jobs, OpenTmp(j)
    PROVE  TypeOK'
<1> DEFINE r      == job[j]
           others == {k \in Jobs \ {j} : Busy(k, r.cur)}
           shared == {k \in others : job[k].at = "tmp"}
           f      == [whole |-> FALSE, mtime |-> clock, body |-> r.body]
           n      == [r EXCEPT !.pc = "write", !.at = "tmp", !.mixed = shared # {}]
<1>1. r \in Local /\ PhaseOK(r) /\ PathsExist(r) /\ r.pc = "open"
  BY DEF TypeOK, OpenTmp
<1>2. r.cur \in Targets BY <1>1 DEF PhaseOK
<1>3. f \in File
  BY <1>1 DEF File, Local, TypeOK
<1>4. FitFile(r.cur, f)
  BY <1>1, <1>3 DEF FitFile, PhaseOK
<1>5. /\ tmp' = [tmp EXCEPT ![r.cur] = f]
      /\ job' = [k \in Jobs |-> IF k = j THEN n
                 ELSE IF k \in shared THEN [job[k] EXCEPT !.mixed = TRUE]
                 ELSE job[k]]
      /\ contended' \in {contended, contended \cup {r.cur}}
      /\ UNCHANGED <<clock, src, out, prov, excused, spent>>
  BY DEF OpenTmp
<1> HIDE DEF f, shared
<1>6. Good(n) /\ n.pc = "write" /\ n.paths = r.paths
  <2>1. (shared # {}) \in BOOLEAN OBVIOUS
  <2>2. n \in Local BY <1>1, <2>1 DEF Local, PCs
  <2>3. /\ n.pc = "write" /\ n.cur = r.cur /\ n.paths = r.paths
        /\ n.body = r.body /\ n.todo = r.todo
    BY <1>1 DEF Local
  <2> HIDE DEF n
  <2> QED BY <1>1, <2>2, <2>3 DEF Good, PhaseOK
<1> HIDE DEF n
<1>7. ASSUME NEW k \in Jobs PROVE Good(job'[k]) /\ PathsExist(job[k])'
  <2>1. CASE k = j
    BY <1>1, <1>5, <1>6, <2>1 DEF PathsExist
  <2>2. CASE k # j
    <3>1. Good(job[k]) /\ PathsExist(job[k]) BY JobType
    <3>2. /\ Good(job'[k]) /\ job'[k].pc = job[k].pc /\ job'[k].cur = job[k].cur
          /\ job'[k].ok = job[k].ok /\ job'[k].paths = job[k].paths
      BY <1>5, <2>2, <3>1, MarkType
    <3> QED BY <1>5, <3>1, <3>2, PathsSurvive
  <2> QED BY <2>1, <2>2
<1>8. job' = [k \in Jobs |-> job'[k]] BY <1>5
<1>9. /\ contended' \in SUBSET Targets /\ spent' \in Counters
      /\ prov' \in SUBSET Row /\ excused' \in SUBSET Members
  BY <1>2, <1>5 DEF TypeOK, Counters
<1> QED BY <1>2, <1>4, <1>5, <1>7, <1>8, <1>9, WorldType

LEMMA FinishWriteType ==
    ASSUME TypeOK, NEW j \in Jobs, FinishWrite(j)
    PROVE  TypeOK'
<1> DEFINE r == job[j]
           n == [r EXCEPT !.pc = "publish", !.at = "none"]
<1>1. r \in Local /\ PhaseOK(r) /\ PathsExist(r) /\ r.pc = "write"
  BY DEF TypeOK, FinishWrite
<1>2. r.cur \in Targets BY <1>1 DEF PhaseOK
<1>3. PICK w \in BOOLEAN :
        LET f == [whole |-> w, mtime |-> clock, body |-> r.body] IN
          /\ tmp' = IF r.at = "tmp" THEN [tmp EXCEPT ![r.cur] = f] ELSE tmp
          /\ out' = IF r.at = "out" THEN [out EXCEPT ![r.cur] = f] ELSE out
  BY DEF FinishWrite
<1> DEFINE f == [whole |-> w, mtime |-> clock, body |-> r.body]
<1>4. FitFile(r.cur, f)
  BY <1>1 DEF FitFile, PhaseOK, File, Local, TypeOK
<1>5. /\ tmp' = tmp \/ tmp' = [tmp EXCEPT ![r.cur] = f]
      /\ out' = out \/ out' = [out EXCEPT ![r.cur] = f]
  BY <1>3
<1>6. Good(n) /\ n.pc = "publish" /\ n.paths = r.paths
  <2>1. n \in Local BY <1>1 DEF Local, PCs
  <2>2. /\ n.pc = "publish" /\ n.cur = r.cur /\ n.paths = r.paths
        /\ n.body = r.body /\ n.todo = r.todo
    BY <1>1 DEF Local
  <2> HIDE DEF n
  <2> QED BY <1>1, <2>1, <2>2 DEF Good, PhaseOK
<1>7. f # None
  BY <1>4, NoneIsNoFile DEF FitFile
<1> HIDE DEF f, n
<1>8. \A t \in Targets : out[t] # None => out'[t] # None
  BY <1>2, <1>5, <1>7 DEF TypeOK
<1>9. job' = [job EXCEPT ![j] = n] BY DEF FinishWrite, Become, n
<1>10. ASSUME NEW k \in Jobs PROVE Good(job'[k]) /\ PathsExist(job[k])'
  <2>1. Good(job[k]) /\ PathsExist(job[k]) BY JobType
  <2>2. CASE k = j
    <3>1. r.paths \subseteq Targets BY <1>1 DEF Local
    <3>2. job'[j] = n BY <1>9 DEF TypeOK
    <3> QED BY <1>1, <1>6, <1>8, <2>2, <3>1, <3>2 DEF PathsExist
  <2>3. CASE k # j
    BY <1>8, <1>9, <2>1, <2>3, PathsSurvive DEF TypeOK
  <2> QED BY <2>2, <2>3
<1>11. job' = [k \in Jobs |-> job'[k]] BY <1>9 DEF TypeOK
<1>12. /\ contended' \in SUBSET Targets /\ spent' \in Counters
       /\ prov' \in SUBSET Row /\ excused' \in SUBSET Members
       /\ UNCHANGED <<clock, src>>
  BY DEF FinishWrite, TypeOK, Counters
<1> QED BY <1>2, <1>4, <1>5, <1>10, <1>11, <1>12, WorldType

(* A member that raises before its file is opened is passed over. *)
LEMMA MemberRaisesForm ==
    ASSUME TypeOK, NEW j \in Jobs, MemberRaises(j)
    PROVE  /\ job[j].cur \in Members /\ job[j].pc \in {"check", "skip", "read"}
           /\ \E q \in Local :
                 /\ q.todo = job[j].todo /\ q.todo \in Seq(Members)
                 /\ q.plan = job[j].plan /\ q.paths = job[j].paths
                 /\ q.alone = job[j].alone /\ q.skip = job[j].skip
                 /\ Become(j, NextMember(q))
                 /\ Good(NextMember(q)) /\ PathsExist(NextMember(q))
                 /\ NextMember(q).pc \in {"idle", "concat", "check"}
           /\ spent' \in Counters /\ spent'.faults # 0
           /\ UNCHANGED <<clock, src, out, tmp, prov, contended, excused>>
<1> DEFINE r == job[j]
           q == [r EXCEPT !.unread = <<>>]
<1>1. /\ r \in Local /\ PhaseOK(r) /\ PathsExist(r) /\ r.pc \in {"check", "skip", "read"}
  BY DEF TypeOK, MemberRaises
<1>2. r.cur \in Members /\ r.todo \in Seq(Members) BY <1>1 DEF PhaseOK
<1>3. <<>> \in Seq(Vars) OBVIOUS
<1>4. /\ q \in Local /\ q.todo = r.todo /\ q.paths = r.paths
      /\ q.plan = r.plan /\ q.alone = r.alone /\ q.skip = r.skip
  BY <1>1, <1>3 DEF Local
<1>5. Become(j, NextMember(q)) BY DEF MemberRaises
<1> HIDE DEF q
<1>6. /\ Good(NextMember(q)) /\ NextMember(q).paths = r.paths
      /\ NextMember(q).pc \in {"idle", "concat", "check"}
  BY <1>2, <1>4, NextMemberType
<1>7. PathsExist(NextMember(q)) BY <1>1, <1>6 DEF PathsExist
<1>8. spent' \in Counters /\ spent'.faults # 0
  BY BoundsAssumption, FaultType DEF MemberRaises, Fault, TypeOK
<1> QED BY <1>1, <1>2, <1>4, <1>5, <1>6, <1>7, <1>8 DEF MemberRaises

LEMMA MemberRaisesType ==
    ASSUME TypeOK, NEW j \in Jobs, MemberRaises(j)
    PROVE  TypeOK'
<1>1. PICK q : /\ Become(j, NextMember(q)) /\ Good(NextMember(q))
               /\ PathsExist(NextMember(q))
  BY MemberRaisesForm
<1>2. spent' \in Counters /\ prov' \in SUBSET Row /\ excused' \in SUBSET Members
  BY MemberRaisesForm DEF TypeOK
<1> QED BY <1>1, <1>2, MemberRaisesForm, BecomeType

LEMMA WriteFailsType ==
    ASSUME TypeOK, NEW j \in Jobs, WriteFails(j)
    PROVE  TypeOK'
<1> DEFINE r == job[j]
<1>1. Good(r) /\ PathsExist(r) BY JobType
<1>2. r.pc \in {"open", "write"} /\ Become(j, Raise(r)) BY DEF WriteFails
<1>3. r.cur \in Targets BY <1>1, <1>2 DEF Good, PhaseOK
<1> HIDE DEF r
<1>4. Good(Raise(r)) /\ PathsExist(Raise(r))
  BY <1>1, <1>3, RaiseType DEF PathsExist
<1>5. spent' \in Counters /\ prov' \in SUBSET Row /\ excused' \in SUBSET Members
  BY FaultType DEF WriteFails, TypeOK
<1> QED BY <1>2, <1>4, <1>5, BecomeType DEF WriteFails

LEMMA PublishType ==
    ASSUME TypeOK, NEW j \in Jobs, Publish(j)
    PROVE  TypeOK'
<1> DEFINE r == job[j]
           t == r.cur
           n == IF t \in Groups THEN NextGroup(r)
                ELSE [r EXCEPT !.pc = "cleanup", !.ok = TRUE]
<1>1. Good(r) /\ PathsExist(r) /\ r \in Local BY JobType
<1>2. r.pc = "publish" BY DEF Publish
<1>3. t \in Targets BY <1>1, <1>2 DEF Good, PhaseOK
<1>4. /\ spent' \in Counters /\ prov' \in SUBSET Row /\ excused' \in SUBSET Members
      /\ contended' \in SUBSET Targets /\ UNCHANGED <<clock, src, contended>>
  BY DEF Publish, TypeOK, Counters
<1>5. CASE tmp[t] = None
  <2>1. Become(j, Raise(r)) /\ UNCHANGED <<out, tmp>> BY <1>5 DEF Publish
  <2> HIDE DEF r
  <2>2. Good(Raise(r)) /\ PathsExist(Raise(r))
    BY <1>1, <1>3, RaiseType DEF PathsExist
  <2> QED BY <1>4, <2>1, <2>2, BecomeType
<1>6. CASE tmp[t] # None
  <2>1. /\ out' = [out EXCEPT ![t] = tmp[t]]
        /\ tmp' = [tmp EXCEPT ![t] = None]
        /\ job' = [k \in Jobs |-> IF k = j THEN n
                   ELSE IF job[k].cur = t
                   THEN [job[k] EXCEPT !.at = AfterRename(@)] ELSE job[k]]
    BY <1>6 DEF Publish
  <2>2. FitFile(t, tmp[t]) /\ t \in Targets
    BY <1>3, <1>6 DEF TypeOK, FitFile
  <2>3. out'[t] = tmp[t] BY <2>1, <2>2 DEF TypeOK
  <2>4. \A u \in Targets : out[u] # None => out'[u] # None
    BY <1>6, <2>1, <2>2 DEF TypeOK
  <2>5. /\ Good(n) /\ n.paths = r.paths
        /\ \/ n.pc \in {"idle", "concat"}
           \/ n.pc = "cleanup" /\ n.cur = t
    <3>1. CASE t \in Groups
      <4>1. r.todo \in Seq(Groups) BY <1>1, <3>1 DEF Good, PhaseOK
      <4> QED BY <1>1, <3>1, <4>1, NextGroupType
    <3>2. CASE t \notin Groups
      <4>1. n \in Local BY <1>1, <3>2 DEF Local, PCs
      <4>2. /\ n.pc = "cleanup" /\ n.cur = r.cur /\ n.paths = r.paths
            /\ n.body = r.body /\ n.todo = r.todo
        BY <1>1, <3>2 DEF Local
      <4>3. r.cur \in Members BY <1>3, <3>2
      <4> HIDE DEF n
      <4> QED BY <1>1, <3>2, <4>1, <4>2, <4>3 DEF Good, PhaseOK
    <3> QED BY <3>1, <3>2
  <2> HIDE DEF n
  <2>6. ASSUME NEW k \in Jobs PROVE Good(job'[k]) /\ PathsExist(job[k])'
    <3>1. Good(job[k]) /\ PathsExist(job[k]) BY JobType
    <3>2. CASE k = j
      <4>1. r.paths \subseteq Targets BY <1>1 DEF Local
      <4>2. job'[j] = n BY <2>1
      <4> QED BY <1>1, <1>6, <2>3, <2>4, <2>5, <3>2, <4>1, <4>2 DEF PathsExist
    <3>3. CASE k # j
      <4>1. AfterRename(job[k].at) \in {"none", "tmp", "out", "gone"}
        BY <3>1 DEF AfterRename, Good, Local
      <4>2. /\ Good(job'[k]) /\ job'[k].pc = job[k].pc /\ job'[k].cur = job[k].cur
            /\ job'[k].ok = job[k].ok /\ job'[k].paths = job[k].paths
        BY <2>1, <3>1, <3>3, <4>1, MarkType
      <4> QED BY <2>4, <3>1, <4>2, PathsSurvive
    <3> QED BY <3>2, <3>3
  <2>7. job' = [k \in Jobs |-> job'[k]] BY <2>1
  <2>8. \E f : FitFile(t, f) /\ out' = [out EXCEPT ![t] = f] BY <2>1, <2>2
  <2> HIDE DEF t
  <2> QED BY <1>3, <1>4, <2>1, <2>6, <2>7, <2>8, WorldType
<1> QED BY <1>5, <1>6

LEMMA CleanupType ==
    ASSUME TypeOK, NEW j \in Jobs, Cleanup(j)
    PROVE  TypeOK'
<1> DEFINE r == job[j]
           t == r.cur
           n == IF r.ok THEN [r EXCEPT !.pc = "record"] ELSE NextMember(r)
<1>1. Good(r) /\ PathsExist(r) /\ r \in Local BY JobType
<1>2. /\ r.pc = "cleanup"
      /\ tmp' = [tmp EXCEPT ![t] = None]
      /\ job' = [k \in Jobs |-> IF k = j THEN n
                 ELSE IF job[k].cur = t /\ job[k].at = "tmp"
                 THEN [job[k] EXCEPT !.at = "gone"] ELSE job[k]]
      /\ UNCHANGED <<clock, src, out, prov, contended, excused, spent>>
  BY DEF Cleanup
<1>3. t \in Members /\ t \notin Groups /\ t \in Targets
  BY <1>1, <1>2, NamesAssumption DEF Good, PhaseOK
<1>4. Good(n) /\ PathsExist(n)
  <2>1. CASE r.ok
    <3>1. n \in Local BY <1>1, <2>1 DEF Local, PCs
    <3>2. /\ n.pc = "record" /\ n.cur = r.cur /\ n.paths = r.paths
          /\ n.body = r.body /\ n.todo = r.todo
      BY <1>1, <2>1 DEF Local
    <3> HIDE DEF n
    <3> QED BY <1>1, <1>2, <1>3, <2>1, <3>1, <3>2 DEF Good, PhaseOK, PathsExist
  <2>2. CASE ~r.ok
    <3>1. r.todo \in Seq(Members) BY <1>1, <1>3 DEF Good, PhaseOK
    <3>2. /\ Good(NextMember(r)) /\ NextMember(r).paths = r.paths
          /\ NextMember(r).pc \in {"idle", "concat", "check"}
      BY <1>1, <3>1, NextMemberType
    <3> QED BY <1>1, <2>2, <3>2 DEF PathsExist
  <2> QED BY <2>1, <2>2
<1> HIDE DEF n
<1>5. ASSUME NEW k \in Jobs PROVE Good(job'[k]) /\ PathsExist(job[k])'
  <2>1. Good(job[k]) /\ PathsExist(job[k]) BY JobType
  <2>2. CASE k = j
    BY <1>2, <1>4, <2>2 DEF PathsExist
  <2>3. CASE k # j
    <3>1. /\ Good(job'[k]) /\ job'[k].pc = job[k].pc /\ job'[k].cur = job[k].cur
          /\ job'[k].ok = job[k].ok /\ job'[k].paths = job[k].paths
      BY <1>2, <2>1, <2>3, MarkType
    <3> QED BY <1>2, <2>1, <3>1, PathsSurvive
  <2> QED BY <2>2, <2>3
<1>6. job' = [k \in Jobs |-> job'[k]] BY <1>2
<1>7. /\ contended' \in SUBSET Targets /\ spent' \in Counters
      /\ prov' \in SUBSET Row /\ excused' \in SUBSET Members
  BY <1>2 DEF TypeOK, Counters
<1> HIDE DEF t
<1> QED BY <1>2, <1>3, <1>5, <1>6, <1>7, WorldType

LEMMA RecordType ==
    ASSUME TypeOK, NEW j \in Jobs, Record(j)
    PROVE  TypeOK'
<1> DEFINE q == job[j]
           r == [q EXCEPT !.paths = q.paths \cup {q.cur}]
<1>1. Good(q) /\ PathsExist(q) /\ q \in Local BY JobType
<1>2. /\ q.pc = "record" /\ Become(j, NextMember(r))
      /\ \/ prov' = prov \cup r.rows /\ UNCHANGED spent
         \/ Fault /\ UNCHANGED prov
      /\ UNCHANGED <<clock, src, out, tmp, contended, excused>>
  BY <1>1 DEF Record, Local
<1>3. q.cur \in Members /\ q.todo \in Seq(Members) BY <1>1, <1>2 DEF Good, PhaseOK
<1>4. /\ r \in Local /\ r.todo = q.todo /\ r.paths = q.paths \cup {q.cur}
      /\ r.rows = q.rows
  BY <1>1, <1>3 DEF Local
<1>5. prov' \in SUBSET Row /\ spent' \in Counters /\ excused' \in SUBSET Members
  <2>1. q.rows \in SUBSET Row BY <1>1 DEF Local
  <2> QED BY <1>2, <1>4, <2>1, FaultType DEF TypeOK, Counters
<1> HIDE DEF r
<1>6. /\ Good(NextMember(r)) /\ NextMember(r).paths = q.paths \cup {q.cur}
      /\ NextMember(r).pc \in {"idle", "concat", "check"}
  BY <1>3, <1>4, NextMemberType
<1>7. PathsExist(NextMember(r)) BY <1>1, <1>2, <1>6 DEF PathsExist
<1> QED BY <1>2, <1>5, <1>6, <1>7, BecomeType

LEMMA ConcatType ==
    ASSUME TypeOK, NEW j \in Jobs, Concat(j)
    PROVE  TypeOK'
<1> DEFINE r    == job[j]
           used == {m \in r.paths : HasGroup(m, r.cur)}
           b    == [m \in Members |-> IF m \in used
                       THEN Restricted(out[m].body, r.cur) ELSE None]
           n    == [r EXCEPT !.pc = "open", !.body = b]
<1>1. Good(r) /\ PathsExist(r) /\ r \in Local BY JobType
<1>2. /\ r.pc = "concat"
      /\ \/ Become(j, Raise(r)) \/ Become(j, n)
      /\ UNCHANGED spent \/ Fault
      /\ UNCHANGED <<clock, src, out, tmp, prov, contended, excused>>
  BY DEF Concat
<1>3. r.cur \in Groups /\ r.cur \in Targets /\ r.cur \notin Members
  BY <1>1, <1>2, NamesAssumption DEF Good, PhaseOK
<1>4. b \in GroupBody
  <2> SUFFICES ASSUME NEW m \in Members, m \in used
               PROVE  Restricted(out[m].body, r.cur) \in Fields
    BY DEF GroupBody
  <2>1. out[m] # None BY <1>1 DEF PathsExist
  <2>2. out[m].body \in Fields BY <2>1 DEF TypeOK
  <2> QED BY <2>2 DEF Restricted, Fields, Value
<1> HIDE DEF b
<1>5. Good(n) /\ n.paths = r.paths /\ n.pc = "open"
  <2>1. n \in Local BY <1>1, <1>4 DEF Local, PCs, Body, GroupBody
  <2>2. /\ n.pc = "open" /\ n.cur = r.cur /\ n.paths = r.paths
        /\ n.body = b /\ n.todo = r.todo
    BY <1>1 DEF Local
  <2> HIDE DEF n
  <2> QED BY <1>1, <1>3, <1>4, <2>1, <2>2 DEF Good, PhaseOK
<1>6. PathsExist(n) BY <1>1, <1>5 DEF PathsExist
<1>7. spent' \in Counters /\ prov' \in SUBSET Row /\ excused' \in SUBSET Members
  BY <1>2, FaultType DEF TypeOK, Counters
<1>8. Good(Raise(r)) /\ PathsExist(Raise(r))
  BY <1>1, <1>3, RaiseType DEF PathsExist
<1> HIDE DEF n
<1> QED BY <1>2, <1>5, <1>6, <1>7, <1>8, BecomeType

LEMMA KillType ==
    ASSUME TypeOK, NEW j \in Jobs, Kill(j)
    PROVE  TypeOK'
<1> DEFINE n == End(job[j], "killed")
<1>1. job[j] \in Local /\ PathsExist(job[j]) BY JobType
<1>2. Good(n) /\ n.paths = job[j].paths /\ n.pc = "idle" BY <1>1, EndType
<1> HIDE DEF n
<1>3. PathsExist(n) BY <1>1, <1>2 DEF PathsExist
<1>4. spent' \in Counters /\ prov' \in SUBSET Row /\ excused' \in SUBSET Members
  BY DEF Kill, TypeOK, Counters
<1> QED BY <1>2, <1>3, <1>4, BecomeType DEF Kill, n

LEMMA EditSourceType ==
    ASSUME TypeOK, NEW m \in Members, NEW g \in Streams, EditSource(m, g)
    PROVE  TypeOK'
<1>1. PICK new \in [ver : {spent.edits + 2}, mtime : 0 .. clock] \cup {None} :
        /\ src' = [src EXCEPT ![m][g] = new]
        /\ excused' \in {excused, excused \cup {m}}
  BY DEF EditSource
<1>2. /\ spent.edits < MaxEdits /\ spent' = [spent EXCEPT !.edits = @ + 1]
      /\ spent \in Counters /\ clock \in 0 .. MaxClock
      /\ UNCHANGED <<clock, out, tmp, job, prov, contended>>
  BY DEF EditSource, TypeOK, Counters
<1>3. spent' \in Counters BY <1>2, BoundsAssumption DEF Counters
<1>4. spent.edits \in Nat /\ spent.edits + 2 \in 1 .. MaxEdits + 1
  BY <1>2, BoundsAssumption DEF Counters
<1>5. new \in [ver : 1 .. MaxEdits + 1, mtime : 0 .. MaxClock] \cup {None}
  BY <1>2, <1>4, BoundsAssumption
<1>6. src' \in [Members -> [Streams -> {None} \cup
                 [ver : 1 .. MaxEdits + 1, mtime : 0 .. MaxClock]]]
  BY <1>1, <1>5 DEF TypeOK
<1>7. excused' \in SUBSET Members BY <1>1 DEF TypeOK
<1> QED BY <1>2, <1>3, <1>6, <1>7 DEF TypeOK, Counters, PhaseOK, PathsExist

LEMMA TickType ==
    ASSUME TypeOK, Tick
    PROVE  TypeOK'
<1>1. clock' \in 0 .. MaxClock BY BoundsAssumption DEF Tick, TypeOK
<1> QED BY <1>1 DEF Tick, TypeOK, PhaseOK, PathsExist

LEMMA InitType == Init => TypeOK
<1> SUFFICES ASSUME Init PROVE TypeOK OBVIOUS
<1>1. \A j \in Jobs : job[j] = Idle BY DEF Init
<1>2. Idle \in Local /\ PhaseOK(Idle) /\ PathsExist(Idle)
  <2>1. Idle.pc = "idle" /\ Idle.cur = None /\ Idle.paths = {} BY DEF Idle
  <2>2. None \notin Members /\ None \notin Groups BY NamesAssumption
  <2> QED BY IdleType, <2>1, <2>2 DEF PhaseOK, PathsExist
<1>3. [ver |-> 1, mtime |-> 0] \in [ver : 1 .. MaxEdits + 1, mtime : 0 .. MaxClock]
  BY BoundsAssumption
<1>4. src \in [Members -> [Streams -> {None} \cup
                 [ver : 1 .. MaxEdits + 1, mtime : 0 .. MaxClock]]]
  BY <1>3 DEF Init
<1>5. spent \in Counters BY BoundsAssumption DEF Init, Counters
<1>6. clock \in 0 .. MaxClock BY BoundsAssumption DEF Init
<1>7. job \in [Jobs -> Local] BY <1>2 DEF Init
<1> HIDE DEF Targets
<1>8. /\ out \in [Targets -> File \cup {None}]
      /\ tmp \in [Targets -> File \cup {None}]
      /\ prov \in SUBSET Row /\ contended \in SUBSET Targets
      /\ excused \in SUBSET Members
  BY DEF Init
<1> USE DEF Targets
<1>9. \A m \in Members : out[m] = None /\ tmp[m] = None BY DEF Init
<1> QED BY <1>1, <1>2, <1>4, <1>5, <1>6, <1>7, <1>8, <1>9 DEF TypeOK, Counters

LEMMA StepType == TypeOK /\ [Next]_vars => TypeOK'
<1> SUFFICES ASSUME TypeOK, [Next]_vars PROVE TypeOK' OBVIOUS
<1>1. ASSUME NEW j \in Jobs, Start(j) PROVE TypeOK' BY <1>1, StartType
<1>2. ASSUME NEW j \in Jobs, JobStep(j) PROVE TypeOK'
  BY <1>2, CheckType, SkipType, ReadVarType, OpenTmpType, FinishWriteType,
     PublishType, CleanupType, RecordType, ConcatType DEF JobStep
<1>3. ASSUME NEW j \in Jobs, WriteFails(j) PROVE TypeOK' BY <1>3, WriteFailsType
<1>4. ASSUME NEW j \in Jobs, Kill(j) \/ MemberRaises(j) PROVE TypeOK'
  BY <1>4, KillType, MemberRaisesType
<1>5. ASSUME NEW m \in Members, NEW g \in Streams, EditSource(m, g) PROVE TypeOK'
  BY <1>5, EditSourceType
<1>6. CASE Tick BY <1>6, TickType
<1>7. CASE UNCHANGED vars
  BY <1>7 DEF vars, TypeOK, PhaseOK, PathsExist
<1> QED BY <1>1, <1>2, <1>3, <1>4, <1>5, <1>6, <1>7 DEF Next

(* Whatever jobs overlap, fail or are killed, files and locals keep their  *)
(* types and a path that main kept always has a file.                      *)
THEOREM TypeCorrect == Spec => []TypeOK
BY InitType, StepType, PTL DEF Spec

-----------------------------------------------------------------------------
(* Exclusiveness of the temporary file, one lemma per kind of step.        *)

Writing(r) == r.pc \in {"write", "publish"}

(* Nothing about t's files changes and no job comes to hold them. *)
LEMMA ExclusiveFrame ==
    ASSUME TypeOK, NEW t \in Targets, Exclusive(t),
           out'[t] = out[t], tmp'[t] = tmp[t],
           clock' \in 0 .. MaxClock, clock <= clock',
           \A k \in Jobs :
              \/ job'[k].cur # t
              \/ ~Writing(job'[k])
              \/ /\ job'[k].cur = job[k].cur /\ job'[k].pc = job[k].pc
                 /\ job'[k].at = job[k].at /\ job'[k].mixed = job[k].mixed
    PROVE  Exclusive(t)'
<1>1. out[t] # None => out[t].mtime \in 0 .. MaxClock
  BY DEF TypeOK, File
<1>2. tmp[t] # None => tmp[t].mtime \in 0 .. MaxClock
  BY DEF TypeOK, File
<1>3. clock \in 0 .. MaxClock BY DEF TypeOK
<1>4. (out[t] # None => out[t].whole /\ out[t].mtime <= clock)'
  BY <1>1, <1>3, BoundsAssumption DEF Exclusive
<1>5. (tmp[t] # None => /\ tmp[t].mtime <= clock
                        /\ out[t] # None => out[t].mtime <= tmp[t].mtime)'
  BY <1>2, <1>3, BoundsAssumption DEF Exclusive
<1>6. ASSUME NEW j \in Jobs, NEW k \in Jobs, Busy(j, t)', Busy(k, t)'
      PROVE  j = k
  BY <1>6 DEF Exclusive, Busy, Writing
<1>7. ASSUME NEW j \in Jobs, job'[j].cur = t
      PROVE  /\ job'[j].pc = "write" => job'[j].at # "out" /\ ~job'[j].mixed
             /\ job'[j].pc = "write" /\ job'[j].at # "tmp" => tmp'[t] = None
             /\ job'[j].pc = "publish" /\ tmp'[t] # None => tmp'[t].whole
  BY <1>7 DEF Exclusive, Writing
<1> QED BY <1>4, <1>5, <1>6, <1>7 DEF Exclusive

(* Where the calls that move on, raise or end leave a job. *)
LEMMA MovedQuiet ==
    ASSUME TypeOK, NEW j \in Jobs, NEW r \in Local,
           r.todo \in Seq(Members) \/ r.todo \in Seq(Groups)
    PROVE  /\ r.todo \in Seq(Members) => ~Writing(NextMember(r))
           /\ r.todo \in Seq(Groups) => ~Writing(NextGroup(r))
BY NextMemberType, NextGroupType DEF Writing

(* A step that moves one job to a place where it holds no file. *)
LEMMA BecomeExclusive ==
    ASSUME TypeOK, NEW t \in Targets, Exclusive(t), NEW j \in Jobs, NEW r,
           Become(j, r), ~Writing(r), UNCHANGED <<clock, out, tmp>>
    PROVE  Exclusive(t)'
<1>1. ASSUME NEW k \in Jobs
      PROVE  \/ ~Writing(job'[k]) \/ job'[k] = job[k]
  BY DEF Become, TypeOK
<1>2. clock' \in 0 .. MaxClock /\ clock <= clock' BY BoundsAssumption DEF TypeOK
<1> QED BY <1>1, <1>2, ExclusiveFrame

LEMMA StartExclusive ==
    ASSUME TypeOK, NEW t \in Targets, Exclusive(t), NEW j \in Jobs, Start(j)
    PROVE  Exclusive(t)'
<1>1. PICK plan \in Plans, renew \in BOOLEAN, skip \in BOOLEAN :
        job' = [k \in Jobs |->
                    IF k = j
                    THEN NextMember([Idle EXCEPT !.plan = plan, !.todo = plan,
                                        !.renew = renew, !.skip = skip,
                                        !.alone = \A i \in Jobs : ~Active(i)])
                    ELSE [job[k] EXCEPT !.alone = FALSE]]
  BY DEF Start
<1> DEFINE a == \A i \in Jobs : ~Active(i)
           r == [Idle EXCEPT !.plan = plan, !.todo = plan, !.renew = renew,
                             !.skip = skip, !.alone = a]
<1>2. plan \in Seq(Members) /\ plan \in Seq(Targets) BY NamesAssumption
<1>3. a \in BOOLEAN OBVIOUS
<1> HIDE DEF a
<1>4. r \in Local /\ r.todo = plan
  BY <1>2, <1>3, IdleType DEF Local, Idle
<1> USE DEF a
<1>5. job'[j] = NextMember(r) BY <1>1
<1> HIDE DEF r, a
<1>6. ~Writing(job'[j])
  BY <1>2, <1>4, <1>5, NextMemberType DEF Writing
<1>7. ASSUME NEW k \in Jobs, k # j
      PROVE  /\ job'[k].cur = job[k].cur /\ job'[k].pc = job[k].pc
             /\ job'[k].at = job[k].at /\ job'[k].mixed = job[k].mixed
  <2>1. job'[k] = [job[k] EXCEPT !.alone = FALSE] BY <1>1, <1>7
  <2>2. job[k] \in Local BY DEF TypeOK
  <2> QED BY <2>1, <2>2 DEF Local
<1>8. UNCHANGED <<clock, out, tmp>> BY DEF Start
<1>9. clock' \in 0 .. MaxClock /\ clock <= clock' /\ out' = out /\ tmp' = tmp
  BY <1>8, BoundsAssumption DEF TypeOK
<1> QED BY <1>6, <1>7, <1>9, ExclusiveFrame

(* The steps of one job that hold no file afterwards. *)
LEMMA QuietExclusive ==
    ASSUME TypeOK, NEW t \in Targets, Exclusive(t), NEW j \in Jobs,
           Check(j) \/ Skip(j) \/ ReadVar(j) \/ WriteFails(j) \/ Record(j)
             \/ Concat(j) \/ Kill(j) \/ MemberRaises(j)
    PROVE  Exclusive(t)'
<1> DEFINE r == job[j]
<1>1. Good(r) /\ r \in Local BY JobType
<1>2. UNCHANGED <<clock, out, tmp>>
  BY DEF Check, Skip, ReadVar, WriteFails, Record, Concat, Kill, MemberRaises
<1> SUFFICES \E n : Become(j, n) /\ ~Writing(n)
  BY <1>2, BecomeExclusive
<1>3. CASE Check(j)
  <2>1. [r EXCEPT !.pc = "skip"].pc = "skip"
        /\ [r EXCEPT !.pc = "read", !.unread = VarOrder].pc = "read"
    BY <1>1 DEF Local
  <2> QED BY <1>3, <2>1 DEF Check, Writing
<1>4. CASE Skip(j)
  <2>1. [r EXCEPT !.pc = "record", !.rows = RowsOfExisting(r.cur)].pc = "record"
    BY <1>1 DEF Local
  <2> QED BY <1>4, <2>1 DEF Skip, Writing
<1>5. CASE ReadVar(j)
  <2>1. PICK bad \in {{}} \cup {{g} : g \in Streams} :
          LET got == [r.body EXCEPT ![Head(r.unread)] = Resolve(r.cur, Head(r.unread), bad)] IN
          Become(j, IF Tail(r.unread) # <<>>
                    THEN [r EXCEPT !.body = got, !.unread = Tail(r.unread)]
                    ELSE IF got = NoFields
                    THEN NextMember([r EXCEPT !.unread = <<>>])
                    ELSE [r EXCEPT !.pc = "open", !.body = got, !.unread = <<>>,
                                   !.rows = RowsOfBuild(r.cur, got)])
    BY <1>5 DEF ReadVar
  <2> DEFINE got == [r.body EXCEPT ![Head(r.unread)] = Resolve(r.cur, Head(r.unread), bad)]
             q == [r EXCEPT !.unread = <<>>]
  <2>2. r.pc = "read" BY <1>5 DEF ReadVar
  <2>3. r.todo \in Seq(Members) BY <1>1, <2>2 DEF Good, PhaseOK
  <2>4. <<>> \in Seq(Vars) OBVIOUS
  <2>5. q \in Local /\ q.todo = r.todo BY <1>1, <2>4 DEF Local
  <2> HIDE DEF got, q
  <2>6. ~Writing(NextMember(q)) BY <2>3, <2>5, NextMemberType DEF Writing
  <2>7. /\ [r EXCEPT !.body = got, !.unread = Tail(r.unread)].pc = "read"
        /\ [r EXCEPT !.pc = "open", !.body = got, !.unread = <<>>,
                     !.rows = RowsOfBuild(r.cur, got)].pc = "open"
    BY <1>1, <2>2 DEF Local
  <2>8. \/ Become(j, [r EXCEPT !.body = got, !.unread = Tail(r.unread)])
        \/ Become(j, NextMember(q))
        \/ Become(j, [r EXCEPT !.pc = "open", !.body = got, !.unread = <<>>,
                               !.rows = RowsOfBuild(r.cur, got)])
    BY <2>1 DEF got, q
  <2> HIDE DEF r
  <2> QED BY <2>6, <2>7, <2>8 DEF Writing
<1>6. CASE WriteFails(j)
  <2>1. r.cur \in Targets BY <1>1, <1>6 DEF WriteFails, Good, PhaseOK
  <2> QED BY <1>1, <1>6, <2>1, RaiseType DEF WriteFails, Writing
<1>7. CASE Record(j)
  <2> DEFINE q == [r EXCEPT !.paths = r.paths \cup {r.cur}]
  <2>1. r.pc = "record" /\ Become(j, NextMember(q)) BY <1>1, <1>7 DEF Record, Local
  <2>2. r.cur \in Members /\ r.todo \in Seq(Members) BY <1>1, <2>1 DEF Good, PhaseOK
  <2>3. q \in Local /\ q.todo = r.todo BY <1>1, <2>2 DEF Local
  <2> HIDE DEF q
  <2> QED BY <2>1, <2>2, <2>3, NextMemberType DEF Writing
<1>8. CASE Concat(j)
  <2> DEFINE used == {m \in r.paths : HasGroup(m, r.cur)}
             b == [m \in Members |-> IF m \in used
                       THEN Restricted(out[m].body, r.cur) ELSE None]
  <2>1. r.pc = "concat" /\ \/ Become(j, Raise(r))
                           \/ Become(j, [r EXCEPT !.pc = "open", !.body = b])
    BY <1>8 DEF Concat
  <2>2. r.cur \in Targets BY <1>1, <2>1 DEF Good, PhaseOK
  <2> HIDE DEF b
  <2>3. [r EXCEPT !.pc = "open", !.body = b].pc = "open" BY <1>1 DEF Local
  <2>4. ~Writing(Raise(r)) BY <1>1, <2>2, RaiseType DEF Writing
  <2> HIDE DEF r
  <2> QED BY <2>1, <2>3, <2>4 DEF Writing
<1>9. CASE Kill(j)
  BY <1>1, <1>9, EndType DEF Kill, Writing
<1>10. CASE MemberRaises(j)
  BY <1>10, MemberRaisesForm DEF Writing
<1> QED BY <1>3, <1>4, <1>5, <1>6, <1>7, <1>8, <1>9, <1>10
(* The steps that create, close, rename and remove the temporary file: on  *)
(* their own target, and on any other.                                     *)
LEMMA OpenTmpExclusive ==
    ASSUME TypeOK, NEW t \in Targets, Exclusive(t), NEW j \in Jobs, OpenTmp(j),
           t \notin contended'
    PROVE  Exclusive(t)'
<1> DEFINE r      == job[j]
           others == {k \in Jobs \ {j} : Busy(k, r.cur)}
           shared == {k \in others : job[k].at = "tmp"}
           f      == [whole |-> FALSE, mtime |-> clock, body |-> r.body]
           n      == [r EXCEPT !.pc = "write", !.at = "tmp", !.mixed = shared # {}]
<1>1. r \in Local /\ PhaseOK(r) /\ r.pc = "open" BY DEF TypeOK, OpenTmp
<1>2. r.cur \in Targets BY <1>1 DEF PhaseOK
<1>3. /\ tmp' = [tmp EXCEPT ![r.cur] = f]
      /\ job' = [k \in Jobs |-> IF k = j THEN n
                 ELSE IF k \in shared THEN [job[k] EXCEPT !.mixed = TRUE]
                 ELSE job[k]]
      /\ contended' = IF others = {} THEN contended ELSE contended \cup {r.cur}
      /\ UNCHANGED <<clock, src, out, prov, excused, spent>>
  BY DEF OpenTmp
<1>4. /\ n.pc = "write" /\ n.cur = r.cur /\ n.at = "tmp"
      /\ n.mixed = (shared # {})
  BY <1>1 DEF Local
<1>5. clock' = clock /\ clock' \in 0 .. MaxClock /\ clock <= clock'
  <2>1. clock' = clock BY <1>3
  <2>2. clock \in 0 .. MaxClock BY DEF TypeOK
  <2> QED BY <2>1, <2>2, BoundsAssumption
<1>6. \A k \in Jobs : k \notin shared \cup {j} => job'[k] = job[k] BY <1>3
<1>7. job'[j] = n BY <1>3
<1>8. f.mtime = clock OBVIOUS
<1>9. CASE r.cur # t
  <2>1. tmp'[t] = tmp[t] /\ out'[t] = out[t] BY <1>2, <1>3, <1>9 DEF TypeOK
  <2>2. ASSUME NEW k \in shared, k # j PROVE job'[k].cur # t
    <3>1. job'[k] = [job[k] EXCEPT !.mixed = TRUE] /\ job[k].cur = r.cur
      BY <1>3, <2>2 DEF Busy
    <3>2. job[k] \in Local BY DEF TypeOK
    <3> HIDE DEF shared
    <3> QED BY <1>9, <3>1, <3>2 DEF Local
  <2>3. job'[j].cur # t BY <1>4, <1>7, <1>9
  <2> HIDE DEF shared, n
  <2> QED BY <1>5, <1>6, <2>1, <2>2, <2>3, ExclusiveFrame
<1>10. CASE r.cur = t
  <2>1. others = {} BY <1>3, <1>10
  <2>2. shared = {} BY <2>1
  <2>3. ASSUME NEW k \in Jobs, k # j
        PROVE  job'[k] = job[k] /\ ~Busy(k, t) /\ ~Busy(k, t)'
    BY <1>6, <1>10, <2>1, <2>2, <2>3 DEF Busy
  <2> HIDE DEF n, others, shared
  <2>4. tmp'[t] = f /\ out'[t] = out[t] BY <1>3, <1>10 DEF TypeOK
  <2> HIDE DEF f
  <2>5. (out[t] # None => out[t].whole /\ out[t].mtime <= clock)'
    BY <1>5, <2>4 DEF Exclusive
  <2>6. (tmp[t] # None => /\ tmp[t].mtime <= clock
                          /\ out[t] # None => out[t].mtime <= tmp[t].mtime)'
    BY <1>5, <1>8, <2>4 DEF Exclusive
  <2>7. (\A i, k \in Jobs : Busy(i, t) /\ Busy(k, t) => i = k)' BY <2>3
  <2>8. ASSUME NEW k \in Jobs, job'[k].cur = t
        PROVE  /\ job'[k].pc = "write" => job'[k].at # "out" /\ ~job'[k].mixed
               /\ job'[k].pc = "write" /\ job'[k].at # "tmp" => tmp'[t] = None
               /\ job'[k].pc = "publish" /\ tmp'[t] # None => tmp'[t].whole
    BY <1>4, <1>7, <2>2, <2>3, <2>8 DEF Busy
  <2> QED BY <2>5, <2>6, <2>7, <2>8 DEF Exclusive
<1> QED BY <1>9, <1>10

LEMMA FinishWriteExclusive ==
    ASSUME TypeOK, NEW t \in Targets, Exclusive(t), NEW j \in Jobs, FinishWrite(j)
    PROVE  Exclusive(t)'
<1> DEFINE r == job[j]
           n == [r EXCEPT !.pc = "publish", !.at = "none"]
<1>1. r \in Local /\ PhaseOK(r) /\ r.pc = "write" BY DEF TypeOK, FinishWrite
<1>2. r.cur \in Targets BY <1>1 DEF PhaseOK
<1>3. PICK w \in IF r.mixed THEN BOOLEAN ELSE {TRUE} :
        LET f == [whole |-> w, mtime |-> clock, body |-> r.body] IN
          /\ tmp' = IF r.at = "tmp" THEN [tmp EXCEPT ![r.cur] = f] ELSE tmp
          /\ out' = IF r.at = "out" THEN [out EXCEPT ![r.cur] = f] ELSE out
  BY DEF FinishWrite
<1> DEFINE f == [whole |-> w, mtime |-> clock, body |-> r.body]
<1>4. /\ tmp' = IF r.at = "tmp" THEN [tmp EXCEPT ![r.cur] = f] ELSE tmp
      /\ out' = IF r.at = "out" THEN [out EXCEPT ![r.cur] = f] ELSE out
  BY <1>3
<1>5. f.whole = w /\ f.mtime = clock OBVIOUS
<1>6. n.pc = "publish" /\ n.cur = r.cur BY <1>1 DEF Local
<1>7. job' = [job EXCEPT ![j] = n] /\ clock' = clock
  BY DEF FinishWrite, Become, n
<1>8. clock \in 0 .. MaxClock /\ clock' \in 0 .. MaxClock /\ clock <= clock'
  BY <1>7, BoundsAssumption DEF TypeOK
<1> HIDE DEF f, n
<1>9. /\ job'[j] = n
      /\ \A k \in Jobs : k # j => job'[k] = job[k]
  BY <1>7 DEF TypeOK
<1>10. CASE r.cur # t
  <2>1. tmp'[t] = tmp[t] /\ out'[t] = out[t] BY <1>2, <1>4, <1>10 DEF TypeOK
  <2> QED BY <1>6, <1>8, <1>9, <1>10, <2>1, ExclusiveFrame
<1>11. CASE r.cur = t
  <2>1. /\ r.at # "out" /\ ~r.mixed
        /\ r.at # "tmp" => tmp[t] = None
    BY <1>1, <1>11 DEF Exclusive
  <2>2. w = TRUE BY <1>3, <2>1
  <2>3. out'[t] = out[t] /\ \/ r.at = "tmp" /\ tmp'[t] = f
                            \/ r.at # "tmp" /\ tmp'[t] = None
    BY <1>4, <1>11, <2>1 DEF TypeOK
  <2>4. Busy(j, t) BY <1>1, <1>11 DEF Busy
  <2>5. ASSUME NEW k \in Jobs, k # j
        PROVE  job'[k] = job[k] /\ ~Busy(k, t) /\ ~Busy(k, t)'
    <3>1. job'[k] = job[k] BY <1>9, <2>5
    <3>2. ~Busy(k, t) BY <2>4, <2>5 DEF Exclusive
    <3> QED BY <3>1, <3>2 DEF Busy
  <2>6. (out[t] # None => out[t].whole /\ out[t].mtime <= clock)'
    BY <1>7, <2>3 DEF Exclusive
  <2>7. (tmp[t] # None => /\ tmp[t].mtime <= clock
                          /\ out[t] # None => out[t].mtime <= tmp[t].mtime)'
    BY <1>5, <1>7, <1>8, <2>3 DEF Exclusive
  <2>8. (\A i, k \in Jobs : Busy(i, t) /\ Busy(k, t) => i = k)' BY <2>5
  <2>9. ASSUME NEW k \in Jobs, job'[k].cur = t
        PROVE  /\ job'[k].pc = "write" => job'[k].at # "out" /\ ~job'[k].mixed
               /\ job'[k].pc = "write" /\ job'[k].at # "tmp" => tmp'[t] = None
               /\ job'[k].pc = "publish" /\ tmp'[t] # None => tmp'[t].whole
    BY <1>5, <1>6, <1>9, <2>2, <2>3, <2>5, <2>9 DEF Busy
  <2> QED BY <2>6, <2>7, <2>8, <2>9 DEF Exclusive
<1> QED BY <1>10, <1>11
LEMMA PublishExclusive ==
    ASSUME TypeOK, NEW t \in Targets, Exclusive(t), NEW j \in Jobs, Publish(j)
    PROVE  Exclusive(t)'
<1> DEFINE r == job[j]
           n == IF r.cur \in Groups THEN NextGroup(r)
                ELSE [r EXCEPT !.pc = "cleanup", !.ok = TRUE]
<1>1. Good(r) /\ r \in Local /\ r.pc = "publish" BY JobType DEF Publish
<1>2. r.cur \in Targets BY <1>1 DEF Good, PhaseOK
<1>3. clock' = clock BY DEF Publish
<1>4. clock \in 0 .. MaxClock /\ clock' \in 0 .. MaxClock /\ clock <= clock'
  BY <1>3, BoundsAssumption DEF TypeOK
<1>5. CASE tmp[r.cur] = None
  <2>1. Become(j, Raise(r)) /\ UNCHANGED <<out, tmp>> BY <1>5 DEF Publish
  <2>2. ~Writing(Raise(r)) BY <1>1, <1>2, RaiseType DEF Writing
  <2> HIDE DEF r
  <2> QED BY <1>3, <2>1, <2>2, BecomeExclusive
<1>6. CASE tmp[r.cur] # None
  <2>1. /\ out' = [out EXCEPT ![r.cur] = tmp[r.cur]]
        /\ tmp' = [tmp EXCEPT ![r.cur] = None]
        /\ job' = [k \in Jobs |-> IF k = j THEN n
                   ELSE IF job[k].cur = r.cur
                   THEN [job[k] EXCEPT !.at = AfterRename(@)] ELSE job[k]]
    BY <1>6 DEF Publish
  <2>2. ~Writing(n)
    <3>1. CASE r.cur \in Groups
      <4>1. r.todo \in Seq(Groups) BY <1>1, <3>1 DEF Good, PhaseOK
      <4> QED BY <1>1, <3>1, <4>1, NextGroupType DEF Writing
    <3>2. CASE r.cur \notin Groups
      BY <1>1, <3>2 DEF Writing, Local
    <3> QED BY <3>1, <3>2
  <2>3. job'[j] = n BY <2>1
  <2>4. ASSUME NEW k \in Jobs, k # j
        PROVE  /\ job'[k].cur = job[k].cur /\ job'[k].pc = job[k].pc
               /\ job[k].cur # r.cur => job'[k] = job[k]
    <3>1. job[k] \in Local BY DEF TypeOK
    <3>2. job'[k] \in {[job[k] EXCEPT !.at = AfterRename(@)], job[k]}
      BY <2>1, <2>4
    <3>3. job[k].cur # r.cur => job'[k] = job[k] BY <2>1, <2>4
    <3> QED BY <3>1, <3>2, <3>3 DEF Local
  <2> HIDE DEF n
  <2>5. CASE r.cur # t
    <3>1. tmp'[t] = tmp[t] /\ out'[t] = out[t] BY <1>2, <2>1, <2>5 DEF TypeOK
    <3> QED BY <1>4, <2>2, <2>3, <2>4, <2>5, <3>1, ExclusiveFrame
  <2>6. CASE r.cur = t
    <3>1. out'[t] = tmp[t] /\ tmp'[t] = None BY <2>1, <2>6 DEF TypeOK
    <3>2. tmp[t].whole /\ tmp[t].mtime <= clock
      BY <1>1, <1>6, <2>6 DEF Exclusive
    <3>3. Busy(j, t) BY <1>1, <2>6 DEF Busy
    <3>4. ASSUME NEW k \in Jobs
          PROVE  ~Busy(k, t)' /\ (job'[k].cur = t => ~Writing(job'[k]))
      <4>1. CASE k = j BY <2>2, <2>3, <4>1 DEF Busy, Writing
      <4>2. CASE k # j
        <5>1. ~Busy(k, t) BY <3>3, <4>2 DEF Exclusive
        <5> QED BY <2>4, <4>2, <5>1 DEF Busy, Writing
      <4> QED BY <4>1, <4>2
    <3> QED BY <1>3, <3>1, <3>2, <3>4 DEF Exclusive, Writing
  <2> QED BY <2>5, <2>6
<1> QED BY <1>5, <1>6

LEMMA CleanupExclusive ==
    ASSUME TypeOK, NEW t \in Targets, Exclusive(t), NEW j \in Jobs, Cleanup(j)
    PROVE  Exclusive(t)'
<1> DEFINE r == job[j]
           n == IF r.ok THEN [r EXCEPT !.pc = "record"] ELSE NextMember(r)
<1>1. Good(r) /\ r \in Local /\ r.pc = "cleanup" BY JobType DEF Cleanup
<1>2. r.cur \in Members /\ r.cur \in Targets BY <1>1 DEF Good, PhaseOK
<1>3. clock' = clock /\ out' = out BY DEF Cleanup
<1>4. clock \in 0 .. MaxClock /\ clock' \in 0 .. MaxClock /\ clock <= clock'
  BY <1>3, BoundsAssumption DEF TypeOK
<1>5. /\ tmp' = [tmp EXCEPT ![r.cur] = None]
      /\ job' = [k \in Jobs |-> IF k = j THEN n
                 ELSE IF job[k].cur = r.cur /\ job[k].at = "tmp"
                 THEN [job[k] EXCEPT !.at = "gone"] ELSE job[k]]
  BY DEF Cleanup
<1>6. ~Writing(n)
  <2>1. r.todo \in Seq(Members) BY <1>1, <1>2 DEF Good, PhaseOK
  <2>2. CASE r.ok BY <1>1, <2>2 DEF Writing, Local
  <2>3. CASE ~r.ok BY <1>1, <2>1, <2>3, NextMemberType DEF Writing
  <2> QED BY <2>2, <2>3
<1>7. job'[j] = n BY <1>5
<1>8. ASSUME NEW k \in Jobs, k # j
      PROVE  /\ job'[k].cur = job[k].cur /\ job'[k].pc = job[k].pc
             /\ job'[k].mixed = job[k].mixed
             /\ job'[k].at \in {job[k].at, "gone"}
             /\ job[k].cur # r.cur => job'[k] = job[k]
  <2>1. job[k] \in Local BY DEF TypeOK
  <2>2. job'[k] \in {[job[k] EXCEPT !.at = "gone"], job[k]} BY <1>5, <1>8
  <2>3. job[k].cur # r.cur => job'[k] = job[k] BY <1>5, <1>8
  <2> QED BY <2>1, <2>2, <2>3 DEF Local
<1> HIDE DEF n
<1>9. CASE r.cur # t
  <2>1. tmp'[t] = tmp[t] /\ out'[t] = out[t] BY <1>2, <1>3, <1>5, <1>9 DEF TypeOK
  <2> QED BY <1>4, <1>6, <1>7, <1>8, <1>9, <2>1, ExclusiveFrame
<1>10. CASE r.cur = t
  <2>1. tmp'[t] = None BY <1>5, <1>10 DEF TypeOK
  <2>2. ASSUME NEW i \in Jobs, NEW k \in Jobs, Busy(i, t)', Busy(k, t)'
        PROVE  i = k
    <3>1. i # j /\ k # j BY <1>6, <1>7, <2>2 DEF Busy, Writing
    <3>2. Busy(i, t) /\ Busy(k, t) BY <1>8, <2>2, <3>1 DEF Busy
    <3> QED BY <3>2 DEF Exclusive
  <2>3. ASSUME NEW k \in Jobs, job'[k].cur = t, job'[k].pc = "write"
        PROVE  job'[k].at # "out" /\ ~job'[k].mixed
    <3>1. k # j BY <1>6, <1>7, <2>3 DEF Writing
    <3>2. job[k].at # "out" /\ ~job[k].mixed BY <1>8, <2>3, <3>1 DEF Exclusive
    <3> QED BY <1>8, <3>1, <3>2
  <2> QED BY <1>3, <2>1, <2>2, <2>3 DEF Exclusive
<1> QED BY <1>9, <1>10

-----------------------------------------------------------------------------
(* The inductive invariant and what follows from it.                       *)

LEMMA InitExclusive == Init => \A t \in Targets : Exclusive(t)
<1> SUFFICES ASSUME Init, NEW t \in Targets PROVE Exclusive(t) OBVIOUS
<1>1. out[t] = None /\ tmp[t] = None BY DEF Init
<1>2. \A j \in Jobs : job[j].pc = "idle" BY DEF Init, Idle
<1> QED BY <1>1, <1>2 DEF Exclusive, Busy

LEMMA StepExclusive ==
    ASSUME IInv, [Next]_vars, NEW t \in Targets, t \notin contended'
    PROVE  Exclusive(t)'
<1>1. TypeOK BY DEF IInv
<1>2. contended \subseteq contended'
  <2>1. ASSUME NEW j \in Jobs, JobStep(j) PROVE contended \subseteq contended'
    BY <2>1 DEF JobStep, Check, Skip, ReadVar, OpenTmp, FinishWrite, Publish,
                Cleanup, Record, Concat
  <2> QED BY <2>1 DEF Next, Start, MemberRaises, WriteFails, Kill, EditSource, Tick, vars
<1>3. Exclusive(t) BY <1>2 DEF IInv
<1>4. ASSUME NEW j \in Jobs, Start(j) PROVE Exclusive(t)'
  BY <1>1, <1>3, <1>4, StartExclusive
<1>5. ASSUME NEW j \in Jobs, JobStep(j) PROVE Exclusive(t)'
  BY <1>1, <1>3, <1>5, QuietExclusive, OpenTmpExclusive, FinishWriteExclusive,
     PublishExclusive, CleanupExclusive DEF JobStep
<1>6. ASSUME NEW j \in Jobs, MemberRaises(j) \/ WriteFails(j) \/ Kill(j)
      PROVE  Exclusive(t)'
  BY <1>1, <1>3, <1>6, QuietExclusive
<1>7. ASSUME \/ \E m \in Members, g \in Streams : EditSource(m, g)
             \/ Tick \/ UNCHANGED vars
      PROVE  Exclusive(t)'
  <2>1. UNCHANGED <<out, tmp, job>> BY <1>7 DEF EditSource, Tick, vars
  <2>2. clock' \in {clock, clock + 1} /\ clock' \in 0 .. MaxClock
    <3>1. clock \in 0 .. MaxClock BY <1>1 DEF TypeOK
    <3>2. clock' = clock \/ (clock < MaxClock /\ clock' = clock + 1)
      BY <1>7 DEF EditSource, Tick, vars
    <3> QED BY <3>1, <3>2, BoundsAssumption
  <2>3. clock <= clock' BY <1>1, <2>2 DEF TypeOK
  <2> QED BY <1>1, <1>3, <2>1, <2>2, <2>3, ExclusiveFrame
<1> QED BY <1>4, <1>5, <1>6, <1>7 DEF Next

LEMMA IInvStep == IInv /\ [Next]_vars => IInv'
<1> SUFFICES ASSUME IInv, [Next]_vars PROVE IInv' OBVIOUS
<1>1. TypeOK' BY StepType DEF IInv
<1>2. (\A t \in Targets \ contended : Exclusive(t))' BY StepExclusive
<1> QED BY <1>1, <1>2 DEF IInv

LEMMA Inductive == Spec => []IInv
<1>1. Init => IInv BY InitType, InitExclusive DEF IInv
<1> QED BY <1>1, IInvStep, PTL DEF Spec

(* For any number of members, groups, jobs, crashes and faults: what a     *)
(* reader finds at a path that two jobs never wrote at once is whole.      *)
THEOREM Wholeness == Spec => []WholeUnlessContended
<1>1. IInv => WholeUnlessContended
  BY DEF IInv, Exclusive, WholeUnlessContended
<1> QED BY <1>1, Inductive, PTL
-----------------------------------------------------------------------------
(* Every step of the jobs is a step of AtomicStore, or a stutter.          *)

LEMMA FinishWriteRefines ==
    ASSUME IInv, NEW j \in Jobs, FinishWrite(j)
    PROVE  [Store!Next]_Store!vars
<1> DEFINE r == job[j]
           t == r.cur
<1>1. TypeOK BY DEF IInv
<1>2. r \in Local /\ PhaseOK(r) /\ r.pc = "write"
  BY <1>1 DEF TypeOK, FinishWrite
<1>3. t \in Targets BY <1>2 DEF PhaseOK
<1>4. PICK w \in BOOLEAN :
        LET f == [whole |-> w, mtime |-> clock, body |-> r.body] IN
          out' = IF r.at = "out" THEN [out EXCEPT ![t] = f] ELSE out
  BY DEF FinishWrite
<1>5. contended' = contended BY DEF FinishWrite
<1>6. CASE r.at # "out"
  BY <1>4, <1>5, <1>6 DEF Store!vars
<1>7. CASE r.at = "out"
  <2>1. t \in contended BY <1>2, <1>3, <1>7 DEF IInv, Exclusive
  <2> DEFINE f == [whole |-> w, mtime |-> clock, body |-> r.body]
  <2>2. r.body \in Body BY <1>2 DEF Local
  <2>3. clock \in Nat BY <1>1, BoundsAssumption DEF TypeOK
  <2>4. f \in Store!File BY <2>2, <2>3 DEF Store!File
  <2>5. out' = [out EXCEPT ![t] = f] BY <1>4, <1>7
  <2> HIDE DEF f, t
  <2>6. out'[t] = f BY <1>1, <1>3, <2>5 DEF TypeOK
  <2>7. Store!Scribble(t)
    BY <1>5, <2>1, <2>4, <2>5, <2>6 DEF Store!Scribble, Store!Replaced
  <2> QED BY <1>3, <2>7 DEF Store!Next
<1> QED BY <1>6, <1>7

LEMMA PublishRefines ==
    ASSUME IInv, NEW j \in Jobs, Publish(j)
    PROVE  [Store!Next]_Store!vars
<1> DEFINE r == job[j]
           t == r.cur
<1>1. TypeOK BY DEF IInv
<1>2. r \in Local /\ PhaseOK(r) /\ r.pc = "publish"
  BY <1>1 DEF TypeOK, Publish
<1>3. t \in Targets BY <1>2 DEF PhaseOK
<1>4. contended' = contended BY DEF Publish
<1>5. CASE tmp[t] = None
  <2>1. out' = out BY <1>5 DEF Publish
  <2> QED BY <1>4, <2>1 DEF Store!vars
<1>6. CASE tmp[t] # None
  <2>1. out' = [out EXCEPT ![t] = tmp[t]] BY <1>6 DEF Publish
  <2>2. tmp[t] \in File BY <1>1, <1>3, <1>6 DEF TypeOK
  <2>3. tmp[t] \in Store!File BY <2>2, BoundsAssumption DEF File, Store!File
  <2>4. CASE t \in contended
    <3> HIDE DEF t
    <3>1. out'[t] = tmp[t] BY <1>1, <1>3, <2>1 DEF TypeOK
    <3>2. Store!Scribble(t)
      BY <1>4, <2>1, <2>3, <2>4, <3>1 DEF Store!Scribble, Store!Replaced
    <3> QED BY <1>3, <3>2 DEF Store!Next
  <2>5. CASE t \notin contended
    <3>1. Exclusive(t) BY <1>3, <2>5 DEF IInv
    <3>2. tmp[t].whole /\ (out[t] # None => out[t].mtime <= tmp[t].mtime)
      BY <1>2, <1>6, <3>1 DEF Exclusive
    <3> HIDE DEF t
    <3>3. out'[t] = tmp[t] BY <1>1, <1>3, <2>1 DEF TypeOK
    <3>4. Store!Put(t)
      BY <1>4, <2>1, <2>3, <2>5, <3>2, <3>3 DEF Store!Put, Store!Replaced
    <3> QED BY <1>3, <3>4 DEF Store!Next
  <2> QED BY <2>4, <2>5
<1> QED BY <1>5, <1>6

LEMMA OpenTmpRefines ==
    ASSUME TypeOK, NEW j \in Jobs, OpenTmp(j)
    PROVE  [Store!Next]_Store!vars
<1> DEFINE t == job[j].cur
<1>1. t \in Targets BY DEF TypeOK, OpenTmp, PhaseOK
<1>2. out' = out /\ contended' \in {contended, contended \cup {t}} BY DEF OpenTmp
<1> HIDE DEF t
<1>3. CASE contended' = contended BY <1>2, <1>3 DEF Store!vars
<1>4. CASE contended' = contended \cup {t}
  <2>1. Store!Spoil(t) BY <1>2, <1>4 DEF Store!Spoil
  <2> QED BY <1>1, <2>1 DEF Store!Next
<1> QED BY <1>2, <1>3, <1>4

(* The rename protocol, with every interleaving, crash and fault of the    *)
(* jobs, implements AtomicStore: what readers find at a path was put there *)
(* whole and never gets older, as long as no two jobs shared its temporary *)
(* file.                                                                   *)
THEOREM Refinement == Spec => ImplementsAtomicStore
<1>1. Init => Store!Init BY DEF Init, Store!Init
<1>2. IInv /\ [Next]_vars => [Store!Next]_Store!vars
  <2> SUFFICES ASSUME IInv, [Next]_vars PROVE [Store!Next]_Store!vars OBVIOUS
  <2>1. TypeOK BY DEF IInv
  <2>2. ASSUME NEW j \in Jobs,
               \/ Start(j) \/ Check(j) \/ Skip(j) \/ ReadVar(j) \/ WriteFails(j)
               \/ MemberRaises(j) \/ Cleanup(j) \/ Record(j) \/ Concat(j) \/ Kill(j)
        PROVE  UNCHANGED <<out, contended>>
    BY <2>2 DEF Start, Check, Skip, ReadVar, WriteFails, MemberRaises, Cleanup, Record,
                  Concat, Kill
  <2>3. ASSUME NEW m \in Members, NEW g \in Streams, EditSource(m, g)
        PROVE  UNCHANGED <<out, contended>>
    BY <2>3 DEF EditSource
  <2>4. CASE Tick BY <2>4 DEF Tick, Store!vars
  <2>5. CASE UNCHANGED vars BY <2>5 DEF vars, Store!vars
  <2>6. ASSUME NEW j \in Jobs,
               Start(j) \/ JobStep(j) \/ MemberRaises(j) \/ WriteFails(j) \/ Kill(j)
        PROVE  [Store!Next]_Store!vars
    <3>1. UNCHANGED <<out, contended>> => [Store!Next]_Store!vars
      BY DEF Store!vars
    <3> QED BY <2>1, <2>2, <2>6, <3>1, FinishWriteRefines, PublishRefines,
               OpenTmpRefines DEF JobStep
  <2> QED BY <2>3, <2>4, <2>5, <2>6 DEF Next, Store!vars
<1> QED BY <1>1, <1>2, Inductive, PTL DEF Spec, Store!Spec, ImplementsAtomicStore

=============================================================================
