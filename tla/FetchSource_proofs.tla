-------------------------- MODULE FetchSource_proofs --------------------------
(***************************************************************************)
(* What a run of extract_data_ap3.sh promises, proved for any models,      *)
(* variables, globs, order of the pairs, server contents and bounds.       *)
(***************************************************************************)
EXTENDS FetchSource, SequenceTheorems, TLAPS

-----------------------------------------------------------------------------
(* The primary tree as a function of <<model, variable, frequency>>.       *)

Files == Models \X Vars \X Freqs

File(x) == local["primary"][x[1]][x[2]][x[3]]

Here(w) == <<FetchModel, w[1], w[2]>>

Trees == [Dirs -> Tree(LocalFile)]

Put(T, d, m, v, f, new) == [T EXCEPT ![d][m][v][f] = new]

LEMMA OneFileChanges ==
    ASSUME NEW D, NEW S, NEW T \in [D -> Tree(S)], NEW d \in D,
           NEW m \in Models, NEW v \in Vars, NEW f \in Freqs, NEW new \in S \cup {None},
           NEW U, U = Put(T, d, m, v, f, new)
    PROVE  /\ U \in [D -> Tree(S)]
           /\ \A x \in Files : U[d][x[1]][x[2]][x[3]]
                 = IF x = <<m, v, f>> THEN new ELSE T[d][x[1]][x[2]][x[3]]
<1> DEFINE F == Freqs
           L == S \cup {None}
<1>1. T \in [D -> [Models -> [Vars -> [F -> L]]]]
  BY DEF Tree
<1>2. PICK a : a = T[d] /\ a \in [Models -> [Vars -> [F -> L]]]
  BY <1>1
<1>3. PICK b : b = a[m] /\ b \in [Vars -> [F -> L]]
  BY <1>2
<1>4. PICK c : c = b[v] /\ c \in [F -> L]
  BY <1>3
<1>5. PICK z : z = [c EXCEPT ![f] = new]
  OBVIOUS
<1>6. PICK e : e = [b EXCEPT ![v] = z]
  OBVIOUS
<1>7. PICK g : g = [a EXCEPT ![m] = e]
  OBVIOUS
<1>8. U = [T EXCEPT ![d] = g]
  BY <1>2, <1>3, <1>4, <1>5, <1>6, <1>7 DEF Put
<1>9. z \in [F -> L] /\ e \in [Vars -> [F -> L]] /\ g \in [Models -> [Vars -> [F -> L]]]
  BY <1>2, <1>3, <1>4, <1>5, <1>6, <1>7
<1>10. U \in [D -> [Models -> [Vars -> [F -> L]]]] /\ U[d] = g
  BY <1>1, <1>8, <1>9
<1>11. ASSUME NEW x \in Files
       PROVE  U[d][x[1]][x[2]][x[3]] = IF x = <<m, v, f>> THEN new ELSE T[d][x[1]][x[2]][x[3]]
  <2>1. PICK p \in Models, q \in Vars, r \in Freqs : x = <<p, q, r>>
    BY DEF Files
  <2>2. g[p][q][r] = IF p = m /\ q = v /\ r = f THEN new ELSE a[p][q][r]
    BY <1>2, <1>3, <1>4, <1>5, <1>6, <1>7, <1>9
  <2>3. x = <<m, v, f>> <=> (p = m /\ q = v /\ r = f)
    BY <2>1
  <2> QED
    BY <1>2, <1>10, <2>1, <2>2, <2>3
<1> QED
  BY <1>10, <1>11 DEF Tree

(* A step that gives the current pair's file w another value.              *)
LEMMA SetsOne ==
    ASSUME local \in Trees, FetchModel \in Models, NEW w \in Vars \X Freqs,
           NEW new \in LocalFile \cup {None}, SetLocal(w, new)
    PROVE  /\ local' \in Trees
           /\ \A x \in Files : File(x)' = IF x = Here(w) THEN new ELSE File(x)
<1>1. PICK T, U, m : T = local /\ U = local' /\ m = FetchModel
  OBVIOUS
<1>2. PICK v \in Vars, f \in Freqs : w = <<v, f>>
  OBVIOUS
<1>3. U = Put(T, "primary", m, v, f, new)
  BY <1>1, <1>2 DEF SetLocal, Put
<1>4. /\ T \in [Dirs -> Tree(LocalFile)] /\ m \in Models /\ "primary" \in Dirs
      /\ new \in LocalFile \cup {None}
  BY <1>1 DEF Trees, Dirs
<1>5. /\ U \in [Dirs -> Tree(LocalFile)]
      /\ \A x \in Files : U["primary"][x[1]][x[2]][x[3]]
            = IF x = <<m, v, f>> THEN new ELSE T["primary"][x[1]][x[2]][x[3]]
  BY <1>2, <1>3, <1>4, OneFileChanges
<1> QED
  BY <1>1, <1>2, <1>5 DEF File, Here, Trees

(* The two clean-ups. *)
Clean(x) == File(x) = None \/ File(x).size # "empty"

InPair(x) == x[1] = FetchModel /\ <<x[2], x[3]>> \in Globbed

LEMMA Sweeps ==
    ASSUME local \in Trees, FetchModel \in Models, local' = Swept
    PROVE  /\ local' \in Trees
           /\ \A x \in Files : File(x)' = IF InPair(x) /\ ~NonEmpty(File(x)) THEN None ELSE File(x)
<1> DEFINE F == Freqs
           L == LocalFile \cup {None}
<1>1. PICK T, U, m, G : T = local /\ U = local' /\ m = FetchModel /\ G = Globbed
  OBVIOUS
<1>2. T \in [Dirs -> [Models -> [Vars -> [F -> L]]]] /\ "primary" \in Dirs /\ m \in Models
  BY <1>1 DEF Trees, Tree, Dirs
<1>3. PICK a : a = T["primary"] /\ a \in [Models -> [Vars -> [F -> L]]]
  BY <1>2
<1>4. PICK b : b = a[m] /\ b \in [Vars -> [F -> L]]
  BY <1>2, <1>3
<1>5. PICK e : e = [v \in Vars |-> [f \in F |->
                        IF <<v, f>> \in G /\ ~NonEmpty(b[v][f]) THEN None ELSE b[v][f]]]
  OBVIOUS
<1>6. PICK g : g = [a EXCEPT ![m] = e]
  OBVIOUS
<1>7. U = [T EXCEPT !["primary"] = g]
  BY <1>1, <1>2, <1>3, <1>4, <1>5, <1>6 DEF Swept
<1>8. e \in [Vars -> [F -> L]]
  BY <1>4, <1>5
<1>9. g \in [Models -> [Vars -> [F -> L]]]
  BY <1>3, <1>6, <1>8
<1>10. U \in [Dirs -> [Models -> [Vars -> [F -> L]]]] /\ U["primary"] = g
  BY <1>2, <1>7, <1>9
<1>11. ASSUME NEW x \in Files
       PROVE  U["primary"][x[1]][x[2]][x[3]]
                 = IF x[1] = m /\ <<x[2], x[3]>> \in G /\ ~NonEmpty(T["primary"][x[1]][x[2]][x[3]])
                   THEN None ELSE T["primary"][x[1]][x[2]][x[3]]
  <2>1. PICK p \in Models, q \in Vars, r \in Freqs : x = <<p, q, r>>
    BY DEF Files
  <2>2. CASE p = m
    <3>1. g[p][q][r] = e[q][r]
      BY <1>2, <1>3, <1>6, <2>2
    <3> QED
      BY <1>3, <1>4, <1>5, <1>10, <2>1, <2>2, <3>1
  <2>3. CASE p # m
    BY <1>3, <1>6, <1>10, <2>1, <2>3
  <2> QED
    BY <2>2, <2>3
<1> QED
  BY <1>1, <1>10, <1>11 DEF File, InPair, Trees, Tree

-----------------------------------------------------------------------------
(* Type correctness.  That what waits to be copied belongs to the current  *)
(* pair survives the step to the next one because nothing waits then.      *)

TypeInv == FetchTypeOK /\ (fetch.pc \in {"wipe", "look", "sweep"} => fetch.queue = {})

LEMMA PairFacts ==
    ASSUME FetchTypeOK, Fetching
    PROVE  /\ fetch.todo \in Seq(Pairs) /\ fetch.todo # <<>>
           /\ FetchPair \in Pairs /\ FetchModel \in Models /\ Globbed \subseteq Vars \X Freqs
           /\ local \in Trees
<1>1. fetch.todo \in Seq(Pairs) /\ fetch.todo # <<>>
  BY DEF FetchTypeOK, FetchState
<1>2. FetchPair \in Pairs
  <2>1. PICK t : t = fetch.todo
    OBVIOUS
  <2>2. Head(t) \in Pairs
    BY <1>1, <2>1
  <2> QED
    BY <2>1, <2>2 DEF FetchPair
<1>3. FetchModel \in Models /\ FetchPair[2] \in Vars
  BY <1>2 DEF Pairs, FetchModel
<1>4. Globbed \subseteq Vars \X Freqs
  BY <1>3, FetchAssumption DEF Globbed
<1> QED
  BY <1>1, <1>2, <1>3, <1>4 DEF FetchTypeOK, CatalogueTypeOK, Trees

LEMMA RemoteFacts ==
    ASSUME FetchTypeOK, Fetching, NEW w \in Vars \X Freqs, RemoteAt(w) # None
    PROVE  RemoteAt(w).ver \in Versions /\ RemoteAt(w).full \in BOOLEAN
<1>1. PICK rel \in Releases, m \in Models, v \in Vars, f \in Freqs :
         rel = fetch.rel /\ m = FetchModel /\ w = <<v, f>>
  BY PairFacts DEF FetchTypeOK, FetchState
<1>2. remote[rel][m][v][f] \in RemoteFile \cup {None}
  BY <1>1 DEF FetchTypeOK, CatalogueTypeOK, Tree
<1>3. RemoteAt(w) \in RemoteFile
  BY <1>1, <1>2 DEF RemoteAt
<1> QED
  BY <1>3 DEF RemoteFile

LEMMA IdleType == NotFetching \in FetchState /\ NotFetching.pc = "idle"
<1>1. /\ 0 \in 0 .. MaxUploads /\ 0 \in 0 .. MaxFaults
  BY CatalogueAssumption
<1> QED
  BY <1>1 DEF NotFetching, FetchState, Releases

LEMMA DoneType ==
    ASSUME NEW r \in FetchState, NEW exit \in {"ok", "killed"}
    PROVE  LET d == FetchDone(r, exit)
           IN  /\ d \in FetchState /\ d.pc = "idle" /\ d.exit = exit
               /\ d.renew = r.renew /\ d.kept = r.kept /\ d.since = r.since
<1>1. PICK n, a, k, s : n = NotFetching /\ a = r.renew /\ k = r.kept /\ s = r.since
  OBVIOUS
<1>2. FetchDone(r, exit) = [n EXCEPT !.exit = exit, !.renew = a, !.kept = k, !.since = s]
  BY <1>1 DEF FetchDone
<1>3. /\ a \in {"none"} \cup Settings /\ k \in SUBSET (Models \X Vars \X Freqs)
      /\ s \in (0 .. MaxUploads) \X (0 .. MaxFaults)
  BY <1>1 DEF FetchState
<1>4. n \in FetchState /\ n.pc = "idle"
  BY <1>1, IdleType
<1> QED
  BY <1>1, <1>2, <1>3, <1>4 DEF FetchState

LEMMA NextPairType ==
    ASSUME NEW r \in FetchState, r.todo # <<>>
    PROVE  LET n == NextPair(r)
           IN  /\ n \in FetchState
               /\ n.renew = r.renew /\ n.kept = r.kept /\ n.since = r.since
               /\ \/ n.pc = "idle" /\ n.exit = "ok" /\ Len(r.todo) = 1
                  \/ /\ n.pc = "wipe" /\ n.exit = r.exit /\ n.queue = r.queue
                     /\ n.todo = Tail(r.todo) /\ n.todo # <<>>
<1>1. CASE Len(r.todo) = 1
  <2>1. NextPair(r) = FetchDone(r, "ok")
    BY <1>1 DEF NextPair
  <2> QED
    BY <1>1, <2>1, DoneType
<1>2. CASE Len(r.todo) # 1
  <2>1. PICK w, t : w = r.todo /\ t = Tail(w) /\ w \in Seq(Pairs) /\ w # <<>> /\ Len(w) # 1
    BY <1>2 DEF FetchState
  <2>2. t \in Seq(Pairs) /\ t # <<>>
    <3>1. PICK k : k = Len(w)
      OBVIOUS
    <3>2. k \in Nat /\ k # 0 /\ k # 1
      BY <2>1, <3>1, EmptySeq
    <3>3. k - 1 # 0
      BY <3>2
    <3>4. t \in Seq(Pairs) /\ Len(t) = k - 1
      BY <2>1, <3>1
    <3> QED
      BY <3>3, <3>4
  <2>3. NextPair(r) = [r EXCEPT !.pc = "wipe", !.todo = t]
    BY <1>2, <2>1 DEF NextPair, FetchState
  <2> QED
    BY <2>1, <2>2, <2>3 DEF FetchState
<1> QED
  BY <1>1, <1>2

Found(rel) == {w \in Globbed : remote[rel][FetchModel][w[1]][w[2]] # None}

LEMMA CopyingType ==
    ASSUME FetchTypeOK, Fetching, NEW rel \in Releases
    PROVE  LET n == Copying(fetch, rel)
           IN  /\ n \in FetchState /\ n.pc = "scp" /\ n.rel = rel /\ n.todo = fetch.todo
               /\ n.queue = Found(rel) /\ n.queue \subseteq Globbed
               /\ n.failed = (Found(rel) = {})
               /\ n.renew = fetch.renew /\ n.kept = fetch.kept /\ n.since = fetch.since
               /\ n.exit = fetch.exit
<1>1. PICK r, q, b : r = fetch /\ q = Found(rel) /\ b = (q = {})
  OBVIOUS
<1>2. r \in FetchState /\ q \subseteq Globbed /\ q \in SUBSET (Vars \X Freqs) /\ b \in BOOLEAN
  BY <1>1, PairFacts DEF FetchTypeOK, Found
<1>3. Copying(fetch, rel) = [r EXCEPT !.pc = "scp", !.rel = rel, !.queue = q, !.failed = b]
  BY <1>1 DEF Copying, Found
<1>4. LET n == Copying(fetch, rel)
      IN  /\ n \in FetchState /\ n.pc = "scp" /\ n.rel = rel /\ n.todo = r.todo
          /\ n.queue = q /\ n.failed = b /\ n.exit = r.exit
          /\ n.renew = r.renew /\ n.kept = r.kept /\ n.since = r.since
  BY <1>2, <1>3 DEF FetchState
<1> QED
  BY <1>1, <1>2, <1>4

(* The files of the current pair are named by what is left to do. *)
LEMMA SamePair ==
    ASSUME fetch'.todo = fetch.todo
    PROVE  FetchPair' = FetchPair /\ FetchModel' = FetchModel /\ Globbed' = Globbed
BY DEF FetchPair, FetchModel, Globbed

LEMMA TypeInit ==
    ASSUME FetchInit
    PROVE  TypeInv
<1>1. NoTree \in Tree(LocalFile)
  BY DEF NoTree, Tree
<1>2. local \in [Dirs -> Tree(LocalFile)]
  BY <1>1, CatalogueAssumption DEF FetchInit, CatalogueInit
<1>3. remote \in [Releases -> Tree(RemoteFile)]
  BY CatalogueAssumption DEF FetchInit, CatalogueInit
<1>4. /\ 0 \in 0 .. MaxUploads /\ 0 \in 0 .. MaxFaults
      /\ 0 \in 0 .. MaxStarts /\ 0 \in 0 .. MaxClock
  BY CatalogueAssumption
<1>5. CatalogueTypeOK
  BY <1>2, <1>3, <1>4 DEF FetchInit, CatalogueInit, CatalogueTypeOK
<1> QED
  BY <1>5, IdleType DEF FetchInit, TypeInv, FetchTypeOK, Fetching

LEMMA TypeStart ==
    ASSUME TypeInv, FetchStart
    PROVE  TypeInv'
<1>1. PICK renew \in Settings :
         fetch' = [NotFetching EXCEPT !.pc = "wipe", !.renew = renew, !.todo = PairOrder,
                                      !.kept = Valid, !.since = Weather]
  BY DEF FetchStart
<1>2. PICK n, t, k, c : n = NotFetching /\ t = PairOrder /\ k = Valid /\ c = Weather
  OBVIOUS
<1>3. /\ t \in Seq(Pairs) /\ t # <<>> /\ k \in SUBSET (Models \X Vars \X Freqs)
      /\ c \in (0 .. MaxUploads) \X (0 .. MaxFaults)
  BY <1>2, CatalogueAssumption
     DEF TypeInv, FetchTypeOK, CatalogueTypeOK, Valid, Weather
<1>4. n \in FetchState /\ n.queue = {}
  BY <1>2, IdleType DEF NotFetching
<1>5. fetch' \in FetchState /\ fetch'.pc = "wipe" /\ fetch'.todo # <<>> /\ fetch'.queue = {}
  BY <1>1, <1>2, <1>3, <1>4 DEF FetchState
<1>6. spent' \in [uploads : 0 .. MaxUploads, faults : 0 .. MaxFaults, starts : 0 .. MaxStarts]
  BY CatalogueAssumption DEF FetchStart, Start, TypeInv, FetchTypeOK, CatalogueTypeOK
<1>7. CatalogueTypeOK'
  BY <1>6 DEF FetchStart, TypeInv, FetchTypeOK, CatalogueTypeOK
<1> QED
  BY <1>5, <1>7 DEF TypeInv, FetchTypeOK

LEMMA TypeWipe ==
    ASSUME TypeInv, Wipe
    PROVE  TypeInv'
<1>1. Fetching /\ FetchTypeOK
  BY DEF Wipe, Fetching, TypeInv
<1>2. PICK r : r = fetch /\ r \in FetchState /\ r.queue = {} /\ r.todo # <<>>
  BY <1>1 DEF TypeInv, FetchTypeOK, Wipe
<1>3. fetch' = [r EXCEPT !.pc = "look"]
  BY <1>2 DEF Wipe
<1>4. fetch' \in FetchState /\ fetch'.pc = "look" /\ fetch'.queue = {} /\ fetch'.todo # <<>>
  BY <1>2, <1>3 DEF FetchState
<1>5. processed' \in [Pairs -> Output \cup {None}] /\ made' \in SUBSET Models
  BY <1>1, PairFacts DEF Wipe, FetchTypeOK, CatalogueTypeOK
<1>6. CatalogueTypeOK'
  BY <1>1, <1>5 DEF Wipe, FetchTypeOK, CatalogueTypeOK
<1> QED
  BY <1>4, <1>6 DEF TypeInv, FetchTypeOK

LEMMA TypeLook ==
    ASSUME TypeInv, Look
    PROVE  TypeInv'
<1>1. Fetching /\ FetchTypeOK /\ fetch \in FetchState /\ fetch.queue = {} /\ fetch.todo # <<>>
  BY DEF Look, Fetching, TypeInv, FetchTypeOK
<1>2. CatalogueTypeOK'
  BY <1>1, PairFacts, Sweeps DEF Look, FetchTypeOK, CatalogueTypeOK, Trees
<1>3. CASE fetch' = NextPair(fetch)
  BY <1>1, <1>2, <1>3, NextPairType DEF TypeInv, FetchTypeOK, Fetching
<1>4. CASE fetch' = Copying(fetch, "2019")
  <2>1. /\ fetch' \in FetchState /\ fetch'.pc = "scp" /\ fetch'.todo = fetch.todo
        /\ fetch'.queue \subseteq Globbed
    BY <1>1, <1>4, CopyingType DEF Releases
  <2> QED
    BY <1>1, <1>2, <2>1, SamePair DEF TypeInv, FetchTypeOK
<1> QED
  BY <1>3, <1>4 DEF Look

LEMMA TypeSweep ==
    ASSUME TypeInv, Sweep
    PROVE  TypeInv'
<1>1. Fetching /\ FetchTypeOK /\ fetch \in FetchState /\ fetch.queue = {} /\ fetch.todo # <<>>
  BY DEF Sweep, Fetching, TypeInv, FetchTypeOK
<1>2. CatalogueTypeOK'
  BY <1>1, PairFacts, Sweeps DEF Sweep, FetchTypeOK, CatalogueTypeOK, Trees
<1> QED
  BY <1>1, <1>2, NextPairType DEF Sweep, TypeInv, FetchTypeOK, Fetching

LEMMA TypeScpEnd ==
    ASSUME TypeInv, ScpEnd
    PROVE  TypeInv'
<1>1. Fetching /\ FetchTypeOK /\ fetch \in FetchState /\ fetch.queue = {} /\ fetch.todo # <<>>
  BY DEF ScpEnd, Fetching, TypeInv, FetchTypeOK
<1>2. CatalogueTypeOK'
  BY <1>1 DEF ScpEnd, FetchTypeOK, CatalogueTypeOK
<1>3. CASE fetch' = Copying(fetch, "AP3")
  <2>1. /\ fetch' \in FetchState /\ fetch'.pc = "scp" /\ fetch'.todo = fetch.todo
        /\ fetch'.queue \subseteq Globbed
    BY <1>1, <1>3, CopyingType DEF Releases
  <2> QED
    BY <1>1, <1>2, <2>1, SamePair DEF TypeInv, FetchTypeOK
<1>4. CASE fetch' = [fetch EXCEPT !.pc = "sweep"]
  <2>1. PICK r : r = fetch /\ r \in FetchState /\ r.queue = {} /\ r.todo # <<>>
    BY <1>1
  <2>2. fetch' = [r EXCEPT !.pc = "sweep"]
    BY <1>4, <2>1
  <2>3. fetch' \in FetchState /\ fetch'.pc = "sweep" /\ fetch'.queue = {} /\ fetch'.todo # <<>>
    BY <2>1, <2>2 DEF FetchState
  <2> QED
    BY <1>2, <2>3 DEF TypeInv, FetchTypeOK
<1> QED
  BY <1>3, <1>4 DEF ScpEnd

LEMMA TypeKill ==
    ASSUME TypeInv, FetchKill
    PROVE  TypeInv'
<1>1. CatalogueTypeOK' /\ fetch \in FetchState
  BY DEF FetchKill, TypeInv, FetchTypeOK, CatalogueTypeOK
<1> QED
  BY <1>1, DoneType DEF FetchKill, TypeInv, FetchTypeOK, Fetching

LEMMA LocalFacts ==
    ASSUME FetchTypeOK, Fetching, NEW w \in Globbed
    PROVE  /\ w \in Vars \X Freqs /\ Here(w) \in Files /\ File(Here(w)) = LocalAt(w)
           /\ LocalAt(w) \in LocalFile \cup {None}
<1>1. PICK m \in Models, v \in Vars, f \in Freqs : m = FetchModel /\ w = <<v, f>>
  BY PairFacts
<1>2. local["primary"][m][v][f] \in LocalFile \cup {None}
  BY <1>1, PairFacts DEF Trees, Tree, Dirs
<1> QED
  BY <1>1, <1>2 DEF LocalAt, Here, Files, File

LEMMA TypeScpOpen ==
    ASSUME TypeInv, ScpOpen
    PROVE  TypeInv'
<1>1. Fetching /\ FetchTypeOK /\ fetch \in FetchState /\ fetch.queue \subseteq Globbed
  BY DEF ScpOpen, Fetching, TypeInv, FetchTypeOK
<1>2. PICK w \in fetch.queue :
         IF RemoteAt(w) = None
         THEN /\ fetch' = [fetch EXCEPT !.queue = @ \ {w}, !.failed = TRUE]
              /\ UNCHANGED local
         ELSE /\ fetch' = [fetch EXCEPT !.pc = "copy", !.queue = @ \ {w},
                                        !.file = w, !.gets = RemoteAt(w).full]
              /\ SetLocal(w, [size |-> "empty", ver |-> RemoteAt(w).ver, mtime |-> clock])
  BY DEF ScpOpen
<1>3. PICK r, q : r = fetch /\ q = r.queue \ {w}
  OBVIOUS
<1>4. /\ r \in FetchState /\ r.pc = "scp" /\ r.todo # <<>>
      /\ w \in Vars \X Freqs /\ w \in Globbed
      /\ q \subseteq Globbed /\ q \in SUBSET (Vars \X Freqs)
  BY <1>1, <1>3, PairFacts DEF ScpOpen
<1>5. /\ clock \in 0 .. MaxClock /\ clock' = clock
      /\ spent' = spent /\ processed' = processed /\ made' = made /\ remote' = remote
  BY <1>1 DEF ScpOpen, FetchTypeOK, CatalogueTypeOK
<1>6. CASE RemoteAt(w) = None
  <2>1. fetch' = [r EXCEPT !.queue = q, !.failed = TRUE]
    BY <1>2, <1>3, <1>6
  <2>2. /\ fetch' \in FetchState /\ fetch'.pc = "scp" /\ fetch'.queue = q
        /\ fetch'.todo = r.todo
    BY <1>4, <2>1 DEF FetchState
  <2>3. CatalogueTypeOK'
    BY <1>1, <1>2, <1>5, <1>6 DEF FetchTypeOK, CatalogueTypeOK
  <2> QED
    BY <1>3, <1>4, <2>2, <2>3, SamePair DEF TypeInv, FetchTypeOK
<1>7. CASE RemoteAt(w) # None
  <2>1. PICK b, new : /\ b = RemoteAt(w).full
                      /\ new = [size |-> "empty", ver |-> RemoteAt(w).ver, mtime |-> clock]
    OBVIOUS
  <2>2. b \in BOOLEAN /\ RemoteAt(w).ver \in Versions
    BY <1>1, <1>4, <1>7, <2>1, RemoteFacts
  <2>3. new \in LocalFile
    BY <1>5, <2>1, <2>2 DEF LocalFile
  <2>4. fetch' = [r EXCEPT !.pc = "copy", !.queue = q, !.file = w, !.gets = b]
    BY <1>2, <1>3, <1>7, <2>1
  <2>5. /\ fetch' \in FetchState /\ fetch'.pc = "copy" /\ fetch'.queue = q
        /\ fetch'.todo = r.todo /\ fetch'.file = w
    BY <1>4, <2>2, <2>4 DEF FetchState
  <2>6. SetLocal(w, new)
    BY <1>2, <1>7, <2>1
  <2>7. /\ local' \in Trees
        /\ \A x \in Files : File(x)' = IF x = Here(w) THEN new ELSE File(x)
    BY <1>1, <1>4, <2>3, <2>6, PairFacts, SetsOne
  <2>8. Globbed' = Globbed /\ FetchModel' = FetchModel
    BY <1>3, <2>5, SamePair
  <2>9. LocalAt(w)' = new
    BY <1>1, <1>4, <2>7, <2>8, LocalFacts DEF File, Here, LocalAt
  <2>10. new # None
    BY <2>3, CatalogueAssumption
  <2>11. CatalogueTypeOK'
    BY <1>1, <1>5, <2>7 DEF FetchTypeOK, CatalogueTypeOK, Trees
  <2>12. (fetch.file \in Globbed /\ LocalAt(fetch.file) # None)'
    BY <1>4, <2>5, <2>8, <2>9, <2>10 DEF LocalAt
  <2> QED
    BY <1>3, <1>4, <2>5, <2>8, <2>11, <2>12 DEF TypeInv, FetchTypeOK
<1> QED
  BY <1>6, <1>7

LEMMA TypeScpDone ==
    ASSUME TypeInv, ScpDone
    PROVE  TypeInv'
<1>1. /\ Fetching /\ FetchTypeOK /\ fetch \in FetchState /\ fetch.queue \subseteq Globbed
      /\ fetch.todo # <<>> /\ fetch.file \in Globbed /\ LocalAt(fetch.file) # None
  BY DEF ScpDone, Fetching, TypeInv, FetchTypeOK
<1>2. PICK w, old, size, now, new :
         /\ w = fetch.file /\ old = LocalAt(w) /\ now = clock
         /\ size = (IF fetch.gets THEN "full" ELSE "empty")
         /\ new = [old EXCEPT !.size = size, !.mtime = now]
  OBVIOUS
<1>3. old \in LocalFile
  BY <1>1, <1>2, LocalFacts
<1>4. new \in LocalFile
  BY <1>1, <1>2, <1>3 DEF LocalFile, FetchTypeOK, CatalogueTypeOK
<1>5. SetLocal(w, new)
  BY <1>2 DEF ScpDone
<1>6. local' \in Trees
  BY <1>1, <1>2, <1>4, <1>5, LocalFacts, PairFacts, SetsOne
<1>7. CatalogueTypeOK'
  BY <1>1, <1>6 DEF ScpDone, FetchTypeOK, CatalogueTypeOK, Trees
<1>8. PICK r : r = fetch
  OBVIOUS
<1>9. fetch' = [r EXCEPT !.pc = "scp"]
  BY <1>8 DEF ScpDone
<1>10. /\ fetch' \in FetchState /\ fetch'.pc = "scp" /\ fetch'.todo = fetch.todo
       /\ fetch'.queue = fetch.queue
  BY <1>1, <1>8, <1>9 DEF FetchState
<1> QED
  BY <1>1, <1>7, <1>10, SamePair DEF TypeInv, FetchTypeOK

(* What there is of a file half way. *)
Half == [LocalAt(fetch.file) EXCEPT !.size = "part", !.mtime = clock]

LEMMA ScpDataFile ==
    ASSUME TypeInv, ScpData
    PROVE  /\ Half \in LocalFile /\ SetLocal(fetch.file, Half)
           /\ fetch.file \in Globbed /\ Fetching /\ FetchTypeOK /\ fetch' = fetch
<1>1. SetLocal(fetch.file, Half) /\ fetch' = fetch
  BY DEF ScpData, Half
<1>2. FetchTypeOK /\ Fetching /\ fetch.file \in Globbed /\ LocalAt(fetch.file) # None
  BY DEF ScpData, TypeInv, FetchTypeOK, Fetching
<1>3. PICK old, now : old = LocalAt(fetch.file) /\ now = clock
  OBVIOUS
<1>4. old \in LocalFile /\ now \in 0 .. MaxClock
  BY <1>2, <1>3, LocalFacts DEF FetchTypeOK, CatalogueTypeOK
<1>5. [old EXCEPT !.size = "part", !.mtime = now] \in LocalFile
  BY <1>4 DEF LocalFile
<1> QED
  BY <1>1, <1>2, <1>3, <1>5 DEF Half

LEMMA TypeScpData ==
    ASSUME TypeInv, ScpData
    PROVE  TypeInv'
<1>1. PICK w, new : w = fetch.file /\ new = Half
  OBVIOUS
<1>2. /\ new \in LocalFile /\ SetLocal(w, new) /\ w \in Globbed
      /\ Fetching /\ FetchTypeOK /\ fetch' = fetch
  BY <1>1, ScpDataFile
<1>3. /\ local' \in Trees
      /\ \A x \in Files : File(x)' = IF x = Here(w) THEN new ELSE File(x)
  BY <1>2, PairFacts, SetsOne
<1>4. Globbed' = Globbed /\ FetchModel' = FetchModel
  BY <1>2, SamePair
<1>5. LocalAt(w)' = new
  BY <1>2, <1>3, <1>4, LocalFacts DEF File, Here, LocalAt
<1>6. (fetch.file \in Globbed /\ LocalAt(fetch.file) # None)'
  BY <1>1, <1>2, <1>4, <1>5, CatalogueAssumption DEF LocalAt
<1>7. CatalogueTypeOK'
  BY <1>2, <1>3 DEF ScpData, FetchTypeOK, CatalogueTypeOK, Trees
<1> QED
  BY <1>2, <1>4, <1>6, <1>7 DEF TypeInv, FetchTypeOK, Fetching

LEMMA TypeScpFail ==
    ASSUME TypeInv, ScpFail
    PROVE  TypeInv'
<1>1. /\ Fetching /\ FetchTypeOK /\ fetch \in FetchState /\ fetch.queue \subseteq Globbed
      /\ fetch.todo # <<>>
  BY DEF ScpFail, Fetching, TypeInv, FetchTypeOK
<1>2. PICK r : r = fetch
  OBVIOUS
<1>3. PICK rest \in {{}, r.queue} :
         fetch' = [r EXCEPT !.pc = "scp", !.queue = rest, !.failed = TRUE]
  BY <1>2 DEF ScpFail
<1>4. rest \subseteq Globbed /\ rest \in SUBSET (Vars \X Freqs)
  BY <1>1, <1>2, <1>3, PairFacts
<1>5. /\ fetch' \in FetchState /\ fetch'.pc = "scp" /\ fetch'.todo = fetch.todo
      /\ fetch'.queue = rest
  BY <1>1, <1>2, <1>3, <1>4 DEF FetchState
<1>6. spent' \in [uploads : 0 .. MaxUploads, faults : 0 .. MaxFaults, starts : 0 .. MaxStarts]
  BY CatalogueAssumption DEF ScpFail, Fault, TypeInv, FetchTypeOK, CatalogueTypeOK
<1>7. CatalogueTypeOK'
  BY <1>1, <1>6 DEF ScpFail, FetchTypeOK, CatalogueTypeOK
<1> QED
  BY <1>1, <1>4, <1>5, <1>7, SamePair DEF TypeInv, FetchTypeOK

LEMMA TypeWorld ==
    ASSUME TypeInv, World, fetch' = fetch
    PROVE  TypeInv'
<1>1. CatalogueTypeOK /\ fetch \in FetchState
  BY DEF TypeInv, FetchTypeOK
<1>2. CatalogueTypeOK'
  <2>1. CASE Tick
    BY <1>1, <2>1, CatalogueAssumption DEF Tick, CatalogueTypeOK
  <2>2. ASSUME NEW rel \in Releases, NEW m \in Models, NEW v \in Vars, NEW f \in Freqs,
               Upload(rel, m, v, f)
        PROVE  CatalogueTypeOK'
    <3>1. PICK new \in [full : BOOLEAN, ver : {spent.uploads + 3}] \cup {None} :
             remote' = Put(remote, rel, m, v, f, new)
      BY <2>2 DEF Upload, Put
    <3>2. /\ spent.uploads \in 0 .. MaxUploads /\ spent.uploads < MaxUploads
          /\ MaxUploads \in Nat
      BY <1>1, <2>2, CatalogueAssumption DEF Upload, CatalogueTypeOK
    <3>3. spent.uploads + 3 \in Versions
      BY <3>2 DEF Versions
    <3>4. new \in RemoteFile \cup {None}
      BY <3>1, <3>3 DEF RemoteFile
    <3>5. PICK T, U : T = remote /\ U = remote'
      OBVIOUS
    <3>6. T \in [Releases -> Tree(RemoteFile)] /\ U = Put(T, rel, m, v, f, new)
      BY <1>1, <3>1, <3>5 DEF CatalogueTypeOK
    <3>7. U \in [Releases -> Tree(RemoteFile)]
      BY <3>4, <3>6, OneFileChanges
    <3>8. spent' \in [uploads : 0 .. MaxUploads, faults : 0 .. MaxFaults,
                      starts : 0 .. MaxStarts]
      BY <1>1, <2>2, <3>2 DEF Upload, CatalogueTypeOK
    <3> QED
      BY <1>1, <2>2, <3>5, <3>7, <3>8 DEF Upload, CatalogueTypeOK
  <2> QED
    BY <2>1, <2>2 DEF World
<1>3. local' = local
  BY DEF World, Upload, Tick
<1>4. (LocalAt(fetch.file) # None) => (LocalAt(fetch.file) # None)'
  BY <1>3 DEF LocalAt, FetchModel, FetchPair
<1>5. Globbed' = Globbed
  BY SamePair
<1> QED
  BY <1>2, <1>4, <1>5 DEF TypeInv, FetchTypeOK, Fetching

LEMMA TypeNext ==
    ASSUME TypeInv, [FetchSystem]_fetchVars
    PROVE  TypeInv'
<1>1. CASE UNCHANGED fetchVars
  BY <1>1 DEF fetchVars, catalogue, TypeInv, FetchTypeOK, FetchState, CatalogueTypeOK,
              Fetching, Globbed, FetchPair, FetchModel, LocalAt
<1>2. CASE World /\ UNCHANGED fetch
  BY <1>2, TypeWorld
<1>3. CASE FetchNext
  BY <1>3, TypeStart, TypeWipe, TypeLook, TypeScpOpen, TypeScpData, TypeScpDone,
     TypeScpEnd, TypeSweep, TypeScpFail, TypeKill
  DEF FetchNext, FetchStep, ShellStep, ScpStep
<1> QED
  BY <1>1, <1>2, <1>3 DEF FetchSystem

(* The script's state is always well typed: what it copies is there and    *)
(* belongs to the model and glob it works on, and the loops never run past *)
(* the last pair (extract_data_ap3.sh L82-165). *)
THEOREM FetchTypeCorrect == FetchSpec => []FetchTypeOK
<1>1. FetchInit => TypeInv
  BY TypeInit
<1>2. TypeInv /\ [FetchSystem]_fetchVars => TypeInv'
  BY TypeNext
<1>3. TypeInv => FetchTypeOK
  BY DEF TypeInv
<1> QED
  BY <1>1, <1>2, <1>3, PTL DEF FetchSpec

-----------------------------------------------------------------------------
(* What a step of the script can change.                                   *)

Midway == fetch.pc \in {"scp", "copy", "sweep"}

(* While it copies, only files of the current pair's glob.                 *)
LEMMA ScpTouchesItsPair ==
    ASSUME TypeInv, ScpOpen \/ ScpData \/ ScpDone \/ ScpFail
    PROVE  /\ Fetching /\ Midway
           /\ \A x \in Files : ~InPair(x) => File(x)' = File(x)
           /\ fetch'.pc \in {"scp", "copy"} /\ fetch'.todo = fetch.todo
           /\ fetch'.renew = fetch.renew /\ fetch'.kept = fetch.kept
           /\ fetch'.exit = fetch.exit /\ fetch'.since = fetch.since
           /\ fetch'.rel = fetch.rel
<1>1. Fetching /\ Midway /\ FetchTypeOK
  BY DEF ScpOpen, ScpData, ScpDone, ScpFail, Fetching, Midway, TypeInv
<1>2. PICK r : r = fetch /\ r \in FetchState
  BY <1>1 DEF FetchTypeOK
<1>3. /\ fetch'.pc \in {"scp", "copy"} /\ fetch'.todo = r.todo
      /\ fetch'.renew = r.renew /\ fetch'.kept = r.kept
      /\ fetch'.exit = r.exit /\ fetch'.since = r.since /\ fetch'.rel = r.rel
  <2>1. ASSUME ScpOpen
        PROVE  \E q, w, b : \/ fetch' = [r EXCEPT !.queue = q, !.failed = TRUE] /\ r.pc = "scp"
                            \/ fetch' = [r EXCEPT !.pc = "copy", !.queue = q,
                                                  !.file = w, !.gets = b]
    <3>1. PICK w \in fetch.queue :
             \/ /\ fetch' = [r EXCEPT !.queue = @ \ {w}, !.failed = TRUE]
                /\ r.pc = "scp"
             \/ fetch' = [r EXCEPT !.pc = "copy", !.queue = @ \ {w},
                                   !.file = w, !.gets = RemoteAt(w).full]
      BY <1>2, <2>1 DEF ScpOpen
    <3>2. PICK q, b : q = r.queue \ {w} /\ b = RemoteAt(w).full
      OBVIOUS
    <3>3. \/ fetch' = [r EXCEPT !.queue = q, !.failed = TRUE] /\ r.pc = "scp"
          \/ fetch' = [r EXCEPT !.pc = "copy", !.queue = q, !.file = w, !.gets = b]
      BY <3>1, <3>2
    <3> WITNESS q, w, b
    <3> QED
      BY <3>3
  <2>2. ASSUME ScpDone
        PROVE  fetch' = [r EXCEPT !.pc = "scp"]
    BY <1>2, <2>2 DEF ScpDone
  <2>3. ASSUME ScpFail
        PROVE  \E q : fetch' = [r EXCEPT !.pc = "scp", !.queue = q, !.failed = TRUE]
    BY <1>2, <2>3 DEF ScpFail
  <2>4. CASE ScpOpen
    BY <1>2, <2>1, <2>4 DEF FetchState
  <2>5. CASE ScpDone
    BY <1>2, <2>2, <2>5 DEF FetchState
  <2>6. CASE ScpFail
    BY <1>2, <2>3, <2>6 DEF FetchState
  <2>7. CASE ScpData
    BY <1>2, <2>7 DEF ScpData
  <2> QED
    BY <2>4, <2>5, <2>6, <2>7
<1>4. ASSUME NEW x \in Files, ~InPair(x)
      PROVE  File(x)' = File(x)
  <2>1. CASE local' = local
    BY <2>1 DEF File
  <2>2. CASE local' # local
    <3>1. PICK w \in Globbed, new \in LocalFile : SetLocal(w, new)
      <4>1. CASE ScpOpen
        <5>1. PICK w \in fetch.queue : /\ RemoteAt(w) # None
                 /\ SetLocal(w, [size |-> "empty", ver |-> RemoteAt(w).ver, mtime |-> clock])
          BY <2>2, <4>1 DEF ScpOpen
        <5>2. w \in Globbed /\ w \in Vars \X Freqs
          BY <1>1, PairFacts DEF FetchTypeOK
        <5>3. RemoteAt(w).ver \in Versions /\ clock \in 0 .. MaxClock
          BY <1>1, <5>1, <5>2, RemoteFacts DEF FetchTypeOK, CatalogueTypeOK
        <5> QED
          BY <5>1, <5>2, <5>3 DEF LocalFile
      <4>2. CASE ScpDone
        <5>1. fetch.file \in Globbed /\ LocalAt(fetch.file) # None
          BY <4>2 DEF ScpDone, TypeInv, FetchTypeOK
        <5>2. PICK old, now, size : /\ old = LocalAt(fetch.file) /\ now = clock
                                    /\ size = (IF fetch.gets THEN "full" ELSE "empty")
          OBVIOUS
        <5>3. old \in LocalFile /\ now \in 0 .. MaxClock
          BY <1>1, <5>1, <5>2, LocalFacts DEF FetchTypeOK, CatalogueTypeOK
        <5>4. [old EXCEPT !.size = size, !.mtime = now] \in LocalFile
          BY <5>2, <5>3 DEF LocalFile
        <5>5. SetLocal(fetch.file, [old EXCEPT !.size = size, !.mtime = now])
          BY <4>2, <5>2 DEF ScpDone
        <5> QED
          BY <5>1, <5>4, <5>5
      <4>3. CASE ScpData
        BY <4>3, ScpDataFile
      <4> QED
        BY <2>2, <4>1, <4>2, <4>3 DEF ScpFail
    <3>2. File(x)' = IF x = Here(w) THEN new ELSE File(x)
      BY <1>1, <1>4, <3>1, PairFacts, SetsOne
    <3>3. InPair(Here(w))
      BY <1>1, <3>1, PairFacts DEF InPair, Here
    <3> QED
      BY <1>4, <3>2, <3>3
  <2> QED
    BY <2>1, <2>2
<1> QED
  BY <1>1, <1>2, <1>3, <1>4

(* Every other step that changes a file is one of the clean-ups.           *)
LEMMA OtherSteps ==
    ASSUME TypeInv, [FetchSystem]_fetchVars
    PROVE  \/ ScpOpen \/ ScpData \/ ScpDone \/ ScpFail
           \/ Look /\ local' = Swept
           \/ Sweep /\ local' = Swept
           \/ (FetchStart \/ Wipe \/ ScpEnd \/ FetchKill \/ fetch' = fetch) /\ local' = local
BY DEF FetchSystem, FetchNext, FetchStep, ShellStep, ScpStep, FetchStart, Wipe,
       ScpEnd, FetchKill, Look, Sweep, World, Tick, Upload, fetchVars, catalogue

-----------------------------------------------------------------------------
(* RENEW=false: once the skip test has passed, the pair's glob lists no    *)
(* file that held data at the start, so scp cannot meet one.               *)

KeepInv ==
    Fetching /\ fetch.renew = "false" =>
        /\ \A x \in fetch.kept : NonEmpty(File(x))
        /\ Midway => \A x \in fetch.kept : ~InPair(x)

LEMMA KeptIsFiles ==
    ASSUME FetchTypeOK
    PROVE  fetch.kept \subseteq Files
BY DEF FetchTypeOK, FetchState, Files

(* The promise for one step. *)
KeepStep ==
    Fetching /\ fetch.renew = "false" =>
        \A x \in fetch.kept : local'["primary"][x[1]][x[2]][x[3]]
                                  = local["primary"][x[1]][x[2]][x[3]]

LEMMA KeepsStep ==
    ASSUME TypeInv, KeepInv, [FetchSystem]_fetchVars
    PROVE  KeepStep
<1> SUFFICES ASSUME Fetching, fetch.renew = "false", NEW x \in fetch.kept
             PROVE  File(x)' = File(x)
  BY DEF KeepStep, File
<1>1. x \in Files /\ FetchTypeOK
  BY KeptIsFiles DEF TypeInv
<1>2. CASE ScpOpen \/ ScpData \/ ScpDone \/ ScpFail
  BY <1>1, <1>2, ScpTouchesItsPair DEF KeepInv
<1>3. CASE local' = Swept
  BY <1>1, <1>3, Sweeps, PairFacts DEF KeepInv
<1>4. CASE local' = local
  BY <1>4 DEF File
<1> QED
  BY <1>2, <1>3, <1>4, OtherSteps

(* A step that leaves the script's choice and history alone.               *)
LEMMA KeepSame ==
    ASSUME TypeInv, KeepInv, [FetchSystem]_fetchVars, Fetching,
           fetch'.renew = fetch.renew, fetch'.kept = fetch.kept, fetch'.todo = fetch.todo,
           Midway' => Midway
    PROVE  KeepInv'
<1> SUFFICES ASSUME Fetching', fetch.renew = "false"
             PROVE  KeepInv'
  BY DEF KeepInv
<1>1. \A x \in fetch.kept : NonEmpty(File(x)')
  BY KeepsStep DEF KeepInv, KeepStep, File
<1>2. Midway' => \A x \in fetch.kept : ~InPair(x)
  BY DEF KeepInv
<1> QED
  BY <1>1, <1>2, SamePair DEF KeepInv, InPair, NonEmpty

LEMMA KeepNext ==
    ASSUME TypeInv, KeepInv, [FetchSystem]_fetchVars
    PROVE  KeepInv'
<1>0. FetchTypeOK /\ (Fetching => fetch.todo # <<>>) /\ fetch \in FetchState
  BY DEF TypeInv, FetchTypeOK
<1>1. CASE FetchStart
  <2>1. PICK n, k, t, c : n = NotFetching /\ k = Valid /\ t = PairOrder /\ c = Weather
                          /\ n \in FetchState
    BY IdleType
  <2>2. fetch'.pc = "wipe" /\ fetch'.kept = k
    BY <1>1, <2>1 DEF FetchStart, FetchState
  <2>3. \A x \in k : NonEmpty(File(x)')
    BY <1>1, <2>1 DEF FetchStart, Valid, File
  <2> QED
    BY <2>2, <2>3 DEF KeepInv, Midway, NonEmpty
<1>2. CASE ScpOpen \/ ScpData \/ ScpDone \/ ScpFail
  BY <1>2, ScpTouchesItsPair, KeepSame
<1>3. CASE Wipe \/ ScpEnd
  <2>1. PICK r : r = fetch /\ r \in FetchState
    BY <1>0
  <2>2. /\ Fetching /\ (Midway' => Midway) /\ fetch'.renew = r.renew /\ fetch'.kept = r.kept
        /\ fetch'.todo = r.todo
    <3>1. CASE Wipe
      BY <2>1, <3>1 DEF Wipe, Fetching, Midway, FetchState
    <3>2. CASE ScpEnd
      <4>1. CASE fetch' = Copying(fetch, "AP3")
        BY <1>0, <2>1, <3>2, <4>1, CopyingType DEF ScpEnd, Fetching, Midway, Releases
      <4>2. CASE fetch' = [r EXCEPT !.pc = "sweep"]
        BY <2>1, <3>2, <4>2 DEF ScpEnd, Fetching, Midway, FetchState
      <4> QED
        BY <2>1, <3>2, <4>1, <4>2 DEF ScpEnd
    <3> QED
      BY <1>3, <3>1, <3>2
  <2> QED
    BY <2>1, <2>2, KeepSame
<1>4. CASE FetchKill
  BY <1>0, <1>4, DoneType DEF FetchKill, KeepInv, Fetching
<1>5. CASE Look /\ fetch' = Copying(fetch, "2019")
  <2>1. Fetching
    BY <1>5 DEF Look, Fetching
  <2>2. /\ fetch'.renew = fetch.renew /\ fetch'.kept = fetch.kept /\ fetch'.todo = fetch.todo
    BY <1>0, <1>5, <2>1, CopyingType DEF Releases
  <2> SUFFICES ASSUME fetch.renew = "false"
               PROVE  KeepInv'
    BY <2>2 DEF KeepInv
  <2>3. fetch' # NextPair(fetch) \/ ~Midway'
    BY <1>0, <2>1, NextPairType DEF Midway
  <2>4. ~Midway' \/ \A w \in Globbed : ~NonEmpty(LocalAt(w))
    BY <1>5, <2>3 DEF Look
  <2>5. \A x \in fetch.kept : NonEmpty(File(x)')
    BY <2>1, KeepsStep DEF KeepInv, KeepStep, File
  <2>6. Midway' => \A x \in fetch.kept : ~InPair(x)
    BY <2>1, <2>4 DEF KeepInv, InPair, LocalAt, File
  <2> QED
    BY <2>2, <2>5, <2>6, SamePair DEF KeepInv, InPair, NonEmpty
<1>6. CASE (Look \/ Sweep) /\ fetch' = NextPair(fetch)
  <2>1. Fetching
    BY <1>6 DEF Look, Sweep, Fetching
  <2>2. fetch'.renew = fetch.renew /\ fetch'.kept = fetch.kept /\ ~Midway'
    BY <1>0, <1>6, <2>1, NextPairType DEF Midway
  <2>3. fetch.renew = "false" => \A x \in fetch.kept : NonEmpty(File(x)')
    BY <2>1, KeepsStep DEF KeepInv, KeepStep, File
  <2> QED
    BY <2>2, <2>3 DEF KeepInv, NonEmpty
<1>7. CASE fetch' = fetch /\ local' = local
  BY <1>7 DEF KeepInv, Fetching, Midway, File, InPair, NonEmpty, FetchModel, FetchPair, Globbed
<1> QED
  BY <1>1, <1>2, <1>3, <1>4, <1>5, <1>6, <1>7, OtherSteps DEF Look, Sweep

(* No step of a run under RENEW=false touches a file that held data when   *)
(* the script started, whatever fails and whatever changes on the server   *)
(* (extract_data_ap3.sh L124-127).                                         *)
THEOREM SafeMode == FetchSpec => SafeModeKeepsData
<1>1. FetchInit => TypeInv /\ KeepInv
  BY TypeInit DEF FetchInit, KeepInv, Fetching, NotFetching
<1>2. TypeInv /\ KeepInv /\ [FetchSystem]_fetchVars => (TypeInv /\ KeepInv)'
  BY TypeNext, KeepNext
<1>3. TypeInv /\ KeepInv /\ [FetchSystem]_fetchVars => [KeepStep]_fetchVars
  BY KeepsStep
<1> QED
  BY <1>1, <1>2, <1>3, PTL DEF FetchSpec, SafeModeKeepsData, KeepStep

-----------------------------------------------------------------------------
(* 0-byte files: none lies under the glob of a pair that is done with, but *)
(* for those of the current pair's glob while it copies.                   *)

Ran(t) == {t[i] : i \in DOMAIN t}

Lists(p, x) == x[1] = p[1] /\ x[2] \in Matches[p[2]]

Handled(x) == \E p \in Toured : p \notin Ran(fetch.todo) /\ Lists(p, x)

EmptyInv ==
    /\ Fetching => /\ fetch.exit = "none"
                   /\ \A x \in Files : Handled(x) /\ ~(Midway /\ InPair(x)) => Clean(x)
    /\ fetch.exit = "ok" => \A x \in Files : (\E p \in Toured : Lists(p, x)) => Clean(x)

LEMMA RestOfTodo ==
    ASSUME NEW t \in Seq(Pairs), t # <<>>
    PROVE  \A p \in Ran(t) : p = Head(t) \/ (Len(t) # 1 /\ p \in Ran(Tail(t)))
<1>1. PICK n : n = Len(t) /\ n \in Nat
  OBVIOUS
<1>2. n # 0
  BY <1>1, EmptySeq
<1>3. ASSUME NEW p \in Ran(t)
      PROVE  p = Head(t) \/ (Len(t) # 1 /\ p \in Ran(Tail(t)))
  <2>1. PICK i \in 1 .. n : p = t[i]
    BY <1>1 DEF Ran
  <2>2. CASE i = 1
    BY <2>1, <2>2
  <2>3. CASE i # 1
    <3>1. n # 1 /\ i - 1 \in 1 .. n - 1
      BY <1>1, <2>1, <2>3
    <3>2. Len(Tail(t)) = n - 1 /\ Tail(t) \in Seq(Pairs)
      BY <1>1
    <3>3. Tail(t)[i - 1] = t[i]
      BY <1>1, <2>1, <3>1
    <3>4. i - 1 \in DOMAIN Tail(t)
      BY <3>1, <3>2
    <3> QED
      BY <1>1, <2>1, <3>1, <3>3, <3>4 DEF Ran
  <2> QED
    BY <2>2, <2>3
<1> QED
  BY <1>3

LEMMA TouredPairs == Toured = Ran(PairOrder) /\ Toured \subseteq Pairs
<1>1. \A i \in DOMAIN PairOrder : PairOrder[i] \in Pairs
  BY CatalogueAssumption
<1> QED
  BY <1>1 DEF Toured, Ran

LEMMA InPairIsListed ==
    ASSUME NEW x \in Files
    PROVE  InPair(x) <=> Lists(FetchPair, x)
BY DEF Files, InPair, Lists, FetchModel, Globbed

(* The step to the next pair, or to the end, after a clean-up.             *)
LEMMA EmptyNextPair ==
    ASSUME TypeInv, EmptyInv, Fetching, local' = Swept, fetch' = NextPair(fetch)
    PROVE  EmptyInv'
<1>1. /\ FetchTypeOK /\ fetch \in FetchState /\ fetch.todo \in Seq(Pairs) /\ fetch.todo # <<>>
      /\ fetch.exit = "none"
  BY PairFacts DEF TypeInv, FetchTypeOK, EmptyInv
<1>2. ASSUME NEW x \in Files, InPair(x) \/ Clean(x)
      PROVE  Clean(x)'
  BY <1>1, <1>2, Sweeps, PairFacts DEF Clean, NonEmpty
<1>3. ASSUME NEW x \in Files, NEW p \in Toured, Lists(p, x),
             p = FetchPair \/ p \notin Ran(fetch.todo)
      PROVE  Clean(x)'
  BY <1>2, <1>3, InPairIsListed DEF EmptyInv, Handled
<1>4. CASE fetch'.pc = "idle" /\ fetch'.exit = "ok" /\ Len(fetch.todo) = 1
  <2>1. \A p \in Ran(fetch.todo) : p = FetchPair
    BY <1>1, <1>4, RestOfTodo DEF FetchPair
  <2> QED
    BY <1>3, <1>4, <2>1 DEF EmptyInv, Fetching, Lists
<1>5. CASE /\ fetch'.pc = "wipe" /\ fetch'.exit = fetch.exit
           /\ fetch'.todo = Tail(fetch.todo) /\ fetch'.todo # <<>>
  <2>1. Len(fetch.todo) # 1
    <3>1. PICK t : t = fetch.todo /\ t \in Seq(Pairs) /\ t # <<>>
      BY <1>1
    <3>2. ASSUME Len(t) = 1
          PROVE  FALSE
      <4>1. Len(Tail(t)) = 0 /\ Tail(t) \in Seq(Pairs)
        BY <3>1, <3>2
      <4> QED
        BY <1>5, <3>1, <4>1, EmptySeq
    <3> QED
      BY <3>1, <3>2
  <2>2. \A p \in Ran(fetch.todo) : p = FetchPair \/ p \in Ran(fetch'.todo)
    BY <1>1, <1>5, <2>1, RestOfTodo DEF FetchPair
  <2>3. ~Midway'
    BY <1>5 DEF Midway
  <2>4. ASSUME NEW x \in Files, Handled(x)'
        PROVE  Clean(x)'
    <3>1. PICK p \in Toured : p \notin Ran(fetch'.todo) /\ Lists(p, x)
      BY <2>4 DEF Handled
    <3> QED
      BY <1>3, <2>2, <3>1
  <2> QED
    BY <1>1, <1>5, <2>3, <2>4 DEF EmptyInv
<1> QED
  BY <1>1, <1>4, <1>5, NextPairType

(* A step within a pair that only changes files of its own while it copies. *)
LEMMA EmptySamePair ==
    ASSUME EmptyInv, Fetching, fetch'.todo = fetch.todo, fetch'.exit = fetch.exit,
           Midway => Midway',
           \A x \in Files : Clean(x) /\ ~(Midway' /\ InPair(x)) => Clean(x)'
    PROVE  EmptyInv'
<1>1. \A x \in Files : Handled(x)' <=> Handled(x)
  BY DEF Handled
<1>2. \A x \in Files : InPair(x)' <=> InPair(x)
  BY SamePair DEF InPair
<1> QED
  BY <1>1, <1>2 DEF EmptyInv

LEMMA EmptyNext ==
    ASSUME TypeInv, EmptyInv, [FetchSystem]_fetchVars
    PROVE  EmptyInv'
<1>0. FetchTypeOK /\ (Fetching => fetch.todo # <<>>) /\ fetch \in FetchState
  BY DEF TypeInv, FetchTypeOK
<1>1. CASE FetchStart
  <2>1. PICK n, k, t, c : n = NotFetching /\ k = Valid /\ t = PairOrder /\ c = Weather
                          /\ n \in FetchState /\ n.exit = "none"
    BY IdleType DEF NotFetching
  <2>2. fetch'.pc = "wipe" /\ fetch'.exit = "none" /\ fetch'.todo = PairOrder
    BY <1>1, <2>1 DEF FetchStart, FetchState
  <2>3. \A x \in Files : ~Handled(x)'
    BY <2>2, TouredPairs DEF Handled
  <2> QED
    BY <2>2, <2>3 DEF EmptyInv
<1>2. CASE ScpOpen \/ ScpData \/ ScpDone \/ ScpFail
  <2>1. \A x \in Files : Clean(x) /\ ~InPair(x) => Clean(x)'
    BY <1>2, ScpTouchesItsPair DEF Clean
  <2>2. Midway' /\ Fetching /\ fetch'.todo = fetch.todo /\ fetch'.exit = fetch.exit
    BY <1>2, ScpTouchesItsPair DEF Midway
  <2> QED
    BY <2>1, <2>2, EmptySamePair
<1>3. CASE Wipe \/ ScpEnd
  <2>1. PICK r : r = fetch /\ r \in FetchState
    BY <1>0
  <2>2. /\ Fetching /\ (Midway => Midway') /\ fetch'.exit = r.exit /\ fetch'.todo = r.todo
    <3>1. CASE Wipe
      BY <2>1, <3>1 DEF Wipe, Fetching, Midway, FetchState
    <3>2. CASE ScpEnd
      <4>1. CASE fetch' = Copying(fetch, "AP3")
        BY <1>0, <2>1, <3>2, <4>1, CopyingType DEF ScpEnd, Fetching, Midway, Releases
      <4>2. CASE fetch' = [r EXCEPT !.pc = "sweep"]
        BY <2>1, <3>2, <4>2 DEF ScpEnd, Fetching, Midway, FetchState
      <4> QED
        BY <2>1, <3>2, <4>1, <4>2 DEF ScpEnd
    <3> QED
      BY <1>3, <3>1, <3>2
  <2>3. \A x \in Files : Clean(x)' <=> Clean(x)
    BY <1>3 DEF Wipe, ScpEnd, Clean, File
  <2> QED
    BY <2>1, <2>2, <2>3, EmptySamePair
<1>4. CASE FetchKill
  BY <1>0, <1>4, DoneType DEF FetchKill, EmptyInv, Fetching
<1>5. CASE Look /\ fetch' = Copying(fetch, "2019")
  <2>1. Fetching
    BY <1>5 DEF Look, Fetching
  <2>2. fetch'.exit = fetch.exit /\ fetch'.todo = fetch.todo /\ Midway'
    BY <1>0, <1>5, <2>1, CopyingType DEF Releases, Midway
  <2>3. \A x \in Files : Clean(x) => Clean(x)'
    BY <1>0, <1>5, <2>1, Sweeps, PairFacts DEF Look, Clean
  <2> QED
    BY <2>1, <2>2, <2>3, EmptySamePair
<1>6. CASE (Look \/ Sweep) /\ fetch' = NextPair(fetch)
  BY <1>6, EmptyNextPair DEF Look, Sweep, Fetching
<1>7. CASE fetch' = fetch /\ local' = local
  BY <1>7 DEF EmptyInv, Fetching, Midway, File, InPair, FetchModel, FetchPair, Globbed,
              Handled, Clean
<1> QED
  BY <1>1, <1>2, <1>3, <1>4, <1>5, <1>6, <1>7, OtherSteps DEF Look, Sweep

(* A run that came to its end leaves no 0-byte file under a glob it looked *)
(* at: neither a placeholder of the server nor a copy given up, of this    *)
(* run or of one that was killed (extract_data_ap3.sh L99-113, L145-153).  *)
THEOREM NothingEmpty == FetchSpec => []NoEmptyLeft
<1>1. FetchInit => TypeInv /\ EmptyInv
  BY TypeInit DEF FetchInit, EmptyInv, Fetching, NotFetching
<1>2. TypeInv /\ EmptyInv /\ [FetchSystem]_fetchVars => (TypeInv /\ EmptyInv)'
  BY TypeNext, EmptyNext
<1>3. EmptyInv => NoEmptyLeft
  <2> SUFFICES ASSUME EmptyInv, fetch.exit = "ok", NEW p \in Toured,
                      NEW v \in Matches[p[2]], NEW f \in Freqs
               PROVE  Clean(<<p[1], v, f>>)
    BY DEF NoEmptyLeft, Clean, File
  <2>1. p[1] \in Models /\ v \in Vars
    BY TouredPairs, FetchAssumption DEF Pairs
  <2>2. <<p[1], v, f>> \in Files
    BY <2>1 DEF Files
  <2>3. Lists(p, <<p[1], v, f>>)
    BY DEF Lists
  <2> QED
    BY <2>2, <2>3 DEF EmptyInv
<1> QED
  BY <1>1, <1>2, <1>3, PTL DEF FetchSpec

-----------------------------------------------------------------------------
(* What is offered is fetched.  Of a pair that is done with, every file    *)
(* offered whole is whole, unless the current pair's glob lists it too and *)
(* it waits to be copied again - from the same release: if the pair's own  *)
(* release is the first one, the glob that lists its file finds it there.  *)

Calm == fetch.since = Weather

Offer(rel, x) == remote[rel][x[1]][x[2]][x[3]]

Good(x, rel) == Offer(rel, x) # None /\ Offer(rel, x).full =>
                    File(x) # None /\ File(x).size = "full" /\ File(x).ver = Offer(rel, x).ver

Waits(x) == /\ fetch.pc \in {"scp", "copy"} /\ InPair(x)
            /\ \/ <<x[2], x[3]>> \in fetch.queue
               \/ fetch.pc = "copy" /\ fetch.file = <<x[2], x[3]>>

CopyInv ==
    /\ \A x \in Files : Waits(x) => Offer(fetch.rel, x) # None
    /\ \A x \in Files : InPair(x) /\ ~Waits(x) => Good(x, fetch.rel)
    /\ fetch.pc = "copy" => /\ fetch.gets = RemoteAt(fetch.file).full
                            /\ LocalAt(fetch.file).ver = RemoteAt(fetch.file).ver
    /\ fetch.failed <=> Found(fetch.rel) = {}
    /\ fetch.rel = "AP3" => Found("2019") = {}
    /\ fetch.pc = "sweep" => ~(fetch.rel = "2019" /\ fetch.failed)

Ours(p, x) == x[1] = p[1] /\ x[2] = p[2]

GoodOf(p, x) == Good(x, Source(p[1], p[2]))

Since == fetch.since[1] <= spent.uploads /\ fetch.since[2] <= spent.faults

PairsInv ==
    \A p \in Toured, x \in Files :
        p \notin Ran(fetch.todo) /\ Ours(p, x) => Waits(x) \/ GoodOf(p, x)

Copies == Calm /\ fetch.renew # "false"

OfferedInv ==
    /\ Since
    /\ Fetching => fetch.exit = "none"
    /\ Fetching /\ Copies => PairsInv /\ (Midway => CopyInv)
    /\ fetch.exit = "ok" /\ Copies =>
           \A p \in Toured, x \in Files : Ours(p, x) => GoodOf(p, x)

(* A calm step meets no failure and no change of the server.               *)
LEMMA CalmStep ==
    ASSUME TypeInv, Since, FetchSystem, ~FetchStart
    PROVE  Since' /\ (Calm' => Calm /\ remote' = remote /\ ~ScpFail)
<1>1. PICK u, a : /\ u = spent.uploads /\ a = spent.faults
                  /\ u \in Nat /\ a \in Nat
                  /\ spent \in [uploads : 0 .. MaxUploads, faults : 0 .. MaxFaults,
                                starts : 0 .. MaxStarts]
  BY CatalogueAssumption DEF TypeInv, FetchTypeOK, CatalogueTypeOK
<1>2. fetch \in FetchState
  BY DEF TypeInv, FetchTypeOK
<1>3. fetch.since \in (0 .. MaxUploads) \X (0 .. MaxFaults)
  BY <1>2 DEF FetchState
<1>4. PICK i, j : /\ fetch.since = <<i, j>> /\ i \in Nat /\ j \in Nat /\ i <= u /\ j <= a
  BY <1>1, <1>3, CatalogueAssumption DEF Since
<1>5. fetch'.since = fetch.since
  <2>1. CASE ScpOpen \/ ScpData \/ ScpDone \/ ScpFail
    BY <2>1, ScpTouchesItsPair
  <2>2. CASE Wipe
    BY <1>2, <2>2 DEF Wipe, FetchState
  <2>3. CASE Look \/ Sweep \/ ScpEnd
    <3>1. Fetching /\ FetchTypeOK /\ fetch.todo # <<>>
      BY <2>3 DEF Look, Sweep, ScpEnd, Fetching, TypeInv, FetchTypeOK
    <3>2. PICK r : r = fetch /\ r \in FetchState
      BY <1>2
    <3>3. \/ fetch' = NextPair(fetch) \/ fetch' = Copying(fetch, "2019")
          \/ fetch' = Copying(fetch, "AP3") \/ fetch' = [r EXCEPT !.pc = "sweep"]
      BY <2>3, <3>2 DEF Look, Sweep, ScpEnd
    <3>4. CASE fetch' = [r EXCEPT !.pc = "sweep"]
      BY <3>2, <3>4 DEF FetchState
    <3> QED
      BY <1>2, <3>1, <3>3, <3>4, NextPairType, CopyingType DEF Releases
  <2>4. CASE FetchKill
    BY <1>2, <2>4, DoneType DEF FetchKill
  <2> QED
    BY <2>1, <2>2, <2>3, <2>4 DEF FetchSystem, FetchNext, FetchStep, ShellStep, ScpStep
<1>6. \/ spent' = spent /\ remote' = remote /\ ~ScpFail
      \/ spent'.uploads = u + 1 /\ spent'.faults = a
      \/ spent'.uploads = u /\ spent'.faults = a + 1
  <2>1. CASE World
    <3>1. CASE Tick
      BY <1>1, <3>1 DEF Tick, ScpFail, Fault
    <3>2. CASE \E rel \in Releases, m \in Models, v \in Vars, f \in Freqs : Upload(rel, m, v, f)
      BY <1>1, <3>2 DEF Upload
    <3> QED
      BY <2>1, <3>1, <3>2 DEF World
  <2>2. CASE ScpFail
    BY <1>1, <2>2 DEF ScpFail, Fault
  <2>3. CASE FetchStep \/ FetchKill
    <3>1. spent' = spent /\ remote' = remote
      BY <2>3 DEF FetchStep, ShellStep, ScpStep, FetchKill, Wipe, Look, ScpOpen, ScpData, ScpDone,
                     ScpEnd, Sweep
    <3>2. ScpFail => spent'.faults = a + 1
      BY <1>1 DEF ScpFail, Fault
    <3>3. a # a + 1
      BY <1>1
    <3> QED
      BY <1>1, <3>1, <3>2, <3>3
  <2> QED
    BY <2>1, <2>2, <2>3 DEF FetchSystem, FetchNext
<1>7. CASE spent' = spent /\ remote' = remote /\ ~ScpFail
  BY <1>5, <1>7 DEF Since, Calm, Weather
<1>8. CASE spent'.uploads = u + 1 /\ spent'.faults = a
  <2>1. i <= u + 1 /\ i # u + 1
    BY <1>1, <1>4
  <2> QED
    BY <1>1, <1>4, <1>5, <1>8, <2>1 DEF Since, Calm, Weather
<1>9. CASE spent'.uploads = u /\ spent'.faults = a + 1
  <2>1. j <= a + 1 /\ j # a + 1
    BY <1>1, <1>4
  <2> QED
    BY <1>1, <1>4, <1>5, <1>9, <2>1 DEF Since, Calm, Weather
<1> QED
  BY <1>6, <1>7, <1>8, <1>9

(* A file the current pair copies comes from its own pair's release, if    *)
(* that offers it at all. *)
LEMMA SameOffer ==
    ASSUME TypeInv, Fetching, NEW p \in Toured, NEW x \in Files, Ours(p, x), InPair(x),
           Offer(fetch.rel, x) # None, fetch.rel = "AP3" => Found("2019") = {}
    PROVE  Offer(Source(p[1], p[2]), x) = None \/ Source(p[1], p[2]) = fetch.rel
<1>1. PICK m \in Models, v \in Vars, f \in Freqs : x = <<m, v, f>> /\ p[1] = m /\ p[2] = v
  BY DEF Files, Ours
<1>2. <<v, f>> \in Matches[v] \X Freqs
  BY <1>1, FetchAssumption
<1>3. fetch.rel \in {"2019", "AP3"} /\ Source(m, v) \in {"2019", "AP3"}
  BY DEF TypeInv, FetchTypeOK, FetchState, Releases, Source
<1>4. CASE fetch.rel = "2019"
  <2>1. remote["2019"][m][v][f] # None
    BY <1>1, <1>4 DEF Offer
  <2>2. \E w \in Matches[v] \X Freqs : remote["2019"][m][w[1]][w[2]] # None
    <3>1. PICK w : w = <<v, f>>
      OBVIOUS
    <3> QED
      BY <1>2, <2>1, <3>1
  <2>3. Source(m, v) = "2019"
    BY <2>2 DEF Source
  <2> QED
    BY <1>1, <1>4, <2>3
<1>5. CASE fetch.rel = "AP3"
  <2>1. <<v, f>> \in Globbed /\ FetchModel = m
    BY <1>1 DEF InPair
  <2>2. remote["2019"][m][v][f] = None
    BY <1>5, <2>1 DEF Found
  <2> QED
    BY <1>1, <1>3, <1>5, <2>2 DEF Offer
<1> QED
  BY <1>3, <1>4, <1>5

(* A step within a pair. *)
LEMMA OfferedSame ==
    ASSUME OfferedInv, Fetching, Since', Calm' => Calm,
           fetch'.todo = fetch.todo, fetch'.exit = fetch.exit, fetch'.renew = fetch.renew,
           Copies' /\ Midway' => CopyInv',
           Copies' => \A p \in Toured, x \in Files :
               Ours(p, x) /\ (Waits(x) \/ GoodOf(p, x)) => Waits(x)' \/ GoodOf(p, x)'
    PROVE  OfferedInv'
<1>1. Copies' => Copies
  BY DEF Copies
<1>2. fetch'.exit = "none"
  BY DEF OfferedInv
<1>3. ASSUME Copies'
      PROVE  PairsInv'
  <2> SUFFICES ASSUME NEW p \in Toured, NEW x \in Files, p \notin Ran(fetch'.todo), Ours(p, x)
               PROVE  Waits(x)' \/ GoodOf(p, x)'
    BY DEF PairsInv, Ours
  <2>1. Waits(x) \/ GoodOf(p, x)
    BY <1>1, <1>3 DEF OfferedInv, PairsInv
  <2> QED
    BY <1>3, <2>1
<1> QED
  BY <1>2, <1>3 DEF OfferedInv

LEMMA NotWaiting ==
    ASSUME fetch.pc \notin {"scp", "copy"}
    PROVE  \A x : ~Waits(x)
BY DEF Waits

LEMMA OpenCopies ==
    ASSUME TypeInv, CopyInv, ScpOpen
    PROVE  /\ CopyInv'
           /\ \A x \in Files : /\ Waits(x)' <=> Waits(x)
                               /\ ~Waits(x) => File(x)' = File(x)
<1>1. /\ Fetching /\ FetchTypeOK /\ fetch \in FetchState /\ fetch.queue \subseteq Globbed
      /\ fetch.pc = "scp" /\ remote' = remote
  BY DEF ScpOpen, Fetching, TypeInv, FetchTypeOK
<1>2. PICK w \in fetch.queue :
         IF RemoteAt(w) = None
         THEN /\ fetch' = [fetch EXCEPT !.queue = @ \ {w}, !.failed = TRUE]
              /\ UNCHANGED local
         ELSE /\ fetch' = [fetch EXCEPT !.pc = "copy", !.queue = @ \ {w},
                                        !.file = w, !.gets = RemoteAt(w).full]
              /\ SetLocal(w, [size |-> "empty", ver |-> RemoteAt(w).ver, mtime |-> clock])
  BY DEF ScpOpen
<1>3. w \in Globbed /\ w \in Vars \X Freqs /\ Here(w) \in Files /\ InPair(Here(w))
  BY <1>1, PairFacts, LocalFacts DEF InPair, Here
<1>4. /\ Offer(fetch.rel, Here(w)) = RemoteAt(w) /\ Waits(Here(w))
      /\ <<Here(w)[2], Here(w)[3]>> = w
  BY <1>1, <1>3 DEF Offer, RemoteAt, Here, Waits
<1>5. RemoteAt(w) # None
  BY <1>3, <1>4 DEF CopyInv
<1>6. PICK r, q, b, new : /\ r = fetch /\ q = fetch.queue \ {w} /\ b = RemoteAt(w).full
                          /\ new = [size |-> "empty", ver |-> RemoteAt(w).ver, mtime |-> clock]
  OBVIOUS
<1>7. fetch' = [r EXCEPT !.pc = "copy", !.queue = q, !.file = w, !.gets = b]
  BY <1>2, <1>5, <1>6
<1>8. /\ fetch'.pc = "copy" /\ fetch'.queue = q /\ fetch'.file = w /\ fetch'.gets = b
      /\ fetch'.todo = fetch.todo /\ fetch'.rel = fetch.rel /\ fetch'.failed = fetch.failed
  BY <1>1, <1>6, <1>7 DEF FetchState
<1>9. new \in LocalFile /\ new.ver = RemoteAt(w).ver
  BY <1>1, <1>3, <1>5, <1>6, RemoteFacts DEF LocalFile, FetchTypeOK, CatalogueTypeOK
<1>10. \A x \in Files : File(x)' = IF x = Here(w) THEN new ELSE File(x)
  BY <1>1, <1>2, <1>3, <1>5, <1>6, <1>9, PairFacts, SetsOne
<1>11. Globbed' = Globbed /\ FetchModel' = FetchModel
  BY <1>8, SamePair
<1>12. ASSUME NEW x \in Files
       PROVE  Waits(x)' <=> Waits(x)
  BY <1>1, <1>6, <1>8, <1>11, <1>2 DEF Waits, InPair
<1>13. ASSUME NEW x \in Files, ~Waits(x)
       PROVE  File(x)' = File(x)
  BY <1>4, <1>10, <1>13
<1>14. \A x : Offer(fetch.rel, x)' = Offer(fetch.rel, x)
  BY <1>1, <1>8 DEF Offer
<1>15. \A x \in Files : InPair(x)' /\ ~Waits(x)' => Good(x, fetch.rel)'
  <2> SUFFICES ASSUME NEW x \in Files, InPair(x)', ~Waits(x)'
               PROVE  Good(x, fetch.rel)'
    OBVIOUS
  <2>1. InPair(x) /\ ~Waits(x)
    BY <1>11, <1>12 DEF InPair
  <2>2. Good(x, fetch.rel) /\ File(x)' = File(x)
    BY <1>13, <2>1 DEF CopyInv
  <2> QED
    BY <1>14, <2>2 DEF Good
<1>16. RemoteAt(w)' = RemoteAt(w) /\ LocalAt(w)' = new
  BY <1>1, <1>3, <1>8, <1>10, <1>11 DEF RemoteAt, LocalAt, File, Here
<1>17. (/\ fetch.gets = RemoteAt(fetch.file).full
        /\ LocalAt(fetch.file).ver = RemoteAt(fetch.file).ver)'
  BY <1>6, <1>8, <1>9, <1>16 DEF RemoteAt, LocalAt
<1>18. \A rel : Found(rel)' = Found(rel)
  BY <1>1, <1>11 DEF Found
<1>19. CopyInv'
  BY <1>8, <1>12, <1>14, <1>15, <1>17, <1>18 DEF CopyInv
<1> QED
  BY <1>12, <1>13, <1>19

LEMMA DataCopies ==
    ASSUME TypeInv, CopyInv, ScpData
    PROVE  /\ CopyInv'
           /\ \A x \in Files : /\ Waits(x)' <=> Waits(x)
                               /\ ~Waits(x) => File(x)' = File(x)
<1>1. PICK w, new : w = fetch.file /\ new = Half
  OBVIOUS
<1>2. /\ new \in LocalFile /\ SetLocal(w, new) /\ w \in Globbed
      /\ Fetching /\ FetchTypeOK /\ fetch' = fetch
      /\ fetch.pc = "copy" /\ remote' = remote /\ LocalAt(w) # None
  BY <1>1, ScpDataFile DEF ScpData, TypeInv, FetchTypeOK
<1>3. /\ w \in Vars \X Freqs /\ Here(w) \in Files /\ InPair(Here(w))
      /\ <<Here(w)[2], Here(w)[3]>> = w
  BY <1>2, PairFacts, LocalFacts DEF InPair, Here
<1>4. \A x \in Files : File(x)' = IF x = Here(w) THEN new ELSE File(x)
  BY <1>2, PairFacts, SetsOne
<1>5. Globbed' = Globbed /\ FetchModel' = FetchModel
  BY <1>2, SamePair
<1>6. \A x : /\ InPair(x)' <=> InPair(x)
             /\ Waits(x)' <=> Waits(x)
             /\ Offer(fetch.rel, x)' = Offer(fetch.rel, x)
  BY <1>2, <1>5 DEF InPair, Waits, Offer
<1>7. Waits(Here(w))
  BY <1>1, <1>2, <1>3 DEF Waits
<1>8. ASSUME NEW x \in Files, ~Waits(x)
      PROVE  File(x)' = File(x)
  BY <1>4, <1>7, <1>8
<1>9. \A x \in Files : InPair(x)' /\ ~Waits(x)' => Good(x, fetch.rel)'
  BY <1>6, <1>8 DEF CopyInv, Good
<1>10. LocalAt(w)' = new /\ RemoteAt(w)' = RemoteAt(w)
  BY <1>2, <1>3, <1>4, <1>5, LocalFacts DEF File, Here, LocalAt, RemoteAt
<1>11. new.ver = LocalAt(w).ver
  <2>1. PICK old, now : old = LocalAt(w) /\ now = clock
    OBVIOUS
  <2>2. old \in LocalFile
    BY <1>2, <2>1, LocalFacts
  <2>3. new = [old EXCEPT !.size = "part", !.mtime = now]
    BY <1>1, <2>1 DEF Half
  <2> QED
    BY <2>1, <2>2, <2>3 DEF LocalFile
<1>12. (/\ fetch.gets = RemoteAt(fetch.file).full
        /\ LocalAt(fetch.file).ver = RemoteAt(fetch.file).ver)'
  BY <1>1, <1>2, <1>10, <1>11 DEF CopyInv, RemoteAt, LocalAt
<1>13. \A rel : Found(rel)' = Found(rel)
  BY <1>2, <1>5 DEF Found
<1>14. CopyInv'
  BY <1>2, <1>6, <1>9, <1>12, <1>13 DEF CopyInv
<1> QED
  BY <1>6, <1>8, <1>14

LEMMA DoneCopies ==
    ASSUME TypeInv, CopyInv, ScpDone
    PROVE  /\ CopyInv'
           /\ \A x \in Files : /\ Waits(x)' => Waits(x)
                               /\ ~Waits(x) => File(x)' = File(x)
                               /\ Waits(x) /\ ~Waits(x)' => Good(x, fetch.rel)'
<1>1. /\ Fetching /\ FetchTypeOK /\ fetch \in FetchState /\ fetch.pc = "copy" /\ remote' = remote
      /\ fetch.file \in Globbed /\ LocalAt(fetch.file) # None
  BY DEF ScpDone, Fetching, TypeInv, FetchTypeOK
<1>2. PICK w, old, size, now, new :
         /\ w = fetch.file /\ old = LocalAt(w) /\ now = clock
         /\ size = (IF fetch.gets THEN "full" ELSE "empty")
         /\ new = [old EXCEPT !.size = size, !.mtime = now]
  OBVIOUS
<1>3. w \in Vars \X Freqs /\ Here(w) \in Files /\ InPair(Here(w))
  BY <1>1, <1>2, PairFacts, LocalFacts DEF InPair, Here
<1>4. old \in LocalFile /\ now \in 0 .. MaxClock
  BY <1>1, <1>2, LocalFacts DEF FetchTypeOK, CatalogueTypeOK
<1>5. new \in LocalFile /\ new.size = size /\ new.ver = old.ver
  BY <1>2, <1>4 DEF LocalFile
<1>6. PICK r : r = fetch
  OBVIOUS
<1>7. fetch' = [r EXCEPT !.pc = "scp"]
  BY <1>6 DEF ScpDone
<1>8. /\ fetch'.pc = "scp" /\ fetch'.queue = fetch.queue /\ fetch'.todo = fetch.todo
      /\ fetch'.rel = fetch.rel /\ fetch'.failed = fetch.failed
  BY <1>1, <1>6, <1>7 DEF FetchState
<1>9. SetLocal(w, new)
  BY <1>2 DEF ScpDone
<1>10. \A x \in Files : File(x)' = IF x = Here(w) THEN new ELSE File(x)
  BY <1>1, <1>3, <1>5, <1>9, PairFacts, SetsOne
<1>11. Globbed' = Globbed /\ FetchModel' = FetchModel
  BY <1>8, SamePair
<1>12. /\ Offer(fetch.rel, Here(w)) = RemoteAt(w) /\ Waits(Here(w))
       /\ fetch.gets = RemoteAt(w).full /\ old.ver = RemoteAt(w).ver
  <2>1. /\ Offer(fetch.rel, Here(w)) = RemoteAt(w) /\ <<Here(w)[2], Here(w)[3]>> = w
    BY <1>3 DEF Offer, RemoteAt, Here
  <2>2. Waits(Here(w))
    BY <1>1, <1>2, <1>3, <2>1 DEF Waits
  <2> QED
    BY <1>1, <1>2, <2>1, <2>2 DEF CopyInv
<1>13. \A x : Offer(fetch.rel, x)' = Offer(fetch.rel, x)
  BY <1>1, <1>8 DEF Offer
<1>14. new # None
  BY <1>5, CatalogueAssumption
<1>15. Good(Here(w), fetch.rel)'
  <2>1. Offer(fetch.rel, Here(w)).full => new.size = "full"
    BY <1>2, <1>5, <1>12
  <2>2. new.ver = Offer(fetch.rel, Here(w)).ver
    BY <1>2, <1>5, <1>12
  <2>3. PICK x : x = Here(w)
    OBVIOUS
  <2>4. x = Here(w)'
    BY <1>11, <2>3 DEF Here
  <2>5. Good(x, fetch.rel)'
    BY <1>10, <1>13, <1>14, <1>3, <2>1, <2>2, <2>3 DEF Good
  <2> QED
    BY <2>4, <2>5 DEF Good
<1>16. ASSUME NEW x \in Files
       PROVE  /\ Waits(x)' => Waits(x)
              /\ Waits(x) /\ ~Waits(x)' => x = Here(w)
  <2>1. InPair(x)' <=> InPair(x)
    BY <1>11 DEF InPair
  <2>2. Waits(x)' <=> InPair(x) /\ <<x[2], x[3]>> \in fetch.queue
    BY <1>8, <2>1 DEF Waits
  <2>3. Waits(x) <=> InPair(x) /\ (<<x[2], x[3]>> \in fetch.queue \/ w = <<x[2], x[3]>>)
    BY <1>1, <1>2 DEF Waits
  <2>4. InPair(x) /\ w = <<x[2], x[3]>> => x = Here(w)
    BY DEF InPair, Here, Files
  <2> QED
    BY <2>2, <2>3, <2>4
<1>17. ASSUME NEW x \in Files, ~Waits(x)
       PROVE  File(x)' = File(x)
  BY <1>10, <1>12, <1>17
<1>18. ASSUME NEW x \in Files, Waits(x), ~Waits(x)'
       PROVE  Good(x, fetch.rel)'
  <2>1. x = Here(w) /\ x = Here(w)'
    BY <1>11, <1>16, <1>18 DEF Here
  <2> QED
    BY <1>15, <2>1 DEF Good
<1>19. ASSUME NEW x \in Files, InPair(x)', ~Waits(x)'
       PROVE  Good(x, fetch.rel)'
  <2>1. CASE Waits(x)
    BY <1>18, <1>19, <2>1
  <2>2. CASE ~Waits(x)
    <3>1. Good(x, fetch.rel) /\ File(x)' = File(x)
      BY <1>11, <1>17, <1>19, <2>2 DEF CopyInv, InPair
    <3> QED
      BY <1>13, <3>1 DEF Good
  <2> QED
    BY <2>1, <2>2
<1>20. \A rel : Found(rel)' = Found(rel)
  BY <1>1, <1>11 DEF Found
<1>21. CopyInv'
  BY <1>8, <1>13, <1>16, <1>19, <1>20 DEF CopyInv
<1> QED
  BY <1>16, <1>17, <1>18, <1>21

(* The first copy of a pair, or the one from the fallback release, starts. *)
LEMMA StartsCopying ==
    ASSUME FetchTypeOK, Fetching, NEW rel \in Releases, fetch' = Copying(fetch, rel),
           remote' = remote, rel = "AP3" => Found("2019") = {}
    PROVE  CopyInv'
<1>1. /\ fetch'.pc = "scp" /\ fetch'.rel = rel /\ fetch'.todo = fetch.todo
      /\ fetch'.queue = Found(rel) /\ fetch'.failed = (Found(rel) = {})
  BY CopyingType
<1>2. Globbed' = Globbed /\ FetchModel' = FetchModel
  BY <1>1, SamePair
<1>3. \A z : Found(z)' = Found(z)
  BY <1>2 DEF Found
<1>4. ASSUME NEW x \in Files, InPair(x)'
      PROVE  Waits(x)' <=> Offer(rel, x) # None
  <2>1. InPair(x) /\ <<x[2], x[3]>> \in Globbed /\ x[1] = FetchModel
    BY <1>2, <1>4 DEF InPair
  <2>2. <<x[2], x[3]>> \in Found(rel) <=> Offer(rel, x) # None
    <3>1. PICK v, f : v = x[2] /\ f = x[3]
      OBVIOUS
    <3>2. <<v, f>> \in Found(rel) <=> remote[rel][FetchModel][v][f] # None
      BY <2>1, <3>1 DEF Found
    <3> QED
      BY <2>1, <3>1, <3>2 DEF Offer
  <2> QED
    BY <1>1, <1>4, <2>2 DEF Waits
<1>5. \A x : Offer(fetch.rel, x)' = Offer(rel, x)
  BY <1>1 DEF Offer
<1>6. \A x \in Files : Waits(x)' => Offer(fetch.rel, x)' # None
  BY <1>4, <1>5 DEF Waits
<1>7. \A x \in Files : InPair(x)' /\ ~Waits(x)' => Good(x, fetch.rel)'
  BY <1>4, <1>5 DEF Good
<1> QED
  BY <1>1, <1>3, <1>6, <1>7 DEF CopyInv

(* What is good stays good when 0-byte files go. *)
LEMMA SweepKeepsGood ==
    ASSUME FetchTypeOK, Fetching, local' = Swept, remote' = remote,
           NEW x \in Files, NEW rel, Good(x, rel)
    PROVE  Good(x, rel)'
<1>1. File(x)' = IF InPair(x) /\ ~NonEmpty(File(x)) THEN None ELSE File(x)
  BY Sweeps, PairFacts
<1> QED
  BY <1>1 DEF Good, Offer, NonEmpty

LEMMA OfferedInPair ==
    ASSUME TypeInv, OfferedInv, Since', Calm' => Calm /\ remote' = remote,
           ScpOpen \/ ScpData \/ ScpDone
    PROVE  OfferedInv'
<1>1. /\ Fetching /\ Midway /\ fetch'.todo = fetch.todo /\ fetch'.exit = fetch.exit
      /\ fetch'.renew = fetch.renew /\ fetch'.rel = fetch.rel
  BY ScpTouchesItsPair
<1>2. ASSUME Copies'
      PROVE  /\ CopyInv /\ CopyInv' /\ remote' = remote
             /\ \A x \in Files : ~Waits(x) => File(x)' = File(x)
             /\ \A x \in Files : Waits(x) => Waits(x)' \/ Good(x, fetch.rel)'
  <2>1. Copies /\ remote' = remote
    BY <1>1, <1>2 DEF Copies
  <2>2. CopyInv
    BY <1>1, <2>1 DEF OfferedInv
  <2>3. CASE ScpOpen
    <3>1. CopyInv'
      BY <2>2, <2>3, OpenCopies
    <3>2. \A x \in Files : Waits(x)' <=> Waits(x)
      BY <2>2, <2>3, OpenCopies DEF Waits, InPair
    <3>3. \A x \in Files : ~Waits(x) => File(x)' = File(x)
      BY <2>2, <2>3, OpenCopies DEF File
    <3> QED
      BY <2>1, <2>2, <3>1, <3>2, <3>3
  <2>4. CASE ScpDone
    <3>1. CopyInv'
      BY <2>2, <2>4, DoneCopies
    <3>2. \A x \in Files : ~Waits(x) => File(x)' = File(x)
      BY <2>2, <2>4, DoneCopies DEF File
    <3>3. \A x \in Files : Waits(x) /\ ~Waits(x)' => Good(x, fetch.rel)'
      BY <2>2, <2>4, DoneCopies DEF Good, File, Offer, Waits, InPair
    <3> QED
      BY <2>1, <2>2, <3>1, <3>2, <3>3
  <2>5. CASE ScpData
    <3>1. CopyInv'
      BY <2>2, <2>5, DataCopies
    <3>2. \A x \in Files : Waits(x)' <=> Waits(x)
      BY <2>2, <2>5, DataCopies DEF Waits, InPair
    <3>3. \A x \in Files : ~Waits(x) => File(x)' = File(x)
      BY <2>2, <2>5, DataCopies DEF File
    <3> QED
      BY <2>1, <2>2, <3>1, <3>2, <3>3
  <2> QED
    BY <2>3, <2>4, <2>5
<1>3. ASSUME Copies', NEW p \in Toured, NEW x \in Files, Ours(p, x), Waits(x) \/ GoodOf(p, x)
      PROVE  Waits(x)' \/ GoodOf(p, x)'
  <2>1. Source(p[1], p[2])' = Source(p[1], p[2]) /\ \A rel : Offer(rel, x)' = Offer(rel, x)
    BY <1>2, <1>3 DEF Source, Offer
  <2>2. CASE ~Waits(x)
    BY <1>2, <1>3, <2>1, <2>2 DEF GoodOf, Good
  <2>3. CASE Waits(x) /\ ~Waits(x)'
    <3>1. Good(x, fetch.rel)' /\ Offer(fetch.rel, x) # None /\ InPair(x)
      BY <1>2, <1>3, <2>3 DEF CopyInv, Waits
    <3>2. Offer(Source(p[1], p[2]), x) = None \/ Source(p[1], p[2]) = fetch.rel
      BY <1>1, <1>2, <1>3, <3>1, SameOffer DEF CopyInv
    <3> QED
      BY <1>1, <2>1, <3>1, <3>2 DEF GoodOf, Good
  <2> QED
    BY <2>2, <2>3
<1> QED
  BY <1>1, <1>2, <1>3, OfferedSame

LEMMA OfferedStartsCopy ==
    ASSUME TypeInv, OfferedInv, Since', Calm' => Calm /\ remote' = remote,
           \/ Look /\ fetch' = Copying(fetch, "2019")
           \/ ScpEnd /\ fetch.rel = "2019" /\ fetch.failed /\ fetch' = Copying(fetch, "AP3")
    PROVE  OfferedInv'
<1>1. /\ Fetching /\ FetchTypeOK /\ (local' = Swept \/ local' = local)
      /\ fetch.pc \in {"look", "scp"} /\ fetch.queue = {}
  BY DEF Look, ScpEnd, Fetching, TypeInv
<1>2. /\ fetch'.todo = fetch.todo /\ fetch'.exit = fetch.exit /\ fetch'.renew = fetch.renew
  BY <1>1, CopyingType DEF Releases
<1>3. ASSUME Copies'
      PROVE  CopyInv'
  <2>1. Copies /\ remote' = remote
    BY <1>2, <1>3 DEF Copies
  <2>2. fetch.rel = "2019" /\ fetch.failed /\ fetch.pc = "scp" => Found("2019") = {}
    BY <1>1, <2>1 DEF OfferedInv, CopyInv, Midway
  <2>3. CASE fetch' = Copying(fetch, "2019")
    BY <1>1, <2>1, <2>3, StartsCopying DEF Releases
  <2>4. CASE ScpEnd /\ fetch.rel = "2019" /\ fetch.failed /\ fetch' = Copying(fetch, "AP3")
    BY <1>1, <2>1, <2>2, <2>4, StartsCopying DEF Releases, ScpEnd
  <2> QED
    BY <2>3, <2>4
<1>4. \A x : ~Waits(x)
  BY <1>1 DEF Waits
<1>5. ASSUME Copies', NEW p \in Toured, NEW x \in Files, GoodOf(p, x)
      PROVE  GoodOf(p, x)'
  <2>1. remote' = remote
    BY <1>5 DEF Copies
  <2>2. Source(p[1], p[2])' = Source(p[1], p[2]) /\ \A rel : Offer(rel, x)' = Offer(rel, x)
    BY <2>1 DEF Source, Offer
  <2>3. CASE local' = local
    BY <1>5, <2>2, <2>3 DEF GoodOf, Good, File
  <2>4. CASE local' = Swept
    <3>1. PICK rel : rel = Source(p[1], p[2])
      OBVIOUS
    <3>2. Good(x, rel)'
      BY <1>1, <1>5, <2>1, <2>4, <3>1, SweepKeepsGood DEF GoodOf
    <3> QED
      BY <2>2, <3>1, <3>2 DEF GoodOf, Good
  <2> QED
    BY <1>1, <2>3, <2>4
<1> QED
  BY <1>1, <1>2, <1>3, <1>4, <1>5, OfferedSame

LEMMA OfferedEnds ==
    ASSUME TypeInv, OfferedInv, Since', Calm' => Calm /\ remote' = remote,
           \/ Wipe
           \/ ScpEnd /\ fetch' = [fetch EXCEPT !.pc = "sweep"]
                     /\ ~(fetch.rel = "2019" /\ fetch.failed)
    PROVE  OfferedInv'
<1>1. /\ Fetching /\ fetch \in FetchState /\ local' = local /\ fetch.queue = {}
      /\ fetch.pc # "copy"
  BY DEF Wipe, ScpEnd, Fetching, TypeInv, FetchTypeOK
<1>2. PICK r : r = fetch
  OBVIOUS
<1>3. /\ fetch'.todo = fetch.todo /\ fetch'.exit = fetch.exit /\ fetch'.renew = fetch.renew
      /\ fetch'.rel = fetch.rel /\ fetch'.failed = fetch.failed /\ fetch'.pc \in {"look", "sweep"}
      /\ Wipe => fetch'.pc = "look"
  <2>1. CASE Wipe
    <3>1. fetch' = [r EXCEPT !.pc = "look"]
      BY <1>2, <2>1 DEF Wipe
    <3> QED
      BY <1>1, <1>2, <3>1 DEF FetchState
  <2>2. CASE ScpEnd /\ fetch' = [r EXCEPT !.pc = "sweep"]
    BY <1>1, <1>2, <2>2 DEF FetchState, Wipe, ScpEnd
  <2> QED
    BY <1>2, <2>1, <2>2
<1>4. \A x : ~Waits(x) /\ ~Waits(x)'
  BY <1>1, <1>3 DEF Waits
<1>5. Globbed' = Globbed /\ FetchModel' = FetchModel
  BY <1>3, SamePair
<1>6. ASSUME remote' = remote, NEW x, NEW rel
      PROVE  Good(x, rel)' <=> Good(x, rel)
  BY <1>1, <1>6 DEF Good, Offer, File
<1>7. ASSUME Copies', Midway'
      PROVE  CopyInv'
  <2>1. /\ Copies /\ remote' = remote /\ fetch.pc = "scp" /\ fetch'.pc = "sweep"
        /\ ~(fetch.rel = "2019" /\ fetch.failed)
    BY <1>1, <1>3, <1>7 DEF Copies, Midway, ScpEnd
  <2>2. CopyInv
    BY <1>1, <2>1 DEF OfferedInv, Midway
  <2>3. \A x \in Files : InPair(x)' /\ ~Waits(x)' => Good(x, fetch.rel)'
    <3>1. PICK rel : rel = fetch.rel
      OBVIOUS
    <3>2. \A x \in Files : InPair(x) => Good(x, rel)
      BY <1>4, <2>2, <3>1 DEF CopyInv
    <3>3. \A x \in Files : InPair(x)' => Good(x, rel)'
      BY <1>5, <1>6, <2>1, <3>2 DEF InPair
    <3> QED
      BY <1>3, <3>1, <3>3 DEF Good, Offer
  <2>4. \A rel : Found(rel)' = Found(rel)
    BY <1>5, <2>1 DEF Found
  <2> QED
    BY <1>3, <1>4, <2>1, <2>2, <2>3, <2>4 DEF CopyInv
<1>8. ASSUME Copies', NEW p \in Toured, NEW x \in Files, GoodOf(p, x)
      PROVE  GoodOf(p, x)'
  BY <1>6, <1>8 DEF GoodOf, Copies, Good, Source, Offer
<1> QED
  BY <1>1, <1>3, <1>4, <1>7, <1>8, OfferedSame

LEMMA OfferedNextPair ==
    ASSUME TypeInv, OfferedInv, Since', Calm' => Calm /\ remote' = remote,
           Look \/ Sweep, fetch' = NextPair(fetch)
    PROVE  OfferedInv'
<1>1. /\ Fetching /\ FetchTypeOK /\ fetch \in FetchState /\ local' = Swept
      /\ fetch.todo \in Seq(Pairs) /\ fetch.todo # <<>> /\ fetch.exit = "none"
      /\ fetch.pc \in {"look", "sweep"}
  BY PairFacts DEF Look, Sweep, Fetching, TypeInv, FetchTypeOK, OfferedInv
<1>2. fetch'.renew = fetch.renew /\ fetch'.pc \in {"idle", "wipe"}
  BY <1>1, NextPairType
<1>3. ASSUME Copies', NEW p \in Toured, NEW x \in Files, Ours(p, x),
             p = FetchPair \/ p \notin Ran(fetch.todo)
      PROVE  GoodOf(p, x)'
  <2>1. Copies /\ remote' = remote
    BY <1>2, <1>3 DEF Copies
  <2>2. GoodOf(p, x)
    <3>1. CASE p \notin Ran(fetch.todo)
      BY <1>1, <1>3, <2>1, <3>1, NotWaiting DEF OfferedInv, PairsInv
    <3>2. CASE p = FetchPair
      <4>1. Sweep /\ fetch.pc = "sweep"
        <5>1. CASE Look
          <6>1. fetch.renew # "false"
            BY <2>1 DEF Copies
          <6>2. fetch' = Copying(fetch, "2019")
            BY <5>1, <6>1 DEF Look
          <6>3. fetch'.pc = "scp"
            BY <1>1, <6>2, CopyingType DEF Releases
          <6> QED
            BY <1>2, <6>3
        <5> QED
          BY <5>1 DEF Sweep
      <4>2. CopyInv
        BY <1>1, <2>1, <4>1 DEF OfferedInv, Midway
      <4>3. PICK m \in Models, v \in Vars, f \in Freqs :
               x = <<m, v, f>> /\ FetchPair[1] = m /\ FetchPair[2] = v
        BY <1>3, <3>2 DEF Files, Ours
      <4>4. InPair(x) /\ ~Waits(x)
        BY <4>1, <4>3, FetchAssumption DEF InPair, FetchModel, Globbed, Waits
      <4>5. Good(x, fetch.rel)
        BY <4>2, <4>4 DEF CopyInv
      <4>6. Source(m, v) = fetch.rel
        <5>1. Globbed = Matches[v] \X Freqs /\ FetchModel = m
          BY <4>3 DEF Globbed, FetchModel
        <5>2. Found("2019") = {} <=> Source(m, v) = "AP3"
          BY <5>1 DEF Found, Source
        <5>3. fetch.rel \in {"2019", "AP3"} /\ Source(m, v) \in {"2019", "AP3"}
          BY <1>1 DEF FetchState, Releases, Source
        <5>4. fetch.rel = "2019" => Found("2019") # {}
          BY <4>1, <4>2 DEF CopyInv
        <5>5. fetch.rel = "AP3" => Found("2019") = {}
          BY <4>2 DEF CopyInv
        <5> QED
          BY <5>2, <5>3, <5>4, <5>5
      <4> QED
        BY <3>2, <4>3, <4>5, <4>6 DEF GoodOf
    <3> QED
      BY <1>3, <3>1, <3>2
  <2>3. PICK rel : rel = Source(p[1], p[2])
    OBVIOUS
  <2>4. Good(x, rel)'
    BY <1>1, <2>1, <2>2, <2>3, SweepKeepsGood DEF GoodOf
  <2>5. Source(p[1], p[2])' = Source(p[1], p[2])
    BY <2>1 DEF Source
  <2> QED
    BY <2>3, <2>4, <2>5 DEF GoodOf, Good, Offer
<1>4. CASE fetch'.pc = "idle" /\ fetch'.exit = "ok" /\ Len(fetch.todo) = 1
  <2>1. \A p \in Ran(fetch.todo) : p = FetchPair
    BY <1>1, <1>4, RestOfTodo DEF FetchPair
  <2>2. ASSUME Copies', NEW p \in Toured, NEW x \in Files, Ours(p, x)
        PROVE  GoodOf(p, x)'
    BY <1>3, <2>1, <2>2
  <2> QED
    BY <1>4, <2>2 DEF OfferedInv, Fetching, Ours
<1>5. CASE /\ fetch'.pc = "wipe" /\ fetch'.exit = fetch.exit
           /\ fetch'.todo = Tail(fetch.todo) /\ fetch'.todo # <<>>
  <2>1. Len(fetch.todo) # 1
    <3>1. PICK t : t = fetch.todo /\ t \in Seq(Pairs) /\ t # <<>>
      BY <1>1
    <3>2. ASSUME Len(t) = 1
          PROVE  FALSE
      <4>1. Len(Tail(t)) = 0 /\ Tail(t) \in Seq(Pairs)
        BY <3>1, <3>2
      <4> QED
        BY <1>5, <3>1, <4>1, EmptySeq
    <3> QED
      BY <3>1, <3>2
  <2>2. \A p \in Ran(fetch.todo) : p = FetchPair \/ p \in Ran(fetch'.todo)
    BY <1>1, <1>5, <2>1, RestOfTodo DEF FetchPair
  <2>3. ASSUME Copies', NEW p \in Toured, NEW x \in Files, p \notin Ran(fetch'.todo), Ours(p, x)
        PROVE  GoodOf(p, x)'
    BY <1>3, <2>2, <2>3
  <2>4. Copies' => PairsInv'
    BY <2>3 DEF PairsInv, Ours
  <2> QED
    BY <1>1, <1>5, <2>4 DEF OfferedInv, Midway
<1> QED
  BY <1>1, <1>4, <1>5, NextPairType

LEMMA OfferedStays ==
    ASSUME fetch' = fetch, local' = local, remote' = remote
    PROVE  /\ PairsInv' = PairsInv /\ CopyInv' = CopyInv /\ Midway' = Midway
           /\ \A p, x : GoodOf(p, x)' = GoodOf(p, x)
<1>1. \A x, rel : Good(x, rel)' = Good(x, rel)
  BY DEF Good, Offer, File
<1>2. \A p, x : GoodOf(p, x)' = GoodOf(p, x)
  <2> TAKE p, x
  <2>1. Source(p[1], p[2])' = Source(p[1], p[2])
    BY DEF Source
  <2> QED
    BY <2>1 DEF GoodOf, Good, Offer, File
<1>3. \A x : Waits(x)' = Waits(x) /\ InPair(x)' = InPair(x)
  BY SamePair DEF Waits, InPair
<1>4. \A x : Good(x, fetch.rel)' = Good(x, fetch.rel) /\ Offer(fetch.rel, x)' = Offer(fetch.rel, x)
  BY DEF Good, Offer, File
<1>5. \A rel : Found(rel)' = Found(rel)
  BY SamePair DEF Found
<1>6. PairsInv' = PairsInv
  BY <1>2, <1>3 DEF PairsInv, Ours
<1>7. CopyInv' = CopyInv
  <2>1. /\ RemoteAt(fetch.file)' = RemoteAt(fetch.file)
        /\ LocalAt(fetch.file)' = LocalAt(fetch.file)
        /\ Found(fetch.rel)' = Found(fetch.rel)
    BY SamePair DEF RemoteAt, LocalAt, Found
  <2> QED
    BY <1>3, <1>4, <1>5, <2>1 DEF CopyInv
<1> QED
  BY <1>2, <1>6, <1>7 DEF Midway

LEMMA OfferedNext ==
    ASSUME TypeInv, OfferedInv, [FetchSystem]_fetchVars
    PROVE  OfferedInv'
<1>0. FetchTypeOK /\ fetch \in FetchState /\ Since
  BY DEF TypeInv, FetchTypeOK, OfferedInv
<1>1. CASE UNCHANGED fetchVars
  <2>1. /\ fetch' = fetch /\ local' = local /\ remote' = remote /\ spent' = spent
    BY <1>1 DEF fetchVars, catalogue
  <2>2. Since' = Since /\ Copies' = Copies /\ Fetching' = Fetching
    BY <2>1 DEF Since, Copies, Calm, Weather, Fetching
  <2> QED
    BY <2>1, <2>2, OfferedStays DEF OfferedInv, Ours
<1>2. CASE FetchStart
  <2>1. PICK n, k, t, c : n = NotFetching /\ k = Valid /\ t = PairOrder /\ c = Weather
                          /\ n \in FetchState /\ n.exit = "none"
    BY IdleType DEF NotFetching
  <2>2. /\ fetch'.pc = "wipe" /\ fetch'.exit = "none" /\ fetch'.todo = PairOrder
        /\ fetch'.since = Weather
    BY <1>2, <2>1 DEF FetchStart, FetchState
  <2>3. /\ spent'.uploads = spent.uploads /\ spent'.faults = spent.faults
        /\ spent.uploads \in Nat /\ spent.faults \in Nat
    BY <1>0, <1>2, CatalogueAssumption DEF FetchStart, Start, FetchTypeOK, CatalogueTypeOK
  <2>4. Since'
    BY <2>2, <2>3 DEF Since, Weather
  <2>5. PairsInv'
    BY <2>2, TouredPairs DEF PairsInv
  <2> QED
    BY <2>2, <2>4, <2>5 DEF OfferedInv, Midway
<1>3. CASE FetchSystem /\ ~FetchStart
  <2>1. Since' /\ (Calm' => Calm /\ remote' = remote /\ ~ScpFail)
    BY <1>0, <1>3, CalmStep
  <2>2. CASE ScpOpen \/ ScpData \/ ScpDone
    BY <2>1, <2>2, OfferedInPair
  <2>3. CASE ScpFail
    <3>1. ~Calm'
      BY <2>1, <2>3
    <3>2. fetch'.exit = "none"
      BY <2>3, ScpTouchesItsPair DEF OfferedInv
    <3> QED
      BY <2>1, <3>1, <3>2 DEF OfferedInv, Copies
  <2>4. CASE Wipe
    BY <2>1, <2>4, OfferedEnds
  <2>5. CASE Look
    BY <2>1, <2>5, OfferedStartsCopy, OfferedNextPair DEF Look
  <2>6. CASE ScpEnd
    BY <2>1, <2>6, OfferedStartsCopy, OfferedEnds DEF ScpEnd
  <2>7. CASE Sweep
    BY <2>1, <2>7, OfferedNextPair DEF Sweep
  <2>8. CASE FetchKill
    BY <1>0, <2>1, <2>8, DoneType DEF FetchKill, OfferedInv, Fetching
  <2>9. CASE World /\ UNCHANGED fetch
    <3>1. local' = local
      BY <2>9 DEF World, Tick, Upload
    <3>2. CASE ~Calm'
      BY <2>1, <2>9, <3>2 DEF OfferedInv, Copies, Fetching
    <3>3. CASE Calm /\ remote' = remote
      <4>1. Fetching' = Fetching /\ (Copies' => Copies)
        BY <2>9, <3>3 DEF Fetching, Copies
      <4> QED
        BY <2>1, <2>9, <3>1, <3>3, <4>1, OfferedStays DEF OfferedInv, Ours
    <3> QED
      BY <2>1, <3>2, <3>3
  <2> QED
    BY <1>3, <2>2, <2>3, <2>4, <2>5, <2>6, <2>7, <2>8, <2>9
    DEF FetchSystem, FetchNext, FetchStep, ShellStep, ScpStep
<1> QED
  BY <1>1, <1>2, <1>3

(* After a run that copies and met no failure and no change of the server, *)
(* every file with data that the pair's release offers is there, whole and *)
(* of that release, also where the glob of another pair lists it           *)
(* (extract_data_ap3.sh L136-149). *)
THEOREM FetchedWhole == FetchSpec => []OfferedIsFetched
<1>1. FetchInit => TypeInv /\ OfferedInv
  <2> SUFFICES ASSUME FetchInit
               PROVE  TypeInv /\ OfferedInv
    OBVIOUS
  <2>1. Since
    BY DEF FetchInit, CatalogueInit, NotFetching, Since
  <2> QED
    BY <2>1, TypeInit DEF FetchInit, OfferedInv, Fetching, NotFetching
<1>2. TypeInv /\ OfferedInv /\ [FetchSystem]_fetchVars => (TypeInv /\ OfferedInv)'
  BY TypeNext, OfferedNext
<1>3. OfferedInv => OfferedIsFetched
  <2> SUFFICES ASSUME OfferedInv, Undisturbed, fetch.renew # "false",
                      NEW p \in Toured, NEW f \in Freqs
               PROVE  Good(<<p[1], p[2], f>>, Source(p[1], p[2]))
    BY DEF OfferedIsFetched, Good, Offer, File
  <2>1. p[1] \in Models /\ p[2] \in Vars
    BY TouredPairs DEF Pairs
  <2>2. PICK x : x = <<p[1], p[2], f>>
    OBVIOUS
  <2>3. x \in Files /\ Ours(p, x)
    BY <2>1, <2>2 DEF Files, Ours
  <2>4. GoodOf(p, x)
    BY <2>3 DEF OfferedInv, Undisturbed, Copies, Calm
  <2> QED
    BY <2>2, <2>4 DEF GoodOf
<1> QED
  BY <1>1, <1>2, <1>3, PTL DEF FetchSpec
=============================================================================
