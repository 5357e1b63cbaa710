---------------------------- MODULE AtomicStore ----------------------------
(***************************************************************************)
(* What a write-to-temporary-then-rename writer promises its readers.      *)
(* Every path holds nothing or one file; a file only ever appears there    *)
(* whole, and replaces a file that is not younger than itself.  A path on  *)
(* which two writers shared one temporary file is spoiled: nothing is      *)
(* promised about it any more.                                             *)
(***************************************************************************)
EXTENDS Integers

CONSTANTS Paths,     \* the published paths
          Bodies,    \* what a file may contain
          None       \* no file at a path

VARIABLES store,     \* store[p]: the file readers find at p, or None
          spoiled    \* paths whose temporary file two writers shared

vars == <<store, spoiled>>

File == [whole : BOOLEAN, mtime : Nat, body : Bodies]

TypeOK == /\ store \in [Paths -> File \cup {None}]
          /\ spoiled \in SUBSET Paths

Init == /\ store = [p \in Paths |-> None]
        /\ spoiled = {}

(* Only p changes, and what it holds next is a file. *)
Replaced(p) ==
    /\ store'[p] \in File
    /\ store' = [store EXCEPT ![p] = store'[p]]
    /\ UNCHANGED spoiled

(* A whole file takes the place of an older one, or of none. *)
Put(p) ==
    /\ p \notin spoiled
    /\ Replaced(p)
    /\ store'[p].whole
    /\ store[p] # None => store[p].mtime <= store'[p].mtime

(* A second writer enters: from here on p may hold anything. *)
Spoil(p) ==
    /\ spoiled' = spoiled \cup {p}
    /\ UNCHANGED store

Scribble(p) ==
    /\ p \in spoiled
    /\ Replaced(p)

Next == \E p \in Paths : Put(p) \/ Spoil(p) \/ Scribble(p)

Spec == Init /\ [][Next]_vars
=============================================================================
