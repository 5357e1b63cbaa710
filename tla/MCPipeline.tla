----------------------------- MODULE MCPipeline -----------------------------
(* Values of the constants of Pipeline for TLC. *)
EXTENDS Pipeline, TLC

CONSTANTS m1, dry

OnePair  == <<<<m1, dry>>>>
Distinct == dry :> {dry}

(* dir_secondary: nothing or one stream. *)
OldFile(size) == [size |-> size, ver |-> 0, mtime |-> 0]
OldTree(mon, hr) == [m \in Models |-> [v \in Vars |-> [f \in Freqs |->
                        IF f = "monthly" THEN mon ELSE hr]]]
SomeOldTrees  == {OldTree(None, None), OldTree(OldFile("full"), None),
                  OldTree(None, OldFile("full"))}
MonthlyOnly   == {OldTree(OldFile("full"), None)}

(* One release, with both streams or the 3-hourly one alone. *)
OneRelease ==
    {[rel \in Releases |-> [m \in Models |-> [v \in Vars |-> [f \in Freqs |->
        IF rel = "2019" /\ f \in fs THEN [full |-> TRUE, ver |-> 1] ELSE None]]]] :
        fs \in {{"3hourly"}, {"monthly", "3hourly"}}}

(* Neither release has a file. *)
NoServer == {[rel \in Releases |-> NoTree]}
=============================================================================
