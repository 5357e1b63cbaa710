------------------------------ MODULE MCTables ------------------------------
(* Values of the constants of Tables for TLC. *)
EXTENDS Tables

CONSTANTS m1, m2, m3, africa, outflow

ByName == <<m1, m2, m3>>
SomeVariables == {"od550aer", "abs550aer", "loadbc", "loadoa", "loadss",
                  "depbc", "depoa", "emibc", "emioa"}
Loads3 == {"loadbc", "loadoa", "loadss"}
Emis2  == {"emibc", "emioa"}
Deps2  == {"depbc", "depoa"}

Fine == [v \in SomeVariables |-> "ok"]

(* One flaw of one file, or all files but one missing. *)
Flawed ==
    {[Fine EXCEPT ![v] = s] : v \in {"od550aer", "abs550aer", "depoa"},
                                       s \in (Unusable \cup Usable) \ {"ok"}}
    \cup {[[w \in SomeVariables |-> "absent"] EXCEPT ![v] = "ok"] :
            v \in {"od550aer", "abs550aer", "loadbc", "depoa"}}

(* Where the deposition is no use, the emission's lifetime is out of range. *)
Model(files, dep) ==
    [files |-> files, dep |-> dep, emi |-> IF dep = "zero" THEN "out" ELSE "in"]

(* m1 is flawed; without its rows there is no fit. *)
SomeArchives ==
    {m1 :> Model(f, "in") @@ m2 :> Model(Fine, "in") @@ m3 :> Model(Fine, "out") :
        f \in Flawed}
    \cup {m1 :> Model(Fine, d) @@ m2 :> Model(Fine, "in") @@ m3 :> Model(Fine, "out") :
            d \in Lifetimes}

(* No --models, or one name given twice beside one given once. *)
SomeRequests == {[m \in Models |-> 0], m1 :> 2 @@ m2 :> 1 @@ m3 :> 0}

Satellites(p, g, inside, outside) ==
    [polder |-> p, gpcp |-> g, points |-> (africa :> inside @@ outflow :> outside)]
SomeObservations == {Satellites(TRUE, TRUE, "many", "few"),
                     Satellites(TRUE, FALSE, "none", "many"),
                     Satellites(FALSE, FALSE, "none", "none")}
=============================================================================
