----------------------------- MODULE MCAnalysis -----------------------------
(* Values of the constants of PpeAnalysis for TLC. *)
EXTENDS PpeAnalysis, TLC

CONSTANTS control, e1, e2, aug, sep

Three   == <<"burden", "optical", "precip">>
Cells   == "burden" :> 2 @@ "optical" :> 3 @@ "precip" :> 4
TheYear == <<aug, sep>>
OneMonth == <<aug>>

All(members) == [g \in {"burden", "optical", "precip"} |->
                    [members |-> members, fit |-> TRUE]]

(* Every member, another member list of the same length, a shorter one, a  *)
(* group without a member the others have, a group without its variables.  *)
SomeExtracts ==
    {All(<<control, e1>>), All(<<e1, e2>>), All(<<e1>>),
     [All(<<control, e1>>) EXCEPT !["precip"].members = <<e1>>],
     [All(<<control, e1>>) EXCEPT !["optical"].fit = FALSE]}

SomeArchives ==
    {aug :> <<"gridded", "sparse", "gridded">> @@ sep :> <<>>,
     aug :> <<"gridded", "corrupt">> @@ sep :> <<"gridded">>}

(* For the run on the cached tables: which extraction a value is of is all *)
(* that matters.                                                           *)
Two        == <<"burden", "optical">>
TwoCells   == "burden" :> 2 @@ "optical" :> 3
OneExtract == {[g \in {"burden", "optical"} |-> [members |-> <<e1>>, fit |-> TRUE]]}
OneArchive == {aug :> <<"gridded">>}

(* No action and no invariant tells one session from another. *)
Interchangeable == Permutations(Sessions)
=============================================================================
