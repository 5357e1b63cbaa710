------------------------------- MODULE MCFetch -------------------------------
(* Values of the constants of FetchSource for TLC. *)
EXTENDS FetchSource, TLC

CONSTANTS m1, dry, od

TwoPairs == <<<<m1, dry>>, <<m1, od>>>>

(* *dryss* also matches od550dryss. *)
SubString == (dry :> {dry, od}) @@ (od :> {od})

Serve(offer(_, _, _)) ==
    [rel \in Releases |-> [m \in Models |-> [v \in Vars |-> [f \in Freqs |->
        offer(rel, v, f)]]]]

Data(rel) == [full |-> TRUE, ver |-> IF rel = "2019" THEN 1 ELSE 2]

(* Monthly data in both releases, one 3-hourly file in the second; one      *)
(* file in all; a placeholder in each place of the first release.          *)
FewServers ==
    LET Both(rel, v, f) == IF f = "3hourly" /\ (rel = "2019" \/ v = od) THEN None
                           ELSE Data(rel)
        One(rel, v, f)  == IF <<rel, v, f>> = <<"2019", od, "monthly">> THEN Data(rel)
                           ELSE None
        Hollow(rel, v, f) == IF f = "3hourly" THEN None
                             ELSE [Data(rel) EXCEPT !.full = rel = "AP3"]
    IN  {Serve(Both), Serve(One), Serve(Hollow)}

NoOldTree == {NoTree}
=============================================================================
