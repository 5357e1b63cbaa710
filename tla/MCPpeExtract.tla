---------------------------- MODULE MCPpeExtract ----------------------------
(* Instances of PpeExtract: two members in discover_ensembles' order, one   *)
(* or two variables, and the streams they are looked up in.                 *)
EXTENDS PpeExtract, TLC

CONSTANTS m1, m2, v1, v2, mon, hif, burden, optical

OneVar    == <<v1>>
TwoVars   == <<v1, v2>>
Search1   == (v1 :> <<mon, hif>>)
Search2   == (v1 :> <<mon, hif>>) @@ (v2 :> <<hif>>)
Carry1    == (mon :> {v1}) @@ (hif :> {v1})
Carry2    == (mon :> {v1}) @@ (hif :> {v1, v2})
OneGroup  == <<burden>>
TwoGroups == <<burden, optical>>
GVars1    == (burden :> {v1})
GVars2    == (burden :> {v1}) @@ (optical :> {v2})
PlanOne   == {<<m1>>}
PlansTwo  == {<<m1, m2>>, <<m2>>}
=============================================================================
