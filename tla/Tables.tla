------------------------------- MODULE Tables -------------------------------
(***************************************************************************)
(* The two table builders on the same monthly files, some of which         *)
(* get_data.py may be writing again.                                       *)
(***************************************************************************)
EXTENDS RegionalBuild, MonthlyBuild

tablesVars == <<monthly, regional, monthlyBuild>>

TablesInit == MonthlyInit /\ RegionalInit /\ MonthlyBuildInit

TablesNext ==
    \/ RegionalNext /\ UNCHANGED monthlyBuild
    \/ MonthlyNext /\ UNCHANGED regional
    \/ (BeginRewrite \/ EndRewrite) /\ UNCHANGED <<regional, monthlyBuild>>

TablesSpec == TablesInit /\ [][TablesNext]_tablesVars

-----------------------------------------------------------------------------
(* Properties. *)

TablesTypeOK == FieldsTypeOK /\ RegionalTypeOK /\ MonthlyTypeOK
=============================================================================
