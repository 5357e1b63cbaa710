------------------------------ MODULE Launches ------------------------------
(***************************************************************************)
(* Programs of the PPE analysis are started by hand or by the batch        *)
(* system, any of them at any time; those that are told apart later take   *)
(* their number from here.                                                 *)
(***************************************************************************)
EXTENDS Integers

CONSTANT MaxStarts  \* bound: programs started in all

ASSUME LaunchAssumption == MaxStarts \in Nat

VARIABLE started    \* programs started so far

LaunchInit == started = 0

StartProgram == started < MaxStarts /\ started' = started + 1
=============================================================================
