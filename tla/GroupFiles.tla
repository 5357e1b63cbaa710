----------------------------- MODULE GroupFiles -----------------------------
(***************************************************************************)
(* The group files in Data/PPE_processed_monthly as their readers meet     *)
(* them: an extraction that ran to its group loop replaces them one after  *)
(* the other, each by a rename.  PpeExtract shows that a reader of a group *)
(* no two jobs write at once finds a whole file; here one extraction at a  *)
(* time is at its group loop, and the files are always whole.              *)
(***************************************************************************)
EXTENDS Launches, Sequences

CONSTANTS
    Members,     \* the ensemble members
    GroupOrder,  \* the groups in the order of GROUP_VARS
    Extracts,    \* what an extraction may put into the group files
    None         \* no file, no value

Groups == {GroupOrder[i] : i \in DOMAIN GroupOrder}

(* The members are in the order of their number (sortby("ens")); fit says  *)
(* that the file has the variables an analysis cannot do without.          *)
Contents == [members : Seq(Members) \ {<<>>}, fit : BOOLEAN]

ASSUME GroupFilesAssumption ==
    /\ GroupOrder \in Seq(Groups) \ {<<>>}
    /\ Extracts \subseteq [Groups -> Contents]

ASSUME NoneIsNoFile ==
    None \notin [gen : Nat, members : Seq(Members), fit : BOOLEAN]

VARIABLES
    groups,   \* groups[g]: the published file, or None
    ext,      \* the extraction at its group loop
    halfway   \* history: an extraction ended between two groups, and none
              \* has replaced all of them since

groupVars == <<groups, ext, halfway>>

NoExtraction == [gen |-> 0, puts |-> None, todo |-> <<>>]

GroupFile(gen, puts, g) ==
    [gen |-> gen, members |-> puts[g].members, fit |-> puts[g].fit]

-----------------------------------------------------------------------------
(* Nothing extracted yet, or one complete extraction. *)
GroupFilesInit ==
    /\ groups \in {[g \in Groups |-> None]} \cup
                  {[g \in Groups |-> GroupFile(0, puts, g)] : puts \in Extracts}
    /\ ext = NoExtraction
    /\ halfway = FALSE

(* The member loop is over. *)
StartExtraction ==
    /\ ext = NoExtraction /\ StartProgram
    /\ \E puts \in Extracts :
          ext' = [gen |-> started', puts |-> puts, todo |-> GroupOrder]
    /\ UNCHANGED <<groups, halfway>>

NextGroup ==
    IF Tail(ext.todo) = <<>> THEN ext' = NoExtraction /\ halfway' = FALSE
    ELSE ext' = [ext EXCEPT !.todo = Tail(@)] /\ UNCHANGED halfway

(* write_group_ensemble, up to the rename of the temporary file. *)
PublishGroup ==
    /\ ext.todo # <<>>
    /\ groups' = [groups EXCEPT ![Head(ext.todo)] =
                      GroupFile(ext.gen, ext.puts, Head(ext.todo))]
    /\ NextGroup
    /\ UNCHANGED started

(* Mutant of GroupFails: the loop goes on and the extraction ends well. *)
MutantFailedGroupSkipped ==
    /\ ext.todo # <<>>
    /\ NextGroup
    /\ UNCHANGED <<started, groups>>

(* A group that cannot be concatenated or written ends the job, and so     *)
(* does the batch system.                                                  *)
GroupFails ==
    /\ ext.todo # <<>>
    /\ ext' = NoExtraction
    /\ halfway' = (halfway \/ ext.todo # GroupOrder)
    /\ UNCHANGED <<started, groups>>

GroupFilesNext == StartExtraction \/ PublishGroup \/ GroupFails

-----------------------------------------------------------------------------
GroupFilesTypeOK ==
    /\ \A g \in Groups : groups[g] # None =>
          /\ groups[g].gen \in 0 .. started
          /\ \E puts \in Extracts : groups[g] = GroupFile(groups[g].gen, puts, g)
    /\ ext.gen \in 0 .. started
    /\ ext # NoExtraction => ext.puts \in Extracts /\ ext.todo # <<>>
    /\ halfway \in BOOLEAN
=============================================================================
