--------------------------- MODULE MonthlyFields ----------------------------
(***************************************************************************)
(* The processed monthly files as the two table builders see them, and the *)
(* helpers both use on a model's fields.  Of a field only the files it is  *)
(* computed from matter: a field is a set of variables, {} when it cannot  *)
(* be had, and what is wrong with a file says what is wrong with it.       *)
(***************************************************************************)
EXTENDS Naturals, Sequences, FiniteSets, Functions, TLC

CONSTANTS
    ModelOrder,  \* the models, by name
    Variables,   \* the variables that may have a directory under AP3_processed_monthly
    LoadVars, EmiVars, DepVars,  \* the species of the totals
    Archives,    \* what the files may be like
    Requests,    \* how often --models may name each model; never is no --models
    MaxStarts,   \* bound: builds of either table and models processed again
    MaxMet       \* bound: unfinished files one load meets

Models == Range(ModelOrder)

(* absent   no file                                                        *)
(* broken   cannot be opened, standardised or loaded                       *)
(* untimed  loads, but its time axis cannot be normalised                  *)
(* offyear  months of another year than the regions' seasons               *)
(* holes    missing cells inside the regions                               *)
(* edge     missing cells where POLDER looked, none inside the regions     *)
Unusable == {"absent", "broken", "untimed"}
Usable   == {"offyear", "holes", "edge", "ok"}
Files    == [Variables -> Unusable \cup Usable]

(* A lifetime: in or out of 0.3 to 50 days, or the flux is zero. *)
Lifetimes == {"in", "out", "zero"}
Archive   == [Models -> [files : Files, dep : Lifetimes, emi : Lifetimes]]

ASSUME MonthlyFieldsAssumption ==
    /\ ModelOrder \in Seq(Models)
    /\ "od550aer" \in Variables /\ LoadVars # {}
    /\ LoadVars \cup EmiVars \cup DepVars \subseteq Variables
    /\ Archives \subseteq Archive
    /\ Requests \subseteq [Models -> 0 .. 2]
    /\ MaxStarts \in Nat /\ MaxMet \in Nat

Asked(request) == {m \in Models : request[m] > 0}
Twice(request) == {m \in Models : request[m] = 2}

VARIABLES
    archive,    \* the files of each model
    rewriting,  \* models get_data.py is processing again: at most one
    started     \* builds and models processed again so far

monthly == <<archive, rewriting, started>>

MonthlyInit == archive \in Archives /\ rewriting = {} /\ started = 0

StartOne == started < MaxStarts /\ started' = started + 1

(* get_data.py writes a model's files again, one after the other in place. *)
BeginRewrite ==
    /\ rewriting = {} /\ StartOne
    /\ \E m \in Models : rewriting' = {m}
    /\ UNCHANGED archive

EndRewrite ==
    /\ rewriting # {}
    /\ rewriting' = {}
    /\ UNCHANGED <<archive, started>>

NewBuild == StartOne /\ UNCHANGED <<archive, rewriting>>

(* _load_one_model_netcdf: what the files of m may look like to a reader.  *)
(* It opens them one after the other, and while they are written again it  *)
(* may meet several of them unfinished.                                    *)
Loads(m) ==
    LET now == archive[m].files
        met == IF m \in rewriting THEN {v \in Variables : now[v] # "absent"} ELSE {}
    IN  {[v \in Variables |-> IF v \in unfinished THEN "broken" ELSE now[v]] :
            unfinished \in {s \in SUBSET met : Cardinality(s) <= MaxMet}}

(* A model's fields, and others it has not got by these names. *)
Also(fields, more) ==
    [v \in DOMAIN fields \cup DOMAIN more |->
        IF v \in DOMAIN fields THEN fields[v] ELSE more[v]]

NotLoaded == [v \in Variables |-> "absent"]

Have(g) == {v \in Variables : g[v] \in Usable}

MutantPartialSums(g, keys, requireAll) == keys \cap Have(g)

SumDatasets(g, keys, requireAll) ==
    IF requireAll /\ ~ keys \subseteq Have(g) THEN {} ELSE keys \cap Have(g)

(* The wavelength beside 550 nm that the Angstrom exponent uses. *)
OtherWavelength(g) ==
    IF "od870aer" \in Have(g) THEN {"od870aer"}
    ELSE IF "od865aer" \in Have(g) THEN {"od865aer"}
    ELSE {"od440aer"} \cap Have(g)

(* The models with a file of one of the three variables both builders list. *)
Discovered ==
    {m \in Models : \E v \in {"od550aer", "abs550aer", "loadbc"} \cap Variables :
                        archive[m].files[v] # "absent"}

FieldsTypeOK ==
    /\ archive \in Archive
    /\ rewriting \subseteq Models /\ Cardinality(rewriting) <= 1
    /\ started \in 0 .. MaxStarts
=============================================================================
