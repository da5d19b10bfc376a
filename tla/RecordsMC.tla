----------------------------- MODULE RecordsMC -----------------------------
(* Five components that leave files for later commands, and share none of    *)
(* them: one moves in a behaviour, the others stay at an initial state.      *)
EXTENDS FinalReview, StudioDelivery, EvaluationStore, CommandAuthority, LearningRules, TLC

VARIABLE part

Parts == {"review", "studio", "store", "authority", "learning"}

RecordsInit ==
    /\ part \in Parts
    /\ Init /\ StudioInit /\ StoreInit /\ AuthInit /\ LearningInit
    /\ part # "review" => ~documents /\ source = CHOOSE s \in Sources : TRUE
    /\ part # "store" => records = {}
    /\ \A q \in Projects : notes[q][1].judged = "current"
    /\ part # "learning" => \A q \in Projects : notes[q][2].judged = "current"

RecordsNext ==
    /\ UNCHANGED part
    /\ \/ part = "review" /\ Next /\ UNCHANGED <<studioVars, storeVars, authVars, learningVars>>
       \/ part = "studio" /\ StudioNext /\ UNCHANGED <<vars, storeVars, authVars, learningVars>>
       \/ part = "store" /\ StoreNext /\ UNCHANGED <<vars, studioVars, authVars, learningVars>>
       \/ part = "authority" /\ AuthNext /\ UNCHANGED <<vars, studioVars, storeVars, learningVars>>
       \/ part = "learning" /\ LearningNext /\ UNCHANGED <<vars, studioVars, storeVars, authVars>>

RecordsSpec == RecordsInit /\ [][RecordsNext]_<<part, vars, studioVars, storeVars, authVars, learningVars>>

\* Processes (two of each component have the same names), held-out records, and pins
\* (the two projects have the same names).
Symmetry == Permutations(Procs) \cup Permutations(HeldOuts) \cup Permutations(Pins)

=============================================================================
