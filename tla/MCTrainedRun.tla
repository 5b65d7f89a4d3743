----------------------------- MODULE MCTrainedRun -----------------------------
(***************************************************************************)
(* Small instances of two parts of a trained run that share no state: the    *)
(* plateau rule (EarlyStop) and the formal evaluation of what a training     *)
(* leaves (FormalEvaluation).  A behaviour is one of one part, chosen at the *)
(* beginning; the other keeps still.                                         *)
(***************************************************************************)
EXTENDS EarlyStop, FormalEvaluation, TLC

CONSTANTS c1, v1

VARIABLE part

\* From -2.00 the threshold is 0.02: -1.98 only reaches it, -1.97 exceeds it, but
\* is no meaningful improvement on -1.98; 1.00 exceeds every threshold.
MCReturns == {-200, -198, -197, 100}

allVars == <<part, plateauVars, vars>>

PartsInit ==
    /\ part \in {"plateau", "formal"}
    /\ PlateauInit /\ Init
    /\ part = "plateau" => source = c1 /\ service = v1
          /\ \A r \in Finished : dir[r].identity = [code |-> c1, version |-> v1]

PartsNext ==
    /\ UNCHANGED part
    /\ \/ part = "plateau" /\ PlateauNext /\ UNCHANGED vars
       \/ part = "formal" /\ Next /\ UNCHANGED plateauVars

PartsSpec == PartsInit /\ [][PartsNext]_allVars

Renaming == Permutations(Codes) \cup Permutations(Versions)
=============================================================================
