--------------------------- MODULE MCBaselineSuite ---------------------------
(***************************************************************************)
(* Small instances of the two parts of h3c_baselines that drive BOPTEST tests *)
(* and share no state: the suites (BaselineSuite: two processes that start    *)
(* the same concurrent suite of two arms, and one serial suite next to them   *)
(* on the same BOPTEST) and one hierarchical MPC training (MpcTraining: two   *)
(* cases, three lanes where a model needs three, or two lanes that two        *)
(* threads may share).  A behaviour is one of one part, chosen at the         *)
(* beginning; the other keeps still.                                         *)
(***************************************************************************)
EXTENDS BaselineSuite, MpcTraining, TLC

VARIABLE part

MCWorkers == {2, 3}
MCCheckpoints == <<3, 6, 9>>
(* The reward only decides how long a search goes on, which the verdicts of  *)
(* its checkpoints vary already.                                            *)
MCRewards == {-900}

allVars == <<part, vars, trainingVars>>

PartsInit ==
    /\ part \in {"suites", "training"}
    /\ Init /\ TrainingInit
    /\ part = "suites" => workers = 2

PartsNext ==
    /\ UNCHANGED part
    /\ \/ part = "suites" /\ Next /\ UNCHANGED trainingVars
       \/ part = "training" /\ TrainingNext /\ UNCHANGED vars

(* The processes of the concurrent suite only differ by name.               *)
Symmetry == Permutations(Concurrent)

PartsSpec == PartsInit /\ [][PartsNext]_allVars
=============================================================================
