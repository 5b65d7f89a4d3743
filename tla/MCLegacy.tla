------------------------------- MODULE MCLegacy -------------------------------
(***************************************************************************)
(* Small instances of the two parts of the legacy training scripts that share *)
(* no state: launches on one run directory (LegacyTraining) and the chain of  *)
(* trainings and evaluations (LegacyCampaign: four parent epochs and two      *)
(* more, an evaluation every other epoch).  A behaviour is one of one part,   *)
(* chosen at the beginning; the other keeps still.                           *)
(***************************************************************************)
EXTENDS LegacyTraining, LegacyCampaign, TLC

CONSTANTS a, b

VARIABLE part

MCScoresOf == [r \in {"v3ppo", "v3mappo", "w2ppo", "cppo", "cmappo"} |->
                  CASE r = "w2ppo" -> {1, 2}
                    [] r = "cppo" -> {1, 3}
                    [] r = "cmappo" -> {2}
                    [] OTHER -> {1}]

allVars == <<part, vars, chainVars>>

PartsInit == part \in {"training", "chain"} /\ Init /\ ChainInit

PartsNext ==
    /\ UNCHANGED part
    /\ \/ part = "training" /\ Next /\ UNCHANGED chainVars
       \/ part = "chain" /\ ChainNext /\ UNCHANGED vars

PartsSpec == PartsInit /\ [][PartsNext]_allVars

TwoSlots == {a, b}
Symmetry == Permutations(TwoSlots)
=============================================================================
