---------------------------- MODULE MCMpcRegistry -----------------------------
(* Two trainings, one of which may fail and feed the refit while the other  *)
(* races the freezes; two validations of the refit and two freezes.         *)
(* Commands of a kind are interchangeable.                                  *)
EXTENDS MpcRegistry, TLC

MCSymmetry ==
    Permutations(Trainings) \cup Permutations(Validations) \cup Permutations(Freezes)
=============================================================================
