---------------------------- MODULE TrainerState ----------------------------
(***************************************************************************)
(* The part of a trainer's state that a checkpoint must bring back exactly: *)
(* the number of committed epochs and the best deterministic validation    *)
(* return with the epoch it was reached in.  Networks, optimizers and RNG   *)
(* states travel in the same files and are not told apart.                 *)
(***************************************************************************)
EXTENDS Integers

CONSTANTS
    Scores,         \* validation returns, abstracted to ordered values
    EvalInterval,   \* epochs between deterministic evaluations (25; 1 in smoke)
    MaxEpochs       \* the registered cap on epochs (700)

\* PlateauState.best_score starts at minus infinity, below every return.
NoScore == 0

ASSUME StateAssumption ==
    /\ Scores \subseteq Nat \ {0}
    /\ Scores # {}
    /\ EvalInterval \in Nat \ {0}
    /\ MaxEpochs \in Nat

State == [epoch : Nat, best : Nat, bestEpoch : Nat]

Fresh == [epoch |-> 0, best |-> NoScore, bestEpoch |-> 0]

\* The epoch after s, without and with a deterministic evaluation.
Unevaluated(s) == [s EXCEPT !.epoch = s.epoch + 1]

Evaluated(s, score) ==
    IF score > s.best
    THEN [epoch |-> s.epoch + 1, best |-> score, bestEpoch |-> s.epoch + 1]
    ELSE Unevaluated(s)

\* The states one epoch of training can lead to from s.
Trained(s) ==
    IF (s.epoch + 1) % EvalInterval = 0
    THEN {Evaluated(s, score) : score \in Scores}
    ELSE {Unevaluated(s)}
=============================================================================
