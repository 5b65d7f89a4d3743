------------------------------ MODULE EarlyStop ------------------------------
(***************************************************************************)
(* One training run under the plateau rule: epochs are trained, evaluated   *)
(* every EvalInterval epochs, and committed; a crash puts the trainer back   *)
(* to the last commit, whose epochs may then be scored differently.         *)
(* Commits are atomic here: EpochCheckpoint shows that they are.            *)
(***************************************************************************)
EXTENDS PlateauState, Sequences, FiniteSets

CONSTANTS
    Returns,        \* the returns an evaluation may yield
    EvalInterval,   \* epochs between evaluations
    MaxEpochs       \* the registered cap

ASSUME EarlyStopAssumption ==
    /\ Returns \subseteq Int
    /\ EvalInterval \in Nat \ {0}
    /\ MaxEpochs \in Nat

VARIABLES
    run,        \* the trainer's memory: epoch, plateau and evaluation_rows
    saved,      \* the same as of the latest checkpoint
    pending     \* an epoch has been trained and not yet committed

plateauVars == <<run, saved, pending>>

Evaluation == [epoch : Nat, score : Int]
Run == [epoch : Nat, plateau : Plateau, rows : Seq(Evaluation)]

FreshRun == [epoch |-> 0, plateau |-> FreshPlateau, rows |-> <<>>]

Due(epoch) == epoch % EvalInterval = 0

PlateauInit ==
    /\ run = FreshRun
    /\ saved = FreshRun
    /\ pending = FALSE

\* training_should_start and the loops of both trainers.
MayTrain(plateau) == ~plateau.stopped

TrainEpoch ==
    /\ ~pending
    /\ MayTrain(run.plateau)
    /\ run.epoch < MaxEpochs
    /\ ~Due(run.epoch + 1)
    /\ run' = [run EXCEPT !.epoch = run.epoch + 1]
    /\ pending' = TRUE
    /\ UNCHANGED saved

TrainAndEvaluate ==
    /\ ~pending
    /\ MayTrain(run.plateau)
    /\ run.epoch < MaxEpochs
    /\ Due(run.epoch + 1)
    /\ \E score \in Returns :
          run' = [epoch   |-> run.epoch + 1,
                  plateau |-> Update(run.plateau, run.epoch + 1, score),
                  rows    |-> Append(run.rows, [epoch |-> run.epoch + 1,
                                                score |-> score])]
    /\ pending' = TRUE
    /\ UNCHANGED saved

Commit ==
    /\ pending
    /\ saved' = run
    /\ pending' = FALSE
    /\ UNCHANGED run

\* PlateauState.from_dict gives back what to_dict saved.
FromDict(r) == r

\* The process dies and the run is resumed from the latest checkpoint.
Resume ==
    /\ run' = FromDict(saved)
    /\ pending' = FALSE
    /\ UNCHANGED saved

PlateauNext == TrainEpoch \/ TrainAndEvaluate \/ Commit \/ Resume

PlateauSpec == PlateauInit /\ [][PlateauNext]_plateauVars

-----------------------------------------------------------------------------

PlateauTypeOK ==
    /\ run \in Run
    /\ saved \in Run
    /\ pending \in BOOLEAN

\* The counted evaluations after the k-th.
Since(r, k) == {j \in k+1..Len(r.rows) : r.rows[j].epoch > MinEpoch}

\* The anchor is the k-th return, above every return before it, and no later return
\* was a meaningful improvement on it; the misses are exactly the evaluations since
\* then that count, and the run has stopped iff they reached the patience.
AnchorIs(r, k) ==
    LET p == r.plateau
    IN  /\ r.rows[k].score = p.anchor
        /\ \A j \in 1..k-1 : r.rows[j].score < p.anchor
        /\ \A j \in k+1..Len(r.rows) : ~Improves(r.rows[j].score, p.anchor)
        /\ p.misses = Cardinality(Since(r, k))
        /\ p.stopped <=> Cardinality(Since(r, k)) >= Patience

\* best_score is the highest return so far and best_epoch the first to reach it,
\* which was at the k-th evaluation.
BestIs(r, k) ==
    LET p == r.plateau
    IN  /\ r.rows[k] = [epoch |-> p.bestEpoch, score |-> p.best]
        /\ \A j \in 1..Len(r.rows) :
             /\ r.rows[j].score <= p.best
             /\ j < k => r.rows[j].score < p.best

Explained(r) ==
    Len(r.rows) > 0 => \E k, b \in 1..Len(r.rows) : AnchorIs(r, k) /\ BestIs(r, b)

\* The incrementally kept early_stop entry says about the evaluation rows what a
\* reading of all of them would (early_stop.py, PlateauState.update).
PlateauExplained == Explained(run)

\* The best return is never more than the threshold above the anchor, although
\* the two are updated by different rules.
BestNearAnchor ==
    LET p == run.plateau
    IN  p.anchored => p.anchor <= p.best /\ ~Improves(p.best, p.anchor)

\* No run stops before Patience evaluations after the warm-up: with the registered
\* values, not before epoch 175.
EarliestStop ==
    LET p == run.plateau
    IN  p.stopped => p.stopEpoch >= MinEpoch + 1 + (Patience - 1) * EvalInterval

=============================================================================
