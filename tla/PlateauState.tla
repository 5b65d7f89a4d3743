---------------------------- MODULE PlateauState ----------------------------
(***************************************************************************)
(* The three-point plateau rule (early_stop.py) as operators on a record.   *)
(*                                                                         *)
(* Returns are fixed-point integers: Unit stands for 1.0.  The rule compares *)
(* score - anchor with min_delta_fraction * max(|anchor|, 1.0), strictly;    *)
(* with the fraction given in percent both sides are multiplied by 100.     *)
(***************************************************************************)
EXTENDS Integers

CONSTANTS
    Unit,           \* the integer that stands for a return of 1.0
    DeltaPercent,   \* min_delta_fraction in percent (1)
    MinEpoch,       \* the last epoch of the warm-up (100)
    Patience        \* misses that stop training (3)

ASSUME PlateauAssumption ==
    /\ Unit \in Nat \ {0}
    /\ DeltaPercent \in Nat
    /\ MinEpoch \in Nat
    /\ Patience \in Nat \ {0}

\* anchor and best are meaningful only once an evaluation has set them; 0 stands
\* for an epoch that is None.
Plateau == [anchored : BOOLEAN, anchor : Int, best : Int, bestEpoch : Nat,
            misses : Nat, stopped : BOOLEAN, stopEpoch : Nat,
            evaluations : Nat]

FreshPlateau == [anchored |-> FALSE, anchor |-> 0, best |-> 0, bestEpoch |-> 0,
                 misses |-> 0, stopped |-> FALSE, stopEpoch |-> 0,
                 evaluations |-> 0]

Magnitude(x) == IF x < 0 THEN -x ELSE x

\* 100 times the gain over the anchor a that still counts as no improvement.
Threshold(a) ==
    DeltaPercent * (IF Magnitude(a) > Unit THEN Magnitude(a) ELSE Unit)

Improves(score, a) == 100 * (score - a) > Threshold(a)

\* Mutant: the improvement is measured against the best return.
MeaningfulOverBest(p, score) == ~p.anchored \/ Improves(score, p.best)

\* The first evaluation sets the anchor.
Meaningful(p, score) == ~p.anchored \/ Improves(score, p.anchor)

\* best_score starts at minus infinity, so the first evaluation always beats it.
ActualBest(p, score) == p.evaluations = 0 \/ score > p.best

PatienceActive(epoch) == epoch > MinEpoch

\* Mutant: misses are not reset by an improvement.
KeepMisses(p, epoch, score) ==
    IF PatienceActive(epoch) /\ ~Meaningful(p, score) THEN p.misses + 1
    ELSE p.misses

\* Only an evaluation after the warm-up that brings no meaningful improvement is
\* a miss; any other starts the count over.
Misses(p, epoch, score) ==
    IF PatienceActive(epoch) /\ ~Meaningful(p, score) THEN p.misses + 1 ELSE 0

\* PlateauState.update
Update(p, epoch, score) ==
    LET best   == ActualBest(p, score)
        misses == Misses(p, epoch, score)
        stop   == PatienceActive(epoch) /\ misses >= Patience
    IN  [anchored    |-> TRUE,
         anchor      |-> IF Meaningful(p, score) THEN score ELSE p.anchor,
         best        |-> IF best THEN score ELSE p.best,
         bestEpoch   |-> IF best THEN epoch ELSE p.bestEpoch,
         misses      |-> misses,
         stopped     |-> p.stopped \/ stop,
         stopEpoch   |-> IF stop THEN epoch ELSE p.stopEpoch,
         evaluations |-> p.evaluations + 1]
=============================================================================
