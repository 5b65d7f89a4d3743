------------------------------ MODULE EpochLog ------------------------------
(***************************************************************************)
(* What the checkpoint directory promises to training: one durable state,  *)
(* which a resume restores, and which only ever advances by exactly one     *)
(* epoch trained on top of it.  No committed epoch is lost, skipped or      *)
(* counted twice, whatever crashes and replays happen meanwhile.           *)
(***************************************************************************)
EXTENDS TrainerState

VARIABLE durable

Init == durable = Fresh

Commit ==
    /\ durable.epoch < MaxEpochs
    /\ durable' \in Trained(durable)

Next == Commit

Spec == Init /\ [][Next]_durable
=============================================================================
