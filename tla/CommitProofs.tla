---------------------------- MODULE CommitProofs ----------------------------
(***************************************************************************)
(* Proofs about the two directories that are published by renames: the      *)
(* checkpoints of a training, for any number of epochs, data files,         *)
(* attempts, crashes and replays, and models/mpc, for any trainings,        *)
(* refits, validations, freezes, cases and steps and any faults and kills.  *)
(***************************************************************************)
EXTENDS EpochCheckpoint, MpcRegistry, TLAPS

-----------------------------------------------------------------------------
(* The checkpoints of a training. *)

Saving  == {"write", "replace", "verify"}
Marking == {"prune", "delete", "mark"}

\* The state latest.json stands for.
Committed == IF latest = NoFile THEN Fresh ELSE latest.image.state

\* The trainer holds the committed state, or one epoch trained on top of it.
TrainerInv ==
    /\ latest # NoFile => latest.epoch = latest.image.state.epoch
    /\ pc \in Saving => /\ Committed.epoch < MaxEpochs
                        /\ trainer \in Trained(Committed)
    /\ pc \in Marking \cup {"train"} => trainer = Committed
    /\ pc \in Marking => latest # NoFile
    /\ pc # "refused"

\* What a save attempt has renamed into place so far.
AttemptInv ==
    /\ pc \in {"replace", "verify"} => /\ image # NoFile
                                       /\ image.state = trainer
    /\ pc = "replace" => \A i \in 1..moved : data[trainer.epoch][i] = image
    /\ pc = "verify" => /\ manifest[trainer.epoch] = image
                        /\ \A i \in Parts : data[trainer.epoch][i] = image

\* No manifest is more than one epoch ahead of latest.json, none is ahead when
\* _prune runs, and the two newest are never on its list.
RetainInv ==
    /\ \A e \in Epochs : e > Committed.epoch + 1 => manifest[e] = NoFile
    /\ pc \in Marking =>
          \A e \in Epochs : e > Committed.epoch => manifest[e] = NoFile
    /\ pc # "delete" => doomed = {}
    /\ \A e \in doomed : e < Committed.epoch - 1

\* best.json is never ahead of latest.json, and an epoch to be marked beats it.
BestInv ==
    /\ best # NoFile => /\ latest # NoFile
                        /\ best.epoch <= latest.epoch
                        /\ best.image.state.best <= Committed.best
    /\ actualBest /\ best # NoFile => trainer.best > best.image.state.best
    /\ actualBest => pc \in Saving \cup Marking
    /\ pc = "mark" => actualBest
    /\ best # NoFile /\ ~BestUnreadable => /\ Loadable(best)
                                           /\ best.epoch \notin doomed

IInv ==
    /\ TypeOK
    /\ TrainerInv
    /\ AttemptInv
    /\ LatestLoadable
    /\ PreviousRetained
    /\ RetainInv
    /\ BestInv

-----------------------------------------------------------------------------

\* One epoch of training from a state gives a state with the next epoch and a
\* best return that is no lower.
LEMMA TrainedFacts ==
    ASSUME NEW s \in State, NEW t \in Trained(s)
    PROVE  /\ t \in State
           /\ t.epoch = s.epoch + 1
           /\ t.best >= s.best
<1>1. CASE (s.epoch + 1) % EvalInterval = 0
  <2>1. PICK score \in Scores : t = Evaluated(s, score)
    BY <1>1 DEF Trained
  <2>2. score \in Nat
    BY <2>1, StateAssumption
  <2> QED
    BY <2>1, <2>2 DEF Evaluated, Unevaluated, State
<1>2. CASE ~((s.epoch + 1) % EvalInterval = 0)
  BY <1>2 DEF Trained, Unevaluated, State
<1> QED
  BY <1>1, <1>2

\* The committed state is a state, and the names behind it are in range.
LEMMA CommittedFacts ==
    ASSUME IInv
    PROVE  /\ Committed \in State
           /\ latest # NoFile => /\ latest \in Pointer
                                 /\ latest.epoch \in Epochs
                                 /\ latest.image \in Image
                                 /\ Committed = latest.image.state
                                 /\ Committed.epoch = latest.epoch
           /\ best # NoFile => /\ best \in Pointer
                               /\ best.epoch \in Epochs
                               /\ best.image \in Image
           /\ pc \in Saving => /\ trainer.epoch = Committed.epoch + 1
                               /\ trainer.best >= Committed.best
                               /\ trainer.epoch \in Epochs
           /\ pc \in Marking => /\ trainer.epoch = latest.epoch
                                /\ trainer.epoch \in Epochs
<1>1. Committed \in State
  BY DEF IInv, TypeOK, Committed, Pointer, Image, State, Fresh, NoScore
<1>2. latest # NoFile => /\ latest \in Pointer
                         /\ latest.epoch \in Epochs
                         /\ latest.image \in Image
                         /\ Committed = latest.image.state
                         /\ Committed.epoch = latest.epoch
  BY DEF IInv, TypeOK, TrainerInv, Committed, Pointer
<1>3. best # NoFile => /\ best \in Pointer
                       /\ best.epoch \in Epochs
                       /\ best.image \in Image
  BY DEF IInv, TypeOK, Pointer
<1>4. ASSUME pc \in Saving
      PROVE  /\ trainer.epoch = Committed.epoch + 1
             /\ trainer.best >= Committed.best
             /\ trainer.epoch \in Epochs
  <2>1. trainer \in Trained(Committed) /\ Committed.epoch < MaxEpochs
    BY <1>4 DEF IInv, TrainerInv
  <2>2. trainer.epoch = Committed.epoch + 1 /\ trainer.best >= Committed.best
    BY <1>1, <2>1, TrainedFacts
  <2> QED
    BY <1>1, <2>1, <2>2, StateAssumption DEF Epochs, State
<1>5. pc \in Marking => trainer.epoch = latest.epoch /\ trainer.epoch \in Epochs
  BY <1>2 DEF IInv, TrainerInv
<1> QED
  BY <1>1, <1>2, <1>3, <1>4, <1>5

LEMMA InitIInv == Init => IInv
<1> SUFFICES ASSUME Init PROVE IInv
  OBVIOUS
<1> USE StateAssumption, CheckpointAssumption
<1>1. TypeOK
  <2>1. Fresh \in State
    BY DEF Fresh, State, NoScore
  <2>2. moved \in 0..NParts /\ attempt \in 0..SaveRetries
    BY DEF Init
  <2>3. data \in [Epochs -> [Parts -> Image \cup {NoFile}]]
    BY DEF Init
  <2> QED
    BY <2>1, <2>2, <2>3 DEF Init, TypeOK, Phases
<1>2. TrainerInv /\ AttemptInv /\ RetainInv /\ BestInv
  BY DEF Init, TrainerInv, AttemptInv, RetainInv, BestInv, Committed, Saving,
         Marking, Epochs
<1>3. LatestLoadable /\ PreviousRetained
  BY DEF Init, LatestLoadable, PreviousRetained
<1> QED
  BY <1>1, <1>2, <1>3 DEF IInv

-----------------------------------------------------------------------------
(***************************************************************************)
(* The invariant is inductive: one lemma for each action.  Steps that leave *)
(* the files alone share the first lemma; steps that write or delete files  *)
(* of one epoch show that the epochs the pointers name are others.         *)
(***************************************************************************)

LEMMA SameDisk ==
    ASSUME IInv, UNCHANGED disk
    PROVE  /\ Committed' = Committed
           /\ LatestLoadable'
           /\ PreviousRetained'
           /\ \A e \in Epochs : e > Committed.epoch + 1 => manifest'[e] = NoFile
           /\ best' # NoFile => /\ latest' # NoFile
                                /\ best'.epoch <= latest'.epoch
                                /\ best'.image.state.best <= Committed'.best
           /\ best' # NoFile /\ ~BestUnreadable => Loadable(best)'
<1>1. Committed' = Committed
  BY DEF disk, Committed
<1>2. LatestLoadable' /\ PreviousRetained'
  BY DEF IInv, disk, LatestLoadable, PreviousRetained, Loadable, Complete
<1>3. \A e \in Epochs : e > Committed.epoch + 1 => manifest'[e] = NoFile
  BY DEF IInv, RetainInv, disk
<1>4. best # NoFile => /\ latest # NoFile
                       /\ best.epoch <= latest.epoch
                       /\ best.image.state.best <= Committed.best
  BY DEF IInv, BestInv
<1>5. best # NoFile /\ ~BestUnreadable => Loadable(best)
  BY DEF IInv, BestInv
<1> QED
  BY <1>1, <1>2, <1>3, <1>4, <1>5 DEF disk, Loadable

LEMMA TrainEpochStep ==
    ASSUME IInv, TrainEpoch
    PROVE  IInv'
<1>1. /\ trainer = Committed
      /\ trainer' \in Trained(trainer)
      /\ trainer'.best >= trainer.best
      /\ trainer' \in State
      /\ trainer \in State
  BY CommittedFacts, TrainedFacts DEF IInv, TrainerInv, TrainEpoch
<1>2. TypeOK'
  <2>1. attempt' \in 0..SaveRetries
    BY CheckpointAssumption DEF TrainEpoch
  <2>2. actualBest' \in BOOLEAN
    BY DEF TrainEpoch
  <2> QED
    BY <1>1, <2>1, <2>2 DEF IInv, TypeOK, TrainEpoch, disk, Phases
<1>3. TrainerInv'
  BY <1>1, SameDisk DEF IInv, TrainerInv, TrainEpoch, disk, Saving, Marking
<1>4. AttemptInv'
  BY DEF AttemptInv, TrainEpoch
<1>5. RetainInv'
  BY SameDisk DEF IInv, RetainInv, TrainEpoch, Marking
<1>6. BestInv'
  <2>1. ASSUME actualBest', best # NoFile
        PROVE  trainer'.best > best.image.state.best
    <3>1. best.image.state.best <= trainer.best /\ best.image.state \in State
      BY <1>1, <2>1, CommittedFacts DEF IInv, BestInv, Image
    <3>2. trainer'.best > trainer.best
      BY <2>1 DEF TrainEpoch
    <3> QED
      BY <1>1, <3>1, <3>2 DEF State
  <2>2. pc' \in Saving /\ pc' # "mark" /\ pc # "delete"
        /\ UNCHANGED <<disk, doomed, best>>
    BY DEF TrainEpoch, Saving, disk
  <2> QED
    BY <2>1, <2>2, SameDisk DEF IInv, BestInv, RetainInv
<1> QED
  BY <1>2, <1>3, <1>4, <1>5, <1>6, SameDisk DEF IInv, TrainEpoch

LEMMA WriteTemporariesStep ==
    ASSUME IInv, WriteTemporaries
    PROVE  IInv'
<1>1. image' \in Image /\ image'.state = trainer
  BY DEF IInv, TypeOK, WriteTemporaries, Image
<1>2. TypeOK'
  <2>1. moved' \in 0..NParts
    BY CheckpointAssumption DEF WriteTemporaries
  <2> QED
    BY <1>1, <2>1 DEF IInv, TypeOK, WriteTemporaries, disk, Phases
<1>3. TrainerInv'
  BY SameDisk DEF IInv, TrainerInv, WriteTemporaries, disk, Saving, Marking
<1>4. AttemptInv'
  <2>1. image' # NoFile
    BY <1>1, CheckpointAssumption
  <2>2. 1..moved' = {}
    BY DEF WriteTemporaries
  <2> QED
    BY <1>1, <2>1, <2>2 DEF AttemptInv, WriteTemporaries
<1>5. RetainInv'
  BY SameDisk DEF IInv, RetainInv, WriteTemporaries, Marking
<1>6. BestInv'
  <2>1. /\ pc' \in Saving
        /\ pc' # "mark"
        /\ UNCHANGED <<disk, doomed, best, trainer, actualBest>>
    BY DEF WriteTemporaries, Saving, disk
  <2> QED
    BY <2>1, SameDisk DEF IInv, BestInv
<1> QED
  BY <1>2, <1>3, <1>4, <1>5, <1>6, SameDisk DEF IInv, WriteTemporaries

LEMMA RetrySaveStep ==
    ASSUME IInv, RetrySave, ~PruneRaises
    PROVE  IInv'
<1>1. pc \in Saving /\ pc' = "write"
  BY DEF RetrySave, SaveRaises, Saving
<1>2. TypeOK'
  <2>1. attempt' \in 0..SaveRetries
    BY CheckpointAssumption
       DEF IInv, TypeOK, RetrySave, AttemptsLeft, NextAttempt
  <2> QED
    BY <2>1 DEF IInv, TypeOK, RetrySave, disk, Phases
<1>3. TrainerInv'
  BY <1>1, SameDisk DEF IInv, TrainerInv, RetrySave, disk, Saving, Marking
<1>4. AttemptInv'
  BY <1>1 DEF AttemptInv
<1>5. RetainInv'
  BY <1>1, SameDisk DEF IInv, RetainInv, RetrySave, Saving, Marking
<1>6. BestInv'
  <2>1. /\ pc' \in Saving
        /\ pc' # "mark"
        /\ UNCHANGED <<disk, doomed, best, trainer, actualBest>>
    BY <1>1 DEF RetrySave, Saving, disk
  <2> QED
    BY <2>1, SameDisk DEF IInv, BestInv
<1> QED
  BY <1>2, <1>3, <1>4, <1>5, <1>6, SameDisk DEF IInv, RetrySave

\* What a step that writes files of the epoch being saved leaves alone.
LEMMA WriteAhead ==
    ASSUME IInv, pc \in Saving, UNCHANGED <<latest, best>>,
           \A e \in Epochs : e # trainer.epoch => /\ data'[e] = data[e]
                                                  /\ manifest'[e] = manifest[e]
    PROVE  /\ Committed' = Committed
           /\ LatestLoadable'
           /\ PreviousRetained'
           /\ \A e \in Epochs : e > Committed.epoch + 1 => manifest'[e] = NoFile
           /\ best # NoFile /\ ~BestUnreadable => Loadable(best)'
<1>1. Committed' = Committed
  BY DEF Committed
<1>2. trainer.epoch = Committed.epoch + 1 /\ Committed.epoch \in Nat
  BY CommittedFacts DEF State
<1>3. \A e \in Epochs : e # Committed.epoch + 1 => /\ data'[e] = data[e]
                                                   /\ manifest'[e] = manifest[e]
  BY <1>2
<1>4. LatestLoadable'
  <2>1. CASE latest # NoFile
    <3>1. latest.epoch \in Epochs /\ latest.epoch # Committed.epoch + 1
      BY <1>2, <2>1, CommittedFacts
    <3> QED
      BY <1>3, <2>1, <3>1 DEF IInv, LatestLoadable, Loadable
  <2> QED
    BY <2>1 DEF LatestLoadable
<1>5. PreviousRetained'
  <2>1. CASE latest # NoFile /\ latest.epoch > 1
    <3>1. latest.epoch - 1 \in Epochs /\ latest.epoch - 1 # Committed.epoch + 1
      BY <1>2, <2>1, CommittedFacts, StateAssumption DEF Epochs
    <3> QED
      BY <1>3, <2>1, <3>1 DEF IInv, PreviousRetained, Complete
  <2> QED
    BY <2>1 DEF PreviousRetained
<1>6. \A e \in Epochs : e > Committed.epoch + 1 => manifest'[e] = NoFile
  BY <1>2, <1>3 DEF IInv, RetainInv, Epochs
<1>7. best # NoFile /\ ~BestUnreadable => Loadable(best)'
  <2>1. CASE best # NoFile /\ ~BestUnreadable
    <3>1. best.epoch <= Committed.epoch /\ best.epoch \in Epochs
      BY <2>1, CommittedFacts DEF IInv, BestInv
    <3>2. best.epoch # Committed.epoch + 1
      BY <1>2, <3>1 DEF Epochs
    <3>3. Loadable(best)
      BY <2>1 DEF IInv, BestInv
    <3> QED
      BY <1>3, <3>1, <3>2, <3>3 DEF Loadable
  <2> QED
    BY <2>1
<1> QED
  BY <1>1, <1>4, <1>5, <1>6, <1>7

LEMMA ReplaceDataStep ==
    ASSUME IInv, ReplaceData
    PROVE  IInv'
<1>1. /\ pc \in Saving
      /\ trainer.epoch \in Epochs
      /\ image \in Image
      /\ moved \in Nat
      /\ moved + 1 \in Parts
      /\ data \in [Epochs -> [Parts -> Image \cup {NoFile}]]
  BY CommittedFacts, CheckpointAssumption
     DEF IInv, ReplaceData, Saving, AttemptInv, TypeOK, Parts
<1>2. \A e \in Epochs : e # trainer.epoch => /\ data'[e] = data[e]
                                             /\ manifest'[e] = manifest[e]
  BY <1>1 DEF ReplaceData
<1>3. \A i \in 1..moved' : data'[trainer.epoch][i] = image
  <2>1. data'[trainer.epoch] = [data[trainer.epoch] EXCEPT ![moved + 1] = image]
    BY <1>1 DEF ReplaceData
  <2>2. \A i \in 1..moved : data[trainer.epoch][i] = image /\ i \in Parts
    <3>1. \A i \in 1..moved : data[trainer.epoch][i] = image
      BY DEF IInv, ReplaceData, AttemptInv
    <3>2. \A i \in 1..moved : i \in Parts
      BY <1>1, CheckpointAssumption DEF Parts
    <3> QED
      BY <3>1, <3>2
  <2>3. \A i \in 1..moved' : i \in 1..moved \/ i = moved + 1
    BY <1>1 DEF ReplaceData
  <2>4. data[trainer.epoch] \in [Parts -> Image \cup {NoFile}]
    BY <1>1
  <2> QED
    BY <1>1, <2>1, <2>2, <2>3, <2>4
<1>4. TypeOK'
  <2>1. data' \in [Epochs -> [Parts -> Image \cup {NoFile}]]
    BY <1>1 DEF ReplaceData
  <2>2. moved' \in 0..NParts
    BY <1>1 DEF ReplaceData, Parts
  <2> QED
    BY <2>1, <2>2 DEF IInv, TypeOK, ReplaceData
<1>5. TrainerInv'
  BY <1>1, <1>2, WriteAhead DEF IInv, TrainerInv, ReplaceData
<1>6. AttemptInv'
  BY <1>3 DEF IInv, AttemptInv, ReplaceData
<1>7. RetainInv'
  BY <1>1, <1>2, WriteAhead DEF IInv, RetainInv, ReplaceData, Saving, Marking
<1>8. BestInv'
  BY <1>1, <1>2, WriteAhead DEF IInv, BestInv, ReplaceData, Saving
<1> QED
  BY <1>1, <1>2, <1>4, <1>5, <1>6, <1>7, <1>8, WriteAhead DEF IInv, ReplaceData

LEMMA ReplaceManifestStep ==
    ASSUME IInv, ReplaceManifest
    PROVE  IInv'
<1>1. /\ pc \in Saving
      /\ pc' \in Saving
      /\ trainer.epoch \in Epochs
      /\ image \in Image
      /\ manifest \in [Epochs -> Image \cup {NoFile}]
  BY CommittedFacts DEF IInv, ReplaceManifest, Saving, AttemptInv, TypeOK
<1>2. \A e \in Epochs : e # trainer.epoch => /\ data'[e] = data[e]
                                             /\ manifest'[e] = manifest[e]
  BY <1>1 DEF ReplaceManifest
<1>3. TypeOK'
  <2>1. manifest' \in [Epochs -> Image \cup {NoFile}]
    BY <1>1 DEF ReplaceManifest
  <2> QED
    BY <2>1 DEF IInv, TypeOK, ReplaceManifest, Phases
<1>4. TrainerInv'
  BY <1>1, <1>2, WriteAhead DEF IInv, TrainerInv, ReplaceManifest, Saving, Marking
<1>5. AttemptInv'
  <2>1. manifest'[trainer.epoch] = image
    BY <1>1 DEF ReplaceManifest
  <2>2. \A i \in Parts : data[trainer.epoch][i] = image
    BY DEF IInv, ReplaceManifest, AttemptInv, Parts
  <2> QED
    BY <2>1, <2>2 DEF IInv, AttemptInv, ReplaceManifest
<1>6. RetainInv'
  BY <1>1, <1>2, WriteAhead DEF IInv, RetainInv, ReplaceManifest, Saving, Marking
<1>7. BestInv'
  BY <1>1, <1>2, WriteAhead DEF IInv, BestInv, ReplaceManifest, Saving
<1> QED
  BY <1>1, <1>2, <1>3, <1>4, <1>5, <1>6, <1>7, WriteAhead
     DEF IInv, ReplaceManifest

\* latest.json moves to the image of the trainer's state, read back from disk.
LEMMA CommitAdvances ==
    ASSUME IInv, CommitPointer
    PROVE  /\ latest' = [epoch |-> trainer.epoch, image |-> image]
           /\ latest' \in Pointer
           /\ latest' # NoFile
           /\ image.state = trainer
           /\ Committed' = trainer
<1>1. /\ trainer.epoch \in Epochs
      /\ image \in Image
      /\ image.state = trainer
      /\ manifest[trainer.epoch] = image
  BY CommittedFacts DEF IInv, CommitPointer, Saving, AttemptInv, TypeOK
<1>2. latest' = [epoch |-> trainer.epoch, image |-> image]
  BY <1>1 DEF CommitPointer
<1>3. latest' \in Pointer /\ latest' # NoFile
  BY <1>1, <1>2, CheckpointAssumption DEF Pointer
<1> QED
  BY <1>1, <1>2, <1>3 DEF Committed

LEMMA CommitPointerStep ==
    ASSUME IInv, CommitPointer
    PROVE  IInv'
<1>1. /\ pc \in Saving
      /\ pc' \in Marking
      /\ pc' \notin Saving
      /\ trainer.epoch \in Epochs
      /\ trainer \in State
      /\ image \in Image
      /\ image.state = trainer
      /\ manifest[trainer.epoch] = image
      /\ \A i \in Parts : data[trainer.epoch][i] = image
  BY CommittedFacts
     DEF IInv, CommitPointer, Saving, Marking, AttemptInv, TypeOK
<1>2. latest' = [epoch |-> trainer.epoch, image |-> image]
  BY CommitAdvances
<1>3. latest' \in Pointer /\ latest' # NoFile
  BY CommitAdvances
<1>4. Committed' = trainer
  BY CommitAdvances
<1>5. /\ trainer.epoch = Committed.epoch + 1
      /\ trainer.best >= Committed.best
      /\ Committed \in State
  BY <1>1, CommittedFacts
<1>6. TypeOK'
  BY <1>3 DEF IInv, TypeOK, CommitPointer, Phases
<1>7. TrainerInv'
  BY <1>1, <1>2, <1>3, <1>4 DEF IInv, TrainerInv, CommitPointer
<1>8. AttemptInv'
  BY DEF AttemptInv, CommitPointer
<1>9. LatestLoadable'
  BY <1>1, <1>2 DEF LatestLoadable, Loadable, CommitPointer
<1>10. PreviousRetained'
  <2>1. CASE trainer.epoch > 1
    <3>1. Committed.epoch = trainer.epoch - 1 /\ Committed.epoch # 0
      BY <1>5, <2>1 DEF State
    <3>2. latest # NoFile
      BY <3>1 DEF Committed, Fresh
    <3>3. latest.epoch = trainer.epoch - 1 /\ latest \in Pointer
      BY <3>1, <3>2, CommittedFacts
    <3>4. Loadable(latest)
      BY <3>2 DEF IInv, LatestLoadable
    <3>5. latest.image # NoFile
      BY <3>3, CheckpointAssumption DEF Pointer
    <3>6. Complete(trainer.epoch - 1)
      BY <3>3, <3>4, <3>5 DEF Loadable, Complete
    <3> QED
      BY <1>2, <3>6 DEF PreviousRetained, Complete, CommitPointer
  <2> QED
    BY <1>2, <2>1 DEF PreviousRetained
<1>11. RetainInv'
  <2>1. \A e \in Epochs : e > trainer.epoch => manifest[e] = NoFile
    BY <1>5 DEF IInv, RetainInv
  <2> QED
    BY <1>1, <1>4, <1>5, <2>1 DEF IInv, RetainInv, CommitPointer, Epochs, State
<1>12. BestInv'
  <2>2. /\ pc' # "mark"
        /\ UNCHANGED <<best, trainer, actualBest>>
    BY DEF CommitPointer
  <2>1. CASE best # NoFile
    <3>1. /\ best.epoch <= Committed.epoch
          /\ best.epoch \in Nat
          /\ best.image.state \in State
          /\ best.image.state.best <= Committed.best
      BY <2>1, CommittedFacts DEF IInv, BestInv, Epochs, Image
    <3>2. best.epoch <= trainer.epoch /\ best.image.state.best <= trainer.best
      BY <1>1, <1>5, <3>1 DEF State
    <3>3. UNCHANGED <<best, data, manifest, doomed>>
      BY DEF CommitPointer
    <3>4. Loadable(best)' <=> Loadable(best)
      BY <3>3 DEF Loadable
    <3> QED
      BY <1>1, <1>2, <1>3, <1>4, <2>2, <3>2, <3>3, <3>4 DEF IInv, BestInv
  <2>3. CASE best = NoFile
    BY <1>1, <2>2, <2>3 DEF IInv, BestInv
  <2> QED
    BY <2>1, <2>3
<1> QED
  BY <1>6, <1>7, <1>8, <1>9, <1>10, <1>11, <1>12 DEF IInv

\* _prune never dooms the checkpoint latest.json names nor the one before it, nor
\* the one best.json names if it could be read.
LEMMA PruneStep ==
    ASSUME IInv, Prune
    PROVE  IInv'
<1>1. /\ pc \in Marking
      /\ pc' \in Marking
      /\ latest # NoFile
      /\ trainer = Committed
      /\ Committed \in State
      /\ Committed.epoch = latest.epoch
      /\ latest.epoch \in Epochs
  BY CommittedFacts DEF IInv, TrainerInv, Prune, Marking
<1> DEFINE present == {e \in Epochs : manifest[e] # NoFile}
<1>2. \A e \in doomed' : e \in present /\ e \notin Newest(present)
  BY DEF Prune, Prunable
<1>3. ASSUME NEW e \in doomed'
      PROVE  e \in Epochs /\ e < Committed.epoch - 1
  <2>1. PICK f \in present, g \in present : f > e /\ g > e /\ f # g
    BY <1>2 DEF Newest
  <2>2. e \in Epochs /\ f <= Committed.epoch /\ g <= Committed.epoch
    <3>1. \A h \in present : h <= Committed.epoch
      BY <1>1 DEF IInv, RetainInv, State, Epochs
    <3> QED
      BY <1>2, <2>1, <3>1
  <2> QED
    BY <1>1, <2>1, <2>2 DEF Epochs, State
<1>4. ~BestUnreadable /\ best # NoFile => best.epoch \notin doomed'
  BY DEF Prune, Prunable, Named
<1>5. TypeOK'
  BY <1>3 DEF IInv, TypeOK, Prune, disk, Phases
<1>6. TrainerInv'
  BY <1>1, SameDisk DEF IInv, TrainerInv, Prune, disk, Marking, Saving
<1>7. AttemptInv'
  BY DEF AttemptInv, Prune
<1>8. RetainInv'
  BY <1>1, <1>3, SameDisk DEF IInv, RetainInv, Prune, disk
<1>9. BestInv'
  <2>1. /\ UNCHANGED <<disk, latest, best, trainer, actualBest>>
        /\ pc' # "mark"
    BY DEF Prune, disk
  <2> QED
    BY <1>1, <1>4, <2>1, SameDisk DEF IInv, BestInv
<1> QED
  BY <1>5, <1>6, <1>7, <1>8, <1>9, SameDisk DEF IInv, Prune

LEMMA DeleteFailsStep ==
    ASSUME IInv, DeleteFails
    PROVE  IInv'
<1>1. doomed' \subseteq doomed
  BY DEF DeleteFails
<1>2. TypeOK'
  BY <1>1 DEF IInv, TypeOK, DeleteFails, disk
<1>3. TrainerInv'
  BY SameDisk DEF IInv, TrainerInv, DeleteFails, disk
<1>4. AttemptInv'
  BY DEF AttemptInv, DeleteFails
<1>5. RetainInv'
  BY <1>1, SameDisk DEF IInv, RetainInv, DeleteFails, disk
<1>6. BestInv'
  BY <1>1, SameDisk DEF IInv, BestInv, DeleteFails, disk
<1> QED
  BY <1>2, <1>3, <1>4, <1>5, <1>6, SameDisk DEF IInv, DeleteFails

\* What a step that deletes files of a doomed epoch leaves alone.
LEMMA DeleteBehind ==
    ASSUME IInv, UNCHANGED <<latest, best>>,
           NEW d \in doomed,
           \A e \in Epochs : e # d => /\ data'[e] = data[e]
                                      /\ manifest'[e] = manifest[e]
    PROVE  /\ Committed' = Committed
           /\ LatestLoadable'
           /\ PreviousRetained'
           /\ best # NoFile /\ ~BestUnreadable => Loadable(best)'
<1>1. Committed' = Committed
  BY DEF Committed
<1>2. d < Committed.epoch - 1 /\ d \in Nat /\ Committed.epoch \in Nat
  BY CommittedFacts DEF IInv, RetainInv, TypeOK, Epochs, State
<1>3. LatestLoadable'
  <2>1. CASE latest # NoFile
    <3>1. latest.epoch \in Epochs /\ latest.epoch # d
      BY <1>2, <2>1, CommittedFacts
    <3> QED
      BY <2>1, <3>1 DEF IInv, LatestLoadable, Loadable
  <2> QED
    BY <2>1 DEF LatestLoadable
<1>4. PreviousRetained'
  <2>1. CASE latest # NoFile /\ latest.epoch > 1
    <3>1. latest.epoch - 1 \in Epochs /\ latest.epoch - 1 # d
      BY <1>2, <2>1, CommittedFacts, StateAssumption DEF Epochs
    <3> QED
      BY <2>1, <3>1 DEF IInv, PreviousRetained, Complete
  <2> QED
    BY <2>1 DEF PreviousRetained
<1>5. best # NoFile /\ ~BestUnreadable => Loadable(best)'
  <2>1. CASE best # NoFile /\ ~BestUnreadable
    <3>1. best.epoch # d /\ best.epoch \in Epochs /\ Loadable(best)
      BY <2>1, CommittedFacts DEF IInv, BestInv
    <3> QED
      BY <3>1 DEF Loadable
  <2> QED
    BY <2>1
<1> QED
  BY <1>1, <1>3, <1>4, <1>5

LEMMA DeleteDataStep ==
    ASSUME IInv, DeleteData
    PROVE  IInv'
<1>1. PICK d \in doomed, i \in Parts : data' = [data EXCEPT ![d][i] = NoFile]
  BY DEF DeleteData, IsFirst
<1>2. d \in Epochs /\ data \in [Epochs -> [Parts -> Image \cup {NoFile}]]
  BY DEF IInv, TypeOK
<1>3. \A e \in Epochs : e # d => data'[e] = data[e] /\ manifest'[e] = manifest[e]
  BY <1>1, <1>2 DEF DeleteData
<1>4. UNCHANGED <<latest, best>>
  BY DEF DeleteData
<1>5. TypeOK'
  <2>1. data' \in [Epochs -> [Parts -> Image \cup {NoFile}]]
    BY <1>1, <1>2
  <2> QED
    BY <2>1 DEF IInv, TypeOK, DeleteData
<1>6. TrainerInv'
  BY <1>3, <1>4, DeleteBehind DEF IInv, TrainerInv, DeleteData
<1>7. AttemptInv'
  BY DEF AttemptInv, DeleteData
<1>8. RetainInv'
  BY <1>3, <1>4, DeleteBehind DEF IInv, RetainInv, DeleteData
<1>9. BestInv'
  BY <1>3, <1>4, DeleteBehind DEF IInv, BestInv, DeleteData
<1> QED
  BY <1>3, <1>4, <1>5, <1>6, <1>7, <1>8, <1>9, DeleteBehind DEF IInv

LEMMA DeleteManifestStep ==
    ASSUME IInv, DeleteManifest
    PROVE  IInv'
<1>1. PICK d \in doomed : /\ manifest' = [manifest EXCEPT ![d] = NoFile]
                          /\ doomed' = doomed \ {d}
  BY DEF DeleteManifest, IsFirst
<1>2. d \in Epochs /\ manifest \in [Epochs -> Image \cup {NoFile}]
  BY DEF IInv, TypeOK
<1>3. \A e \in Epochs : e # d => data'[e] = data[e] /\ manifest'[e] = manifest[e]
  BY <1>1, <1>2 DEF DeleteManifest
<1>4. UNCHANGED <<latest, best>>
  BY DEF DeleteManifest
<1>5. TypeOK'
  <2>1. manifest' \in [Epochs -> Image \cup {NoFile}]
    BY <1>1, <1>2
  <2> QED
    BY <1>1, <2>1 DEF IInv, TypeOK, DeleteManifest
<1>6. TrainerInv'
  BY <1>3, <1>4, DeleteBehind DEF IInv, TrainerInv, DeleteManifest
<1>7. AttemptInv'
  BY DEF AttemptInv, DeleteManifest
<1>8. RetainInv'
  <2>1. \A e \in Epochs : manifest[e] = NoFile => manifest'[e] = NoFile
    BY <1>1, <1>2
  <2> QED
    BY <1>1, <1>3, <1>4, <2>1, DeleteBehind DEF IInv, RetainInv, DeleteManifest
<1>9. BestInv'
  BY <1>1, <1>3, <1>4, DeleteBehind DEF IInv, BestInv, DeleteManifest
<1> QED
  BY <1>3, <1>4, <1>5, <1>6, <1>7, <1>8, <1>9, DeleteBehind DEF IInv

LEMMA PruneReturnsStep ==
    ASSUME IInv, PruneReturns
    PROVE  IInv'
<1>1. pc \in Marking /\ pc' \in {"mark", "train"} /\ (pc' = "mark" => actualBest)
  BY DEF PruneReturns, Marking
<1>2. TypeOK'
  <2>1. moved' \in 0..NParts /\ attempt' \in 0..SaveRetries
    BY CheckpointAssumption DEF PruneReturns
  <2> QED
    BY <1>1, <2>1 DEF IInv, TypeOK, PruneReturns, disk, Phases
<1>3. TrainerInv'
  BY <1>1, SameDisk DEF IInv, TrainerInv, PruneReturns, disk, Saving, Marking
<1>4. AttemptInv'
  BY <1>1 DEF AttemptInv
<1>5. RetainInv'
  BY <1>1, SameDisk DEF IInv, RetainInv, PruneReturns, disk
<1>6. BestInv'
  <2>1. /\ UNCHANGED <<disk, doomed, best, trainer, actualBest>>
        /\ actualBest => pc' \in Marking
    BY DEF PruneReturns, Marking, disk
  <2> QED
    BY <1>1, <2>1, SameDisk DEF IInv, BestInv
<1> QED
  BY <1>2, <1>3, <1>4, <1>5, <1>6, SameDisk DEF IInv, PruneReturns

LEMMA MarkBestStep ==
    ASSUME IInv, MarkBest
    PROVE  IInv'
<1>1. /\ pc \in Marking
      /\ pc' \in Marking
      /\ latest # NoFile
      /\ trainer = Committed
      /\ Committed = latest.image.state
      /\ Committed \in State
      /\ trainer.epoch = latest.epoch
      /\ latest.epoch \in Epochs
      /\ latest \in Pointer
      /\ Loadable(latest)
  BY CommittedFacts
     DEF IInv, TrainerInv, MarkBest, Marking, LatestLoadable
<1>2. best' = latest
  BY <1>1 DEF MarkBest, Loadable, Pointer
<1>3. Committed' = Committed
  BY DEF Committed, MarkBest
<1>4. TypeOK'
  BY <1>1, <1>2 DEF IInv, TypeOK, MarkBest, Phases
<1>5. TrainerInv'
  BY <1>1, <1>3 DEF IInv, TrainerInv, MarkBest, Saving, Marking
<1>6. AttemptInv'
  BY DEF AttemptInv, MarkBest
<1>7. LatestLoadable' /\ PreviousRetained'
  BY DEF IInv, LatestLoadable, PreviousRetained, Loadable, Complete, MarkBest
<1>8. RetainInv'
  BY <1>1, <1>3 DEF IInv, RetainInv, MarkBest
<1>9. BestInv'
  <2>1. best'.epoch <= latest'.epoch /\ best'.image.state.best <= Committed'.best
    BY <1>1, <1>2, <1>3 DEF MarkBest, Epochs, State
  <2>2. Loadable(best)' /\ best'.epoch \notin doomed'
    BY <1>1, <1>2 DEF IInv, RetainInv, Loadable, MarkBest
  <2> QED
    BY <1>1, <2>1, <2>2 DEF BestInv, MarkBest
<1> QED
  BY <1>4, <1>5, <1>6, <1>7, <1>8, <1>9 DEF IInv

LEMMA StopStep ==
    ASSUME IInv, Stop
    PROVE  IInv'
<1>1. TypeOK'
  <2>1. Fresh \in State
    BY DEF Fresh, State, NoScore
  <2>2. moved' \in 0..NParts /\ attempt' \in 0..SaveRetries
    BY CheckpointAssumption DEF Stop
  <2>3. actualBest' \in BOOLEAN
    BY DEF Stop
  <2> QED
    BY <2>1, <2>2, <2>3 DEF IInv, TypeOK, Stop, disk, Phases
<1>2. TrainerInv'
  BY SameDisk DEF IInv, TrainerInv, Stop, disk, Saving, Marking
<1>3. AttemptInv'
  BY DEF AttemptInv, Stop
<1>4. RetainInv'
  BY SameDisk DEF IInv, RetainInv, Stop, disk, Marking
<1>5. BestInv'
  BY SameDisk DEF IInv, BestInv, Stop, disk
<1> QED
  BY <1>1, <1>2, <1>3, <1>4, <1>5, SameDisk DEF IInv, Stop

LEMMA ResumeStep ==
    ASSUME IInv, Resume
    PROVE  IInv'
<1>1. pc' = "train" /\ trainer' = Committed /\ UNCHANGED disk
  BY DEF IInv, LatestLoadable, Resume, Restore, Committed
<1>2. TypeOK'
  BY <1>1, CommittedFacts DEF IInv, TypeOK, Resume, disk, Phases
<1>3. TrainerInv'
  BY <1>1, SameDisk DEF IInv, TrainerInv, disk, Saving, Marking
<1>4. AttemptInv'
  BY <1>1 DEF AttemptInv
<1>5. RetainInv'
  BY <1>1, SameDisk DEF IInv, RetainInv, Resume, disk, Marking
<1>6. BestInv'
  <2>1. ~actualBest'
    BY DEF IInv, BestInv, Resume, Saving, Marking
  <2> QED
    BY <1>1, <2>1, SameDisk DEF IInv, BestInv, Resume, disk
<1> QED
  BY <1>1, <1>2, <1>3, <1>4, <1>5, <1>6, SameDisk DEF IInv

LEMMA NextIInv ==
    ASSUME IInv, [Next]_vars, ~PruneRaises
    PROVE  IInv'
<1>1. CASE Save
  BY <1>1, TrainEpochStep, WriteTemporariesStep, ReplaceDataStep,
     ReplaceManifestStep, CommitPointerStep, RetrySaveStep, StopStep
     DEF Save, SaveFails
<1>2. CASE Pruning
  BY <1>2, PruneStep, DeleteDataStep, DeleteManifestStep, DeleteFailsStep,
     PruneReturnsStep DEF Pruning
<1>3. CASE UNCHANGED vars
  BY <1>3 DEF vars, IInv, TypeOK, TrainerInv, AttemptInv, LatestLoadable,
              PreviousRetained, RetainInv, BestInv, Committed, Loadable, Complete
<1> QED
  BY <1>1, <1>2, <1>3, MarkBestStep, StopStep, ResumeStep
     DEF Next, Crash

-----------------------------------------------------------------------------
(***************************************************************************)
(* What holds of every run, as long as listing the directory in _prune does *)
(* not raise inside save.                                                  *)
(***************************************************************************)

\* The invariant holds in every reachable state of the checkpoint directory.
THEOREM Invariance ==
    ASSUME ~PruneRaises
    PROVE  Spec => []IInv
<1>1. Init => IInv
  BY InitIInv
<1>2. IInv /\ [Next]_vars => IInv'
  BY NextIInv
<1> QED
  BY <1>1, <1>2, PTL DEF Spec

\* Every file and every variable of the trainer keeps its type.
THEOREM TypeCorrect ==
    ASSUME ~PruneRaises
    PROVE  Spec => []TypeOK
<1>1. IInv => TypeOK
  BY DEF IInv
<1> QED
  BY <1>1, Invariance, PTL

\* A resume never finds a checkpoint that fails its checks: whatever crashes,
\* replays, failed attempts and unreadable pointers, latest.json is loadable.
THEOREM LatestAlwaysLoadable ==
    ASSUME ~PruneRaises
    PROVE  Spec => []LatestLoadable
<1>1. IInv => LatestLoadable
  BY DEF IInv
<1> QED
  BY <1>1, Invariance, PTL

\* The checkpoint before the one latest.json names is kept complete.
THEOREM PreviousAlwaysRetained ==
    ASSUME ~PruneRaises
    PROVE  Spec => []PreviousRetained
<1>1. IInv => PreviousRetained
  BY DEF IInv
<1> QED
  BY <1>1, Invariance, PTL

\* The checkpoint best.json names is kept loadable as long as _prune can read
\* the pointers.
THEOREM BestAlwaysLoadable ==
    ASSUME ~PruneRaises, ~BestUnreadable
    PROVE  Spec => []BestLoadable
<1>1. IInv => BestLoadable
  BY DEF IInv, BestInv, BestLoadable
<1> QED
  BY <1>1, Invariance, PTL

\* best.json only moves to a strictly higher validation return.
THEOREM BestImproves ==
    ASSUME ~PruneRaises
    PROVE  Spec => BestStrictlyImproves
<1>1. ASSUME IInv, [Next]_vars, best' # best, best # NoFile
      PROVE  best'.image.state.best > best.image.state.best
  <2>1. MarkBest
    BY <1>1 DEF Next, Save, Pruning, TrainEpoch, WriteTemporaries, ReplaceData,
                ReplaceManifest, CommitPointer, RetrySave, Prune, DeleteData,
                DeleteManifest, DeleteFails, PruneReturns, SaveFails, Crash,
                Stop, Resume, disk, vars
  <2>2. pc \in Marking /\ pc = "mark" /\ latest # NoFile /\ trainer = Committed
    BY <1>1, <2>1 DEF MarkBest, Marking, IInv, TrainerInv
  <2>3. manifest[trainer.epoch] = latest.image
    BY <1>1, <2>2, CommittedFacts DEF IInv, LatestLoadable, Loadable
  <2>4. best'.image.state = trainer
    BY <1>1, <2>1, <2>2, <2>3, CommittedFacts DEF MarkBest
  <2> QED
    BY <1>1, <2>2, <2>4 DEF IInv, BestInv
<1>2. IInv /\ [Next]_vars =>
        [best' # best =>
            best = NoFile \/ best'.image.state.best > best.image.state.best]_vars
  BY <1>1
<1> QED
  BY <1>2, Invariance, PTL DEF Spec, BestStrictlyImproves

\* The directory implements the epoch log: what a resume restores only advances
\* by one epoch trained on top of it, when latest.json moves.
THEOREM Refinement ==
    ASSUME ~PruneRaises
    PROVE  Spec => ImplementsLog
<1>1. LatestLoadable => Durable = Committed
  BY DEF LatestLoadable, Durable, Committed, Restore
<1>2. Init => Log!Init
  BY DEF Init, Durable, Log!Init, Fresh, Log!Fresh, NoScore, Log!NoScore
<1>3. ASSUME IInv, IInv', [Next]_vars
      PROVE  [Log!Next]_Durable
  <2>1. Durable = Committed /\ Durable' = Committed'
    <3>1. LatestLoadable' => Durable' = Committed'
      BY DEF LatestLoadable, Durable, Committed, Restore
    <3> QED
      BY <1>1, <1>3, <3>1 DEF IInv
  <2>2. CASE CommitPointer
    <3>1. /\ Committed.epoch < MaxEpochs
          /\ trainer \in Trained(Committed)
      BY <1>3, <2>2 DEF IInv, TrainerInv, CommitPointer, Saving
    <3>2. Committed' = trainer
      BY <1>3, <2>2, CommitAdvances
    <3>3. Log!Trained(Committed) = Trained(Committed)
      BY DEF Trained, Log!Trained, Evaluated, Log!Evaluated, Unevaluated,
             Log!Unevaluated
    <3> QED
      BY <2>1, <3>1, <3>2, <3>3 DEF Log!Next, Log!Commit
  <2>3. CASE ~CommitPointer
    <3>1. latest' = latest
      BY <1>3, <2>3 DEF Next, Save, Pruning, TrainEpoch, WriteTemporaries,
                ReplaceData, ReplaceManifest, RetrySave, Prune, DeleteData,
                DeleteManifest, DeleteFails, PruneReturns, MarkBest,
                SaveFails, Crash, Stop, Resume, disk, vars
    <3> QED
      BY <2>1, <3>1 DEF Committed
  <2> QED
    BY <2>2, <2>3
<1> QED
  BY <1>2, <1>3, Invariance, PTL DEF Spec, ImplementsLog, Log!Spec
-----------------------------------------------------------------------------
(* models/mpc. *)

USE DEF None, Nothing

(***************************************************************************)
(* What is in models/mpc.                                                  *)
(***************************************************************************)
ModelsType ==
    models \in [present : BOOLEAN, dirs : SUBSET (Cases \X (Trainings \cup Freezes)),
                suite : Freezes \cup {None}]

TrainPcs == {"idle", "refused", "checked", "searching", "installing", "moving", "failing",
             "failed", "completed", "killed"}
TrainType == train \in [Trainings -> [pc : TrainPcs, bank : BOOLEAN]]

FreezePcs == {"idle", "refused", "staging", "staged", "failed", "locked", "replacing",
              "replaced", "completed", "killed"}
FreezeType ==
    freeze \in [Freezes -> [pc : FreezePcs, val : Validations \cup {None},
                            mode : {"strict", "degraded", None}]]

\* RegistryWhole is inductive as it stands, next to the types.
RegistryInv == ModelsType /\ RegistryWhole

LEMMA CasesExist == 1 \in Cases
  BY MpcRegistryAssumption DEF Cases, MpcRegistryAssumption

LEMMA InitRegistry ==
    ASSUME RegistryInit
    PROVE  ModelsType /\ TrainType /\ FreezeType /\ RegistryWhole
<1> USE DEF RegistryInit
<1>1. ModelsType
  BY DEF ModelsType
<1>2. TrainType
  <2>1. [pc |-> "idle", bank |-> FALSE] \in [pc : TrainPcs, bank : BOOLEAN]
    BY DEF TrainPcs
  <2> QED
    BY <2>1 DEF TrainType
<1>3. FreezeType
  <2>1. [pc |-> "idle", val |-> None, mode |-> None]
            \in [pc : FreezePcs, val : Validations \cup {None}, mode : {"strict", "degraded", None}]
    BY DEF FreezePcs
  <2> QED
    BY <2>1 DEF FreezeType
<1>4. RegistryWhole
  BY DEF RegistryWhole, Writer
<1> QED
  BY <1>1, <1>2, <1>3, <1>4

LEMMA CasesBefore ==
    ASSUME NEW c \in Cases, NEW b \in 1 .. c
    PROVE  b \in Cases
  BY MpcRegistryAssumption DEF Cases, MpcRegistryAssumption

\* The actions that change models/mpc.
LEMMA OnlyPublishersWrite ==
    ASSUME RegistryNext
    PROVE  \/ \E t \in Trainings : MakeRoot(t) \/ Move(t)
           \/ \E f \in Freezes : FreezeReplace(f)
           \/ UNCHANGED models
<1>1. CASE \E t \in Trainings : TrainNext(t)
  BY <1>1 DEF TrainNext, TrainStart, TrainLock, Search, InstallFails, TrainEnd
<1>2. CASE \E r \in Refits : RefitNext(r)
  BY <1>2 DEF RefitNext, RefitStart, RefitLock, RefitFit, RefitEnd, RefitOnly
<1>3. CASE \E v \in Validations : ValNext(v)
  BY <1>3 DEF ValNext, ValStart, ValLock, ValCollect, ValEnd, ValOnly
<1>4. CASE \E a \in Arms : ArmNext(a)
  BY <1>4
     DEF ArmNext, ArmSelect, ArmInitialize, ArmAdvance, ArmFails, ArmStop,
         ArmComplete,
      ArmOnly, ValOnly
<1>5. CASE \E f \in Freezes : FreezeNext(f)
  BY <1>5 DEF FreezeNext, FreezeStart, FreezeStage, FreezeLock, FreezeCheck, FreezeEnd
<1>6. CASE Kill
  BY <1>6 DEF Kill
<1> QED
  BY <1>1, <1>2, <1>3, <1>4, <1>5, <1>6 DEF RegistryNext

\* A directory that is moved in has none beside it but those its training moved before.
LEMMA MoveKeepsWhole ==
    ASSUME RegistryInv, NEW t \in Trainings, NEW c \in Cases, NextMove(t, c), Writer(c) = {},
           models' = [models EXCEPT !.dirs = @ \cup {<<c, t>>}]
    PROVE  RegistryInv'
<1>1. \A d \in models.dirs : d[2] = t
  <2> SUFFICES ASSUME NEW d \in models.dirs, d[2] # t
               PROVE  FALSE
    OBVIOUS
  <2>1. d \in Cases \X (Trainings \cup Freezes) /\ d[1] \in Cases
    BY DEF RegistryInv, ModelsType
  <2>2. Moved(t) = {}
    BY DEF Moved, Writer, RegistryInv, RegistryWhole
  <2>3. c = 1
    <3> SUFFICES ASSUME c # 1
                 PROVE  FALSE
      OBVIOUS
    <3>1. 1 \in 1 .. c - 1
      BY DEF Cases
    <3> QED
      BY <2>2, <3>1 DEF NextMove
  <2>4. Writer(d[1]) # {}
    BY DEF Writer
  <2>5. 1 \in 1 .. d[1]
    BY <2>1 DEF Cases
  <2> QED
    BY <2>1, <2>3, <2>4, <2>5 DEF RegistryInv, RegistryWhole
<1>2. models.dirs' = models.dirs \cup {<<c, t>>} /\ models.suite' = models.suite
  BY DEF RegistryInv, ModelsType
<1>3. models.suite = None
  <2> SUFFICES ASSUME models.suite # None
               PROVE  FALSE
    OBVIOUS
  <2>1. <<c, models.suite>> \in models.dirs
    BY DEF RegistryInv, RegistryWhole
  <2> QED
    BY <2>1 DEF Writer
<1>4. ModelsType'
  BY DEF RegistryInv, ModelsType
<1>5. \A d, e \in models'.dirs : d[2] = e[2]
  BY <1>1, <1>2
<1>6. ASSUME NEW x \in Cases, Writer(x)' # {}, NEW b \in 1 .. x
      PROVE  Writer(b)' # {}
  <2>1. b \in Cases
    BY CasesBefore
  <2>2. CASE Writer(b) # {}
    BY <1>2, <2>2 DEF Writer
  <2>3. CASE b = c
    <3>1. <<c, t>> \in {y \in models'.dirs : y[1] = c}
      BY <1>2
    <3>2. <<c, t>>[2] \in Writer(c)'
      BY <3>1 DEF Writer
    <3> QED
      BY <2>3, <3>2
  <2>4. CASE Writer(b) = {} /\ b # c
    <3>1. Writer(x) = {}
      BY <2>4 DEF RegistryInv, RegistryWhole
    <3>2. x = c
      BY <1>2, <1>6, <3>1 DEF Writer
    <3>3. b \in 1 .. c - 1
      BY <2>4, <3>2 DEF Cases
    <3>4. b \in Moved(t)
      BY <3>3 DEF NextMove
    <3> QED
      BY <2>4, <3>4 DEF Moved
  <2> QED
    BY <2>2, <2>3, <2>4
<1> QED
  BY <1>2, <1>3, <1>4, <1>5, <1>6 DEF RegistryInv, RegistryWhole

LEMMA ReplaceKeepsWhole ==
    ASSUME RegistryInv, NEW f \in Freezes, models.dirs = {},
           models' = [present |-> TRUE, dirs |-> Cases \X {f}, suite |-> f]
    PROVE  RegistryInv'
<1>1. \A c \in Cases : <<c, f>> \in models'.dirs
  OBVIOUS
<1>2. \A c \in Cases : Writer(c)' # {}
  BY <1>1 DEF Writer
<1>3. \A c \in Cases : \A b \in 1 .. c : b \in Cases
  BY CasesBefore
<1> QED
  BY <1>2, <1>3 DEF RegistryInv, RegistryWhole, ModelsType

LEMMA RegistryStep ==
    ASSUME RegistryInv, [RegistryNext]_registryVars
    PROVE  RegistryInv'
<1>1. CASE UNCHANGED models
  BY <1>1 DEF RegistryInv, RegistryWhole, ModelsType, Writer
<1>2. ASSUME NEW t \in Trainings, MakeRoot(t)
      PROVE  RegistryInv'
  BY <1>2 DEF MakeRoot, RegistryInv, RegistryWhole, ModelsType, Writer
<1>3. ASSUME NEW t \in Trainings, Move(t)
      PROVE  RegistryInv'
  BY <1>1, <1>3, MoveKeepsWhole DEF Move
<1>4. ASSUME NEW f \in Freezes, FreezeReplace(f)
      PROVE  RegistryInv'
  BY <1>1, <1>4, ReplaceKeepsWhole DEF FreezeReplace, MayReplace
<1> QED
  BY <1>1, <1>2, <1>3, <1>4, OnlyPublishersWrite DEF registryVars

(* models/mpc never mixes the models of two commands, and what is there is  *)
(* a whole published suite or a prefix of one training, for any number of   *)
(* trainings and freezes that race for it (training.py, registry.py).       *)
THEOREM RegistryAlwaysWhole == RegistrySpec => []RegistryWhole
<1>1. RegistryInit => RegistryInv
  BY InitRegistry DEF RegistryInv
<1>2. RegistryInv /\ [RegistryNext]_registryVars => RegistryInv'
  BY RegistryStep
<1>3. RegistryInv => RegistryWhole
  BY DEF RegistryInv
<1> QED
  BY <1>1, <1>2, <1>3, PTL DEF RegistrySpec

(***************************************************************************)
(* Control states.                                                         *)
(***************************************************************************)
RefitPcs == {"idle", "planned", "abandoned", "fitting", "failing", "completing", "failed",
             "completed", "killed"}
RefitType ==
    /\ refit \in [Refits -> [pc : RefitPcs, source : Trainings \cup {None}]]
    /\ \A r \in Refits : refit[r].pc # "idle" => refit[r].source \in Trainings

ValPcs == {"idle", "refused", "planned", "running", "collected", "completed", "failed", "killed"}
ValType ==
    /\ val \in [Validations -> [pc : ValPcs, refit : Refits \cup {None}]]
    /\ \A v \in Validations : val[v].pc # "idle" => val[v].refit \in Refits

Outs == [test : Arms \cup {Nothing}, fallback : BOOLEAN, sound : BOOLEAN]
ArmPcs == {"off", "selected", "stepping", "closing", "stopped", "ended"}
ArmType ==
    arm \in [Arms -> [pc : ArmPcs, test : Arms \cup {Nothing}, did : Nat, err : BOOLEAN,
                      out : Outs \cup {Nothing}]]

TestsType == tests \in [Arms -> [st : {"free", "live", "stopped"}, by : Seq(Arms)]]

TypeInv == ModelsType /\ TrainType /\ RefitType /\ ValType /\ FreezeType /\ ArmType /\ TestsType

LEMMA NothingElse == Nothing \notin Arms /\ Nothing \notin Outs
<1>1. \A a \in Arms : a # <<>>
  BY DEF Arms
<1>2. \A o \in Outs : o # <<>>
  BY DEF Outs
<1> QED
  BY <1>1, <1>2

LEMMA InitTypes == RegistryInit => TypeInv
<1> SUFFICES ASSUME RegistryInit
             PROVE  TypeInv
  OBVIOUS
<1>1. ModelsType /\ TrainType /\ FreezeType
  BY InitRegistry
<1>2. RefitType
  <2>1. [pc |-> "idle", source |-> None] \in [pc : RefitPcs, source : Trainings \cup {None}]
    BY DEF RefitPcs
  <2> QED
    BY <2>1 DEF RegistryInit, RefitType
<1>3. ValType
  <2>1. [pc |-> "idle", refit |-> None] \in [pc : ValPcs, refit : Refits \cup {None}]
    BY DEF ValPcs
  <2> QED
    BY <2>1 DEF RegistryInit, ValType
<1>4. ArmType
  <2>1. NoArm \in [pc : ArmPcs, test : Arms \cup {Nothing}, did : Nat, err : BOOLEAN,
                   out : Outs \cup {Nothing}]
    BY DEF ArmPcs, NoArm
  <2> QED
    BY <2>1 DEF RegistryInit, ArmType
<1>5. TestsType
  <2>1. [st |-> "free", by |-> <<>>] \in [st : {"free", "live", "stopped"}, by : Seq(Arms)]
    OBVIOUS
  <2> QED
    BY <2>1 DEF RegistryInit, TestsType
<1> QED
  BY <1>1, <1>2, <1>3, <1>4, <1>5 DEF TypeInv

LEMMA TrainTypes ==
    ASSUME TypeInv, NEW t \in Trainings, TrainNext(t)
    PROVE  TrainType'
<1> USE DEF TypeInv, TrainType, TrainPcs, TrainPc
<1>1. CASE TrainStart(t)
  BY <1>1 DEF TrainStart
<1>2. CASE TrainLock(t)
  BY <1>2 DEF TrainLock, Enter
<1>3. CASE \E s, b \in BOOLEAN : Search(t, s, b)
  <2> PICK s \in BOOLEAN, b \in BOOLEAN : Search(t, s, b)
    BY <1>3
  <2>1. [pc |-> IF s THEN "installing" ELSE "failing", bank |-> b] \in [pc : TrainPcs, bank : BOOLEAN]
    OBVIOUS
  <2> QED
    BY <2>1 DEF Search
<1>4. CASE MakeRoot(t) \/ InstallFails(t) \/ TrainEnd(t)
  BY <1>4 DEF MakeRoot, InstallFails, TrainEnd
<1>5. CASE Move(t)
  BY <1>5 DEF Move
<1> QED
  BY <1>1, <1>2, <1>3, <1>4, <1>5 DEF TrainNext

LEMMA RefitTypes ==
    ASSUME TypeInv, NEW r \in Refits, RefitNext(r)
    PROVE  RefitType'
<1> USE DEF TypeInv, RefitType, RefitPcs, RefitPc
<1>1. CASE \E t \in Trainings : RefitStart(r, t)
  BY <1>1 DEF RefitStart
<1>2. CASE RefitLock(r)
  BY <1>2 DEF RefitLock, Enter
<1>3. CASE \E eligible \in BOOLEAN : RefitFit(r, eligible)
  BY <1>3 DEF RefitFit
<1>4. CASE RefitEnd(r)
  BY <1>4 DEF RefitEnd
<1> QED
  BY <1>1, <1>2, <1>3, <1>4 DEF RefitNext

LEMMA ValTypes ==
    ASSUME TypeInv, NEW v \in Validations, ValNext(v)
    PROVE  ValType'
<1> USE DEF TypeInv, ValType, ValPcs, ValPc
<1>1. CASE \E r \in Refits : ValStart(v, r)
  BY <1>1 DEF ValStart
<1>2. CASE ValLock(v)
  BY <1>2 DEF ValLock, Enter
<1>3. CASE ValCollect(v) \/ ValEnd(v)
  BY <1>3 DEF ValCollect, ValEnd
<1> QED
  BY <1>1, <1>2, <1>3 DEF ValNext

LEMMA FreezeTypes ==
    ASSUME TypeInv, NEW f \in Freezes, FreezeNext(f)
    PROVE  FreezeType'
<1> USE DEF TypeInv, FreezeType, FreezePcs, FreezePc
<1>1. CASE \E v \in Validations, mode \in {"strict", "degraded"} : FreezeStart(f, v, mode)
  BY <1>1 DEF FreezeStart
<1>2. CASE \E ok \in BOOLEAN : FreezeStage(f, ok)
  BY <1>2 DEF FreezeStage
<1>3. CASE FreezeLock(f)
  BY <1>3 DEF FreezeLock, Enter
<1>4. CASE FreezeCheck(f) \/ FreezeReplace(f) \/ FreezeEnd(f)
  BY <1>4 DEF FreezeCheck, FreezeReplace, FreezeEnd
<1> QED
  BY <1>1, <1>2, <1>3, <1>4 DEF FreezeNext

(***************************************************************************)
(* What the arms of validations did to their tests.                        *)
(***************************************************************************)
\* Arm b may have been at test t, and will be found with t, or with nothing.
Rival(b, t) ==
    \/ arm[b].pc \in {"stepping", "closing", "stopped"} /\ arm[b].test = t
    \/ arm[b].pc = "ended" /\ (arm[b].out = Nothing \/ arm[b].out.test = t)

\* The last initialisation of t and n steps after it are a's, or a has a rival there.
Alone(a, t, n) ==
    \/ tests[t].by = [s \in 1 .. n |-> a]
    \/ \E b \in ArmsOf(a[1]) \ {a} : Rival(b, t)

\* Arm a, its test, and the result it left.
ArmInv(a) ==
    /\ arm[a].pc = "off" => arm[a] = NoArm /\ tests[a].st = "free"
    /\ arm[a].pc = "selected" => arm[a].did = 0 /\ ~arm[a].err
    /\ arm[a].pc \in {"selected", "stepping", "closing", "stopped"} =>
          /\ arm[a].test \in ArmsOf(a[1])
          /\ tests[arm[a].test].st \in {"live", "stopped"}
          /\ arm[a].out = Nothing
    /\ arm[a].pc \in {"stepping", "closing", "stopped"} /\ ~arm[a].err =>
          Alone(a, arm[a].test, arm[a].did)
    /\ arm[a].pc = "closing" /\ ~arm[a].err => arm[a].did = Steps
    /\ arm[a].pc = "stepping" => ~arm[a].err
    /\ arm[a].pc = "stopped" =>
          ~arm[a].err /\ arm[a].did = Steps /\ tests[arm[a].test].st = "stopped"
    /\ arm[a].out # Nothing =>
          /\ arm[a].pc = "ended"
          /\ arm[a].out.test \in ArmsOf(a[1])
          /\ tests[arm[a].out.test].st = "stopped"
          /\ Alone(a, arm[a].out.test, Steps)

EvidenceInv == \A a \in Arms : ArmInv(a)

\* What a step of arm b leaves to the others: their state, their tests except those
\* b is at afterwards, what was stopped, and a rival wherever there was one.
Acts(b) ==
    /\ \A a \in Arms \ {b} : arm'[a] = arm[a]
    /\ \A t \in Arms : \/ tests'[t].by = tests[t].by
                       \/ /\ arm'[b].test = t /\ arm'[b].pc \in {"stepping", "closing"}
                          /\ t \in ArmsOf(b[1])
    /\ \A t \in Arms \ {b} : tests[t].st = "free" => tests'[t].st = "free"
    /\ \A t \in Arms : tests[t].st = "live" => tests'[t].st \in {"live", "stopped"}
    /\ \A t \in Arms : tests[t].st = "stopped" => tests'[t].st = "stopped"
    /\ \A t \in Arms : Rival(b, t) => Rival(b, t)'

LEMMA ArmsOfOne ==
    ASSUME NEW a \in Arms
    PROVE  a \in ArmsOf(a[1]) /\ ArmsOf(a[1]) \subseteq Arms
           /\ \A b \in ArmsOf(a[1]) : b[1] = a[1]
  BY DEF Arms, ArmsOf

LEMMA InitEvidence == RegistryInit => TypeInv /\ EvidenceInv
<1> SUFFICES ASSUME RegistryInit
             PROVE  EvidenceInv
  BY InitTypes
<1> QED
  BY DEF RegistryInit, EvidenceInv, ArmInv, NoArm

\* The arm that acts may take from the others only its own doing.
LEMMA OthersKeep ==
    ASSUME TypeInv, EvidenceInv, NEW b \in Arms, Acts(b), NEW a \in Arms, a # b
    PROVE  ArmInv(a)'
<1>1. arm'[a] = arm[a]
  BY DEF Acts
<1>2. ArmInv(a)
  BY DEF EvidenceInv
<1>3. ASSUME NEW t \in ArmsOf(a[1]), NEW n, Alone(a, t, n), tests[t].st # "free"
      PROVE  Alone(a, t, n)'
  <2>1. t \in Arms
    BY <1>3, ArmsOfOne
  <2>2. CASE \E c \in ArmsOf(a[1]) \ {a} : Rival(c, t)
    <3> PICK c \in ArmsOf(a[1]) \ {a} : Rival(c, t)
      BY <2>2
    <3>1. c \in Arms
      BY ArmsOfOne
    <3>2. Rival(c, t)'
      <4>1. CASE c = b
        BY <2>1, <4>1 DEF Acts
      <4>2. CASE c # b
        BY <3>1, <4>2 DEF Acts, Rival
      <4> QED
        BY <4>1, <4>2
    <3> QED
      BY <3>2 DEF Alone
  <2>3. CASE tests[t].by = [s \in 1 .. n |-> a] /\ tests'[t].by = tests[t].by
    BY <2>3 DEF Alone
  <2>4. CASE arm'[b].test = t /\ arm'[b].pc \in {"stepping", "closing"} /\ t \in ArmsOf(b[1])
    <3>1. Rival(b, t)'
      BY <2>4 DEF Rival
    <3>2. b \in ArmsOf(a[1])
      BY <1>3, <2>4, ArmsOfOne
    <3> QED
      BY <3>1, <3>2 DEF Alone
  <2> QED
    BY <1>3, <2>1, <2>2, <2>3, <2>4 DEF Acts, Alone
<1>4. CASE arm[a].pc = "off"
  <2>1. tests'[a].st = "free" /\ arm'[a] = NoArm
    BY <1>1, <1>2, <1>4 DEF ArmInv, Acts
  <2> QED
    BY <2>1 DEF ArmInv, NoArm
<1>5. CASE arm[a].pc \in {"selected", "stepping", "closing", "stopped"}
  <2>1. /\ arm[a].test \in ArmsOf(a[1]) /\ arm[a].test \in Arms
        /\ tests[arm[a].test].st \in {"live", "stopped"}
        /\ tests'[arm[a].test].st \in {"live", "stopped"}
        /\ tests[arm[a].test].st = "stopped" => tests'[arm[a].test].st = "stopped"
    BY <1>2, <1>5, ArmsOfOne DEF ArmInv, Acts
  <2>2. arm[a].pc # "selected" /\ ~arm[a].err => Alone(a, arm[a].test, arm[a].did)'
    BY <1>1, <1>2, <1>3, <1>5, <2>1 DEF ArmInv
  <2> QED
    BY <1>1, <1>2, <1>5, <2>1, <2>2 DEF ArmInv
<1>6. CASE arm[a].pc = "ended"
  <2>1. CASE arm[a].out = Nothing
    BY <1>1, <1>6, <2>1 DEF ArmInv
  <2>2. CASE arm[a].out # Nothing
    <3>1. /\ arm[a].out.test \in ArmsOf(a[1]) /\ arm[a].out.test \in Arms
          /\ tests[arm[a].out.test].st = "stopped"
          /\ tests'[arm[a].out.test].st = "stopped"
      BY <1>2, <2>2, ArmsOfOne DEF ArmInv, Acts
    <3>2. Alone(a, arm[a].out.test, Steps)
      BY <1>2, <2>2 DEF ArmInv
    <3>3. Alone(a, arm[a].out.test, Steps)'
      BY <1>1, <1>3, <3>1, <3>2
    <3> QED
      BY <1>1, <1>6, <3>1, <3>3 DEF ArmInv
  <2> QED
    BY <2>1, <2>2
<1> QED
  BY <1>4, <1>5, <1>6 DEF TypeInv, ArmType, ArmPcs

\* Sequences of one arm's advances.
LEMMA Repeated ==
    ASSUME NEW a, NEW n \in Nat
    PROVE  /\ [s \in 1 .. 0 |-> a] = <<>>
           /\ Append([s \in 1 .. n |-> a], a) = [s \in 1 .. n + 1 |-> a]
<1>1. [s \in 1 .. 0 |-> a] = <<>>
  OBVIOUS
<1>2. [s \in 1 .. n |-> a] \in Seq({a}) /\ Len([s \in 1 .. n |-> a]) = n
  OBVIOUS
<1>3. Append([s \in 1 .. n |-> a], a) = [s \in 1 .. n + 1 |-> a]
  BY <1>2
<1> QED
  BY <1>1, <1>3

\* What an action of arm b must establish.
Effect(b) == ArmType' /\ TestsType' /\ Acts(b) /\ ArmInv(b)'

LEMMA SelectEffect ==
    ASSUME TypeInv, EvidenceInv, NEW b \in Arms, NEW t \in Arms, ArmSelect(b, t)
    PROVE  Effect(b)
<1> USE DEF ArmSelect
<1>1. ArmInv(b) /\ arm[b] = NoArm /\ tests[b].st = "free"
  BY DEF EvidenceInv, ArmInv
<1>2. arm'[b].pc = "selected" /\ arm'[b].test = t /\ arm'[b].did = 0 /\ arm'[b].err = FALSE
      /\ arm'[b].out = Nothing
  BY <1>1 DEF TypeInv, ArmType, NoArm
<1>3. \A a \in Arms \ {b} : arm'[a] = arm[a]
  BY DEF TypeInv, ArmType
<1>4. ArmType'
  BY ZenonT(40) DEF TypeInv, ArmType, ArmPcs
<1>5. TestsType'
  BY DEF TypeInv, TestsType
<1>6. \A x \in Arms : /\ tests'[x].by = tests[x].by
                      /\ tests'[x].st = IF x = b /\ t = b THEN "live" ELSE tests[x].st
  BY DEF TypeInv, TestsType
<1>7. Acts(b)
  BY <1>1, <1>3, <1>6 DEF Acts, Rival, NoArm
<1>8. t \in ArmsOf(b[1]) /\ tests'[t].st = "live"
  <2>1. CASE t = b
    BY <1>6, <2>1, ArmsOfOne
  <2>2. CASE t # b
    BY <1>6, <2>2 DEF Arms, ArmsOf
  <2> QED
    BY <2>1, <2>2
<1>9. ArmInv(b)'
  BY <1>2, <1>8 DEF ArmInv
<1> QED
  BY <1>4, <1>5, <1>7, <1>9 DEF Effect

LEMMA InitializeEffect ==
    ASSUME TypeInv, EvidenceInv, NEW b \in Arms, ArmInitialize(b)
    PROVE  Effect(b)
<1> USE DEF ArmInitialize
<1>1. /\ arm[b].pc = "selected" /\ arm[b].did = 0 /\ ~arm[b].err /\ arm[b].out = Nothing
      /\ arm[b].test \in ArmsOf(b[1]) /\ arm[b].test \in Arms
  BY ArmsOfOne DEF EvidenceInv, ArmInv
<1>2. /\ arm'[b].pc = "stepping" /\ arm'[b].test = arm[b].test /\ arm'[b].did = 0
      /\ ~arm'[b].err /\ arm'[b].out = Nothing
  BY <1>1 DEF TypeInv, ArmType
<1>3. \A a \in Arms \ {b} : arm'[a] = arm[a]
  BY DEF TypeInv, ArmType
<1>4. ArmType'
  BY DEF TypeInv, ArmType, ArmPcs
<1>5. TestsType'
  <2>1. <<>> \in Seq(Arms)
    OBVIOUS
  <2> QED
    BY <1>1, <2>1 DEF TypeInv, TestsType
<1>6. \A x \in Arms : /\ tests'[x].st = tests[x].st
                      /\ tests'[x].by = IF x = arm[b].test THEN <<>> ELSE tests[x].by
  BY <1>1 DEF TypeInv, TestsType
<1>7. Acts(b)
  BY <1>1, <1>2, <1>3, <1>6 DEF Acts, Rival
<1>8. tests'[arm'[b].test].by = [s \in 1 .. arm'[b].did |-> b]
  BY <1>1, <1>2, <1>6, Repeated
<1>9. ArmInv(b)'
  BY <1>1, <1>2, <1>6, <1>8 DEF ArmInv, Alone
<1> QED
  BY <1>4, <1>5, <1>7, <1>9 DEF Effect

LEMMA FailsEffect ==
    ASSUME TypeInv, EvidenceInv, NEW b \in Arms, ArmFails(b)
    PROVE  Effect(b)
<1> USE DEF ArmFails
<1>1. \A x \in Arms : tests'[x] = tests[x]
  OBVIOUS
<1>2. \A a \in Arms \ {b} : arm'[a] = arm[a]
  BY DEF TypeInv, ArmType
<1>3. TestsType'
  BY DEF TypeInv, TestsType
<1>4. CASE arm[b].test = Nothing
  <2>1. arm'[b] = Ended(Nothing)
    BY <1>4 DEF TypeInv, ArmType
  <2>2. ArmType'
    BY <1>4 DEF TypeInv, ArmType, ArmPcs, Ended, NoArm
  <2>3. Acts(b)
    BY ZenonT(40), <1>1, <1>2, <2>1 DEF Acts, Rival, Ended, NoArm
  <2>4. ArmInv(b)'
    <3>1. arm'[b].pc = "ended" /\ arm'[b].out = Nothing
      BY <2>1 DEF Ended, NoArm
    <3> QED
      BY <3>1 DEF ArmInv
  <2> QED
    BY <1>3, <2>2, <2>3, <2>4 DEF Effect
<1>5. CASE arm[b].test # Nothing
  <2>1. /\ arm'[b].pc = "closing" /\ arm'[b].err = TRUE /\ arm'[b].test = arm[b].test
        /\ arm'[b].out = arm[b].out
    BY <1>5 DEF TypeInv, ArmType
  <2>2. ArmType'
    BY <1>5 DEF TypeInv, ArmType, ArmPcs
  <2>3. Acts(b)
    BY <1>1, <1>2, <2>1 DEF Acts, Rival
  <2>4. arm[b].pc \in {"selected", "stepping"}
    BY <1>5 DEF EvidenceInv, ArmInv, NoArm
  <2>5. ArmInv(b)'
    BY <1>1, <2>1, <2>4 DEF EvidenceInv, ArmInv
  <2> QED
    BY <1>3, <2>2, <2>3, <2>5 DEF Effect
<1> QED
  BY <1>4, <1>5

LEMMA StopEffect ==
    ASSUME TypeInv, EvidenceInv, NEW b \in Arms, NEW answers \in BOOLEAN, ArmStop(b, answers)
    PROVE  Effect(b)
<1> USE DEF ArmStop
<1>1. /\ arm[b].pc = "closing" /\ arm[b].out = Nothing
      /\ arm[b].test \in ArmsOf(b[1]) /\ arm[b].test \in Arms
      /\ tests[arm[b].test].st \in {"live", "stopped"}
      /\ ~arm[b].err => arm[b].did = Steps /\ Alone(b, arm[b].test, arm[b].did)
  BY ArmsOfOne DEF EvidenceInv, ArmInv
<1>2. \A a \in Arms \ {b} : arm'[a] = arm[a]
  BY DEF TypeInv, ArmType
<1>3. TestsType'
  BY <1>1 DEF TypeInv, TestsType
<1>4. \A x \in Arms :
          /\ tests'[x].by = tests[x].by
          /\ tests'[x].st = IF answers /\ x = arm[b].test THEN "stopped" ELSE tests[x].st
  BY <1>1 DEF TypeInv, TestsType
<1>5. CASE arm[b].err \/ ~answers
  <2>1. arm'[b] = Ended(Nothing)
    BY <1>5 DEF TypeInv, ArmType
  <2>2. ArmType'
    BY <1>5 DEF TypeInv, ArmType, ArmPcs, Ended, NoArm
  <2>3. Acts(b)
    BY <1>1, <1>2, <1>4, <2>1 DEF Acts, Rival, Ended, NoArm
  <2>4. ArmInv(b)'
    <3>1. arm'[b].pc = "ended" /\ arm'[b].out = Nothing
      BY ZenonT(40), <2>1 DEF Ended, NoArm
    <3> QED
      BY <3>1 DEF ArmInv
  <2> QED
    BY <1>3, <2>2, <2>3, <2>4 DEF Effect
<1>6. CASE ~arm[b].err /\ answers
  <2>1. /\ arm'[b].pc = "stopped" /\ arm'[b].err = arm[b].err /\ arm'[b].test = arm[b].test
        /\ arm'[b].out = arm[b].out /\ arm'[b].did = arm[b].did
    BY <1>6 DEF TypeInv, ArmType
  <2>2. ArmType'
    BY <1>6 DEF TypeInv, ArmType, ArmPcs
  <2>3. Acts(b)
    BY <1>1, <1>2, <1>4, <2>1 DEF Acts, Rival
  <2>4. Alone(b, arm[b].test, Steps)'
    <3>1. Alone(b, arm[b].test, Steps)
      BY <1>1, <1>6
    <3>2. \A c \in ArmsOf(b[1]) \ {b} : Rival(c, arm[b].test) => Rival(c, arm[b].test)'
      BY <1>2, <2>1, ArmsOfOne DEF Rival
    <3> QED
      BY <1>1, <1>4, <2>1, <3>1, <3>2 DEF Alone
  <2>5. ArmInv(b)'
    BY <1>1, <1>4, <1>6, <2>1, <2>4 DEF ArmInv
  <2> QED
    BY <1>3, <2>2, <2>3, <2>5 DEF Effect
<1> QED
  BY <1>5, <1>6

LEMMA AdvanceEffect ==
    ASSUME TypeInv, EvidenceInv, NEW b \in Arms, ArmAdvance(b)
    PROVE  Effect(b)
<1> DEFINE t == arm[b].test
           by == Append(tests[t].by, b)
           counted == Len(by) = arm[b].did + 1
<1>1. /\ arm[b].pc = "stepping" /\ arm[b].out = Nothing /\ ~arm[b].err
      /\ t \in ArmsOf(b[1]) /\ t \in Arms
      /\ tests[t].st = "live" /\ Alone(b, t, arm[b].did)
      /\ arm[b].did \in Nat /\ arm[b].did < Steps
  BY ArmsOfOne DEF ArmAdvance, EvidenceInv, ArmInv, TypeInv, ArmType
<1>2. by \in Seq(Arms)
  BY <1>1 DEF TypeInv, TestsType
<1>3. tests' = [tests EXCEPT ![t].by = by]
  BY DEF ArmAdvance
<1>4. \A x \in Arms : /\ tests'[x].st = tests[x].st
                      /\ tests'[x].by = IF x = t THEN by ELSE tests[x].by
  BY <1>1, <1>3 DEF TypeInv, TestsType
<1>5. TestsType'
  BY <1>1, <1>2, <1>3 DEF TypeInv, TestsType
<1>6. \A a \in Arms \ {b} : arm'[a] = arm[a]
  BY DEF ArmAdvance, TypeInv, ArmType
<1>7. ArmType'
  <2>1. CASE counted
    <3>1. arm[b].did + 1 \in Nat /\ (IF arm[b].did + 1 = Steps THEN "closing" ELSE arm[b].pc) \in ArmPcs
      BY <1>1 DEF ArmPcs
    <3> DEFINE next == IF arm[b].did + 1 = Steps THEN "closing" ELSE arm[b].pc
    <3>2. arm' = [arm EXCEPT ![b] = [arm[b] EXCEPT !.did = arm[b].did + 1, !.pc = next]]
      BY <2>1 DEF ArmAdvance, TypeInv, ArmType
    <3> QED
      BY ZenonT(40), <3>1, <3>2 DEF TypeInv, ArmType
  <2>2. CASE ~counted
    BY <1>1, <2>2 DEF ArmAdvance, TypeInv, ArmType, ArmPcs
  <2> QED
    BY <2>1, <2>2
<1>8. arm'[b].test = t /\ arm'[b].pc \in {"stepping", "closing"} /\ arm'[b].out = Nothing
  BY <1>1 DEF ArmAdvance, TypeInv, ArmType
<1>9. Acts(b)
  BY <1>1, <1>4, <1>6, <1>8 DEF Acts, Rival
<1>10. CASE ~counted
  <2>1. arm'[b].pc = "closing" /\ arm'[b].err = TRUE
    BY <1>10 DEF ArmAdvance, TypeInv, ArmType
  <2> QED
    BY <1>1, <1>4, <1>5, <1>7, <1>8, <1>9, <2>1 DEF Effect, ArmInv
<1>11. CASE counted
  <2>1. /\ arm'[b].did = arm[b].did + 1 /\ arm'[b].err = arm[b].err
        /\ arm'[b].pc = IF arm[b].did + 1 = Steps THEN "closing" ELSE "stepping"
    BY <1>1, <1>11 DEF ArmAdvance, TypeInv, ArmType
  <2>2. Alone(b, arm[b].test, arm[b].did)'
    <3>1. CASE tests[t].by = [s \in 1 .. arm[b].did |-> b]
      <4>1. by = [s \in 1 .. arm[b].did + 1 |-> b]
        BY <1>1, <3>1, Repeated
      <4> QED
        BY <1>1, <1>4, <1>8, <2>1, <4>1 DEF Alone
    <3>2. CASE \E c \in ArmsOf(b[1]) \ {b} : Rival(c, t)
      <4>1. \A c \in ArmsOf(b[1]) \ {b} : Rival(c, t) => Rival(c, t)'
        BY <1>6, <1>8, ArmsOfOne DEF Rival
      <4> QED
        BY <1>8, <3>2, <4>1 DEF Alone
    <3> QED
      BY <1>1, <3>1, <3>2 DEF Alone
  <2>3. ArmInv(b)'
    BY <1>1, <1>4, <1>8, <2>1, <2>2 DEF ArmInv
  <2> QED
    BY <1>5, <1>7, <1>9, <2>3 DEF Effect
<1> QED
  BY <1>10, <1>11

LEMMA CompleteEffect ==
    ASSUME TypeInv, EvidenceInv, NEW b \in Arms, NEW fallback \in BOOLEAN, NEW sound \in BOOLEAN,
           ArmComplete(b, fallback, sound)
    PROVE  Effect(b)
<1> USE DEF ArmComplete
<1>1. /\ arm[b].pc = "stopped" /\ arm[b].test \in ArmsOf(b[1]) /\ arm[b].test \in Arms
      /\ tests[arm[b].test].st = "stopped" /\ Alone(b, arm[b].test, Steps)
  BY ArmsOfOne DEF EvidenceInv, ArmInv
<1>2. \A x \in Arms : tests'[x] = tests[x]
  OBVIOUS
<1>3. TestsType'
  BY DEF TypeInv, TestsType
<1>4. \A a \in Arms \ {b} : arm'[a] = arm[a]
  BY DEF TypeInv, ArmType
<1>5. CASE arm' = [arm EXCEPT ![b] = Ended(Nothing)]
  <2>1. arm'[b].pc = "ended" /\ arm'[b].out = Nothing
    BY <1>5 DEF TypeInv, ArmType, Ended, NoArm
  <2>2. ArmType'
    BY <1>5 DEF TypeInv, ArmType, ArmPcs, Ended, NoArm
  <2>3. Acts(b)
    BY <1>1, <1>2, <1>4, <2>1 DEF Acts, Rival
  <2> QED
    BY <1>3, <2>1, <2>2, <2>3 DEF Effect, ArmInv
<1>6. CASE arm' = [arm EXCEPT ![b] = Ended(Recomputed(b, fallback, sound))]
  <2>1. Recomputed(b, fallback, sound) \in Outs /\ Recomputed(b, fallback, sound).test = arm[b].test
    BY <1>1 DEF Recomputed, Outs
  <2>2. arm'[b].pc = "ended" /\ arm'[b].out # Nothing /\ arm'[b].out.test = arm[b].test
    BY <1>6, <2>1, NothingElse DEF TypeInv, ArmType, Ended, NoArm
  <2>3. ArmType'
    <3>1. Ended(Recomputed(b, fallback, sound))
              \in [pc : ArmPcs, test : Arms \cup {Nothing}, did : Nat, err : BOOLEAN,
                  out : Outs \cup {Nothing}]
      BY <2>1 DEF Ended, NoArm, ArmPcs
    <3> QED
      BY <1>6, <3>1 DEF TypeInv, ArmType
  <2>4. Acts(b)
    BY <1>1, <1>2, <1>4, <2>2 DEF Acts, Rival
  <2>5. Alone(b, arm[b].out.test, Steps)'
    <3>1. \A c \in ArmsOf(b[1]) \ {b} : Rival(c, arm[b].test) => Rival(c, arm[b].out.test)'
      BY <1>4, <2>2, ArmsOfOne DEF Rival
    <3> QED
      BY <1>1, <1>2, <2>2, <3>1 DEF Alone
  <2>6. ArmInv(b)'
    BY <1>1, <1>2, <2>2, <2>5 DEF ArmInv
  <2> QED
    BY <1>3, <2>3, <2>4, <2>6 DEF Effect
<1> QED
  BY <1>5, <1>6

LEMMA ArmEffect ==
    ASSUME TypeInv, EvidenceInv, NEW b \in Arms, ArmNext(b)
    PROVE  Effect(b)
  BY SelectEffect, InitializeEffect, AdvanceEffect, FailsEffect, StopEffect,
     CompleteEffect
  DEF ArmNext

\* A kill ends arms with nothing and leaves the tests as they are.
LEMMA KillEnds ==
    ASSUME TypeInv, EvidenceInv, Kill
    PROVE  ArmType' /\ TestsType' /\ EvidenceInv'
<1>1. \A a \in Arms : arm'[a] = arm[a] \/ arm'[a] = Ended(Nothing)
  BY DEF Kill
<1>2. tests' = tests
  BY DEF Kill
<1>3. TestsType'
  BY <1>2 DEF TypeInv, TestsType
<1>4. ArmType'
  <2>1. Ended(Nothing) \in [pc : ArmPcs, test : Arms \cup {Nothing}, did : Nat, err : BOOLEAN,
                            out : Outs \cup {Nothing}]
    BY DEF Ended, NoArm, ArmPcs
  <2> QED
    BY <2>1 DEF Kill, TypeInv, ArmType
<1>5. ASSUME NEW b \in Arms, NEW t, Rival(b, t)
      PROVE  Rival(b, t)'
  <2>1. CASE arm'[b] = arm[b]
    BY <1>5, <2>1 DEF Rival
  <2>2. CASE arm'[b] = Ended(Nothing)
    BY <2>2 DEF Rival, Ended, NoArm
  <2> QED
    BY <1>1, <2>1, <2>2
<1>6. ASSUME NEW a \in Arms
      PROVE  ArmInv(a)'
  <2>1. CASE arm'[a] = Ended(Nothing)
    <3>1. arm'[a].pc = "ended" /\ arm'[a].out = Nothing
      BY <2>1 DEF Ended, NoArm
    <3> QED
      BY <3>1 DEF ArmInv
  <2>2. CASE arm'[a] = arm[a]
    <3>1. ASSUME NEW t, NEW n, Alone(a, t, n)
          PROVE  Alone(a, t, n)'
      BY <1>2, <1>5, <3>1, ArmsOfOne DEF Alone
    <3>2. ArmInv(a)
      BY DEF EvidenceInv
    <3>3. arm[a].pc \in {"stepping", "closing", "stopped"} /\ ~arm[a].err =>
              Alone(a, arm[a].test, arm[a].did)'
      BY <2>2, <3>1, <3>2 DEF ArmInv
    <3>4. arm[a].out # Nothing => Alone(a, arm[a].out.test, Steps)'
      BY <2>2, <3>1, <3>2 DEF ArmInv
    <3> QED
      BY <1>2, <2>2, <3>2, <3>3, <3>4 DEF ArmInv
  <2> QED
    BY <1>1, <2>1, <2>2
<1> QED
  BY <1>3, <1>4, <1>6 DEF EvidenceInv

\* A step that leaves arms and tests alone.
LEMMA IdleEvidence ==
    ASSUME TypeInv, EvidenceInv, UNCHANGED <<arm, tests>>
    PROVE  ArmType' /\ TestsType' /\ EvidenceInv'
<1>1. ArmType' /\ TestsType'
  BY DEF TypeInv, ArmType, TestsType
<1>2. ASSUME NEW a, NEW t, NEW n, Alone(a, t, n)
      PROVE  Alone(a, t, n)'
  BY <1>2 DEF Alone, Rival
<1>3. ASSUME NEW a \in Arms
      PROVE  ArmInv(a)'
  <2>1. ArmInv(a) /\ arm'[a] = arm[a] /\ tests' = tests
    BY DEF EvidenceInv
  <2>2. arm[a].pc \in {"stepping", "closing", "stopped"} /\ ~arm[a].err =>
            Alone(a, arm[a].test, arm[a].did)'
    BY <1>2, <2>1 DEF ArmInv
  <2>3. arm[a].out # Nothing => Alone(a, arm[a].out.test, Steps)'
    BY <1>2, <2>1 DEF ArmInv
  <2> QED
    BY <2>1, <2>2, <2>3 DEF ArmInv
<1> QED
  BY <1>1, <1>3 DEF EvidenceInv

LEMMA KillTypes ==
    ASSUME TypeInv, Kill
    PROVE  ModelsType' /\ TrainType' /\ RefitType' /\ ValType' /\ FreezeType'
<1>1. ModelsType'
  BY DEF Kill, TypeInv, ModelsType
<1>2. TrainType'
  BY DEF Kill, TypeInv, TrainType, TrainPcs, TrainPc
<1>3. RefitType'
  BY DEF Kill, TypeInv, RefitType, RefitPcs, RefitPc
<1>4. ValType'
  BY DEF Kill, TypeInv, ValType, ValPcs, ValPc
<1>5. FreezeType'
  BY DEF Kill, TypeInv, FreezeType, FreezePcs, FreezePc
<1> QED
  BY <1>1, <1>2, <1>3, <1>4, <1>5

LEMMA EvidenceStep ==
    ASSUME TypeInv, RegistryWhole, EvidenceInv, [RegistryNext]_registryVars
    PROVE  TypeInv' /\ EvidenceInv'
<1>1. ModelsType'
  BY RegistryStep DEF RegistryInv, TypeInv
<1>2. CASE \E t \in Trainings : TrainNext(t)
  <2>1. UNCHANGED <<refit, val, arm, tests, freeze>>
    BY <1>2
       DEF TrainNext, TrainStart, TrainLock, Search, MakeRoot, Move, InstallFails,
           TrainEnd,
        TrainOnly
  <2>2. RefitType' /\ ValType' /\ FreezeType'
    BY <2>1 DEF TypeInv, RefitType, ValType, FreezeType
  <2> QED
    BY <1>1, <1>2, <2>1, <2>2, TrainTypes, IdleEvidence DEF TypeInv
<1>3. CASE \E r \in Refits : RefitNext(r)
  <2>1. UNCHANGED <<train, val, arm, tests, freeze>>
    BY <1>3 DEF RefitNext, RefitStart, RefitLock, RefitFit, RefitEnd, RefitOnly
  <2>2. TrainType' /\ ValType' /\ FreezeType'
    BY <2>1 DEF TypeInv, TrainType, ValType, FreezeType
  <2> QED
    BY <1>1, <1>3, <2>1, <2>2, RefitTypes, IdleEvidence DEF TypeInv
<1>4. CASE \E v \in Validations : ValNext(v)
  <2>1. UNCHANGED <<train, refit, arm, tests, freeze>>
    BY <1>4 DEF ValNext, ValStart, ValLock, ValCollect, ValEnd, ValOnly
  <2>2. TrainType' /\ RefitType' /\ FreezeType'
    BY <2>1 DEF TypeInv, TrainType, RefitType, FreezeType
  <2> QED
    BY <1>1, <1>4, <2>1, <2>2, ValTypes, IdleEvidence DEF TypeInv
<1>5. CASE \E b \in Arms : ArmNext(b)
  <2>1. UNCHANGED <<train, refit, val, freeze>>
    BY <1>5
       DEF ArmNext, ArmSelect, ArmInitialize, ArmAdvance, ArmFails, ArmStop,
           ArmComplete,
        ArmOnly, ValOnly
  <2>2. TrainType' /\ RefitType' /\ ValType' /\ FreezeType'
    BY <2>1 DEF TypeInv, TrainType, RefitType, ValType, FreezeType
  <2> PICK b \in Arms : ArmNext(b)
    BY <1>5
  <2>3. Effect(b)
    BY ArmEffect
  <2>4. EvidenceInv'
    BY <2>3, OthersKeep DEF Effect, EvidenceInv
  <2> QED
    BY <1>1, <2>2, <2>3, <2>4 DEF Effect, TypeInv
<1>6. CASE \E f \in Freezes : FreezeNext(f)
  <2>1. UNCHANGED <<train, refit, val, arm, tests>>
    BY <1>6
       DEF FreezeNext, FreezeStart, FreezeStage, FreezeLock, FreezeCheck,
           FreezeReplace,
        FreezeEnd, FreezeOnly
  <2>2. TrainType' /\ RefitType' /\ ValType'
    BY <2>1 DEF TypeInv, TrainType, RefitType, ValType
  <2> QED
    BY <1>1, <1>6, <2>1, <2>2, FreezeTypes, IdleEvidence DEF TypeInv
<1>7. CASE Kill
  BY <1>1, <1>7, KillTypes, KillEnds DEF TypeInv
<1>8. CASE UNCHANGED registryVars
  <2>1. TrainType' /\ RefitType' /\ ValType' /\ FreezeType'
    BY <1>8 DEF registryVars, TypeInv, TrainType, RefitType, ValType, FreezeType
  <2> QED
    BY <1>1, <1>8, <2>1, IdleEvidence DEF registryVars, TypeInv
<1> QED
  BY <1>2, <1>3, <1>4, <1>5, <1>6, <1>7, <1>8 DEF RegistryNext

(***************************************************************************)
(* Admission.                                                              *)
(***************************************************************************)
\* What a publication rests on, from its first check on.
Admitted(f) == freeze[f].val \in Validations /\ freeze[f].mode \in {"strict", "degraded"}
               /\ Admissible(freeze[f].val, freeze[f].mode)
AdmitInv ==
    /\ \A f \in Freezes : freeze[f].pc # "idle" => Admitted(f)
    /\ \A f \in Freezes : models.suite = f => freeze[f].pc # "idle"

\* Terminal files stay, and so do the arms they rest on.
Final(v) == val[v].pc \in {"completed", "failed"}
TerminalsStay ==
    /\ \A t \in Trainings : train[t].pc = "failed" => train'[t] = train[t]
    /\ \A r \in Refits : refit[r].pc = "completed" => refit'[r] = refit[r]
    /\ \A v \in Validations : Final(v) => val'[v] = val[v] /\ \A a \in ArmsOf(v) : arm'[a] = arm[a]

LEMMA OfValidation ==
    ASSUME NEW v \in Validations, NEW a \in ArmsOf(v)
    PROVE  a \in Arms /\ a[1] = v
  BY DEF Arms, ArmsOf

LEMMA NothingReopened ==
    ASSUME TypeInv, EvidenceInv, [RegistryNext]_registryVars
    PROVE  TerminalsStay
<1>1. CASE \E t \in Trainings : TrainNext(t)
  <2>1. UNCHANGED <<refit, val, arm>>
    BY <1>1
       DEF TrainNext, TrainStart, TrainLock, Search, MakeRoot, Move, InstallFails,
           TrainEnd,
        TrainOnly
  <2>2. \A t \in Trainings : train[t].pc = "failed" => train'[t] = train[t]
    <3> PICK u \in Trainings : TrainNext(u)
      BY <1>1
    <3>1. train[u].pc # "failed" /\ \A t \in Trainings \ {u} : train'[t] = train[t]
      BY
         DEF TrainNext, TrainStart, TrainLock, Search, MakeRoot, Move,
             InstallFails, TrainEnd,
          TrainPc, Enter, TypeInv, TrainType
    <3> QED
      BY <3>1
  <2> QED
    BY <2>1, <2>2 DEF TerminalsStay
<1>2. CASE \E r \in Refits : RefitNext(r)
  <2>1. UNCHANGED <<train, val, arm>>
    BY <1>2 DEF RefitNext, RefitStart, RefitLock, RefitFit, RefitEnd, RefitOnly
  <2>2. \A r \in Refits : refit[r].pc = "completed" => refit'[r] = refit[r]
    <3> PICK q \in Refits : RefitNext(q)
      BY <1>2
    <3>1. refit[q].pc # "completed" /\ \A r \in Refits \ {q} : refit'[r] = refit[r]
      BY
         DEF RefitNext, RefitStart, RefitLock, RefitFit, RefitEnd, RefitPc, Enter,
             TypeInv,
          RefitType
    <3> QED
      BY <3>1
  <2> QED
    BY <2>1, <2>2 DEF TerminalsStay
<1>3. CASE \E v \in Validations : ValNext(v)
  <2>1. UNCHANGED <<train, refit, arm>>
    BY <1>3 DEF ValNext, ValStart, ValLock, ValCollect, ValEnd, ValOnly
  <2>2. \A v \in Validations : Final(v) => val'[v] = val[v]
    <3> PICK w \in Validations : ValNext(w)
      BY <1>3
    <3>1. ~Final(w) /\ \A v \in Validations \ {w} : val'[v] = val[v]
      BY
         DEF ValNext, ValStart, ValLock, ValCollect, ValEnd, ValPc, Enter,
             TypeInv, ValType, Final
    <3> QED
      BY <3>1
  <2> QED
    BY <2>1, <2>2 DEF TerminalsStay
<1>4. CASE \E b \in Arms : ArmNext(b)
  <2> PICK b \in Arms : ArmNext(b)
    BY <1>4
  <2>1. UNCHANGED <<train, refit, val>> /\ val[b[1]].pc = "running"
    BY
       DEF ArmNext, ArmSelect, ArmInitialize, ArmAdvance, ArmFails, ArmStop,
           ArmComplete,
        ArmOnly, ValOnly, Up
  <2>2. \A a \in Arms \ {b} : arm'[a] = arm[a]
    BY ArmEffect DEF Effect, Acts
  <2>3. \A v \in Validations : Final(v) => \A a \in ArmsOf(v) : a # b
    BY <2>1, OfValidation DEF Final
  <2> QED
    BY <2>1, <2>2, <2>3, OfValidation DEF TerminalsStay
<1>5. CASE \E f \in Freezes : FreezeNext(f)
  BY <1>5
     DEF FreezeNext, FreezeStart, FreezeStage, FreezeLock, FreezeCheck, FreezeReplace,
      FreezeEnd, FreezeOnly, TerminalsStay
<1>6. CASE Kill
  <2>1. \A t \in Trainings : train[t].pc = "failed" => train'[t] = train[t]
    BY <1>6 DEF Kill, TrainPc, TypeInv, TrainType
  <2>2. \A r \in Refits : refit[r].pc = "completed" => refit'[r] = refit[r]
    BY <1>6 DEF Kill, RefitPc, TypeInv, RefitType
  <2>3. \A v \in Validations : Final(v) => val'[v] = val[v]
    BY <1>6 DEF Kill, ValPc, TypeInv, ValType, Final
  <2>4. \A v \in Validations : Final(v) => \A a \in ArmsOf(v) : arm'[a] = arm[a]
    BY <1>6, <2>3, OfValidation DEF Kill, Final
  <2> QED
    BY <2>1, <2>2, <2>3, <2>4 DEF TerminalsStay
<1>7. CASE UNCHANGED registryVars
  BY <1>7 DEF registryVars, TerminalsStay
<1> QED
  BY <1>1, <1>2, <1>3, <1>4, <1>5, <1>6, <1>7 DEF RegistryNext

LEMMA AdmissionStays ==
    ASSUME TypeInv, TerminalsStay, NEW v \in Validations, NEW mode \in {"strict", "degraded"},
           Admissible(v, mode)
    PROVE  Admissible(v, mode)'
<1> DEFINE r == val[v].refit
           t == refit[r].source
<1>1. Final(v) /\ RefitVerified(r)
  BY DEF Admissible, ChecksPass, Final
<1>2. r \in Refits
  BY <1>1 DEF Final, TypeInv, ValType
<1>3. val'[v] = val[v] /\ refit'[r] = refit[r] /\ refit[r].pc = "completed"
  BY <1>1, <1>2 DEF TerminalsStay, RefitVerified
<1>4. t \in Trainings
  BY <1>2, <1>3 DEF TypeInv, RefitType
<1>5. train'[t] = train[t]
  BY <1>1, <1>4 DEF TerminalsStay, RefitVerified, CandidateExact, Source
<1>6. \A a \in ArmsOf(v) : arm'[a] = arm[a]
  BY <1>1 DEF TerminalsStay
<1>7. RefitVerified(val[v].refit)'
  BY <1>1, <1>3, <1>5 DEF RefitVerified, CandidateExact, Source
<1>8. /\ AllDone(v) => AllDone(v)'
      /\ FreshTests(v) => FreshTests(v)'
  BY <1>6 DEF AllDone, FreshTests
<1>9. AllEligible(v) => AllEligible(v)'
  BY <1>6 DEF AllEligible
<1>10. CASE mode = "strict"
  BY <1>3, <1>7, <1>8, <1>9, <1>10 DEF Admissible, ChecksPass
<1>11. CASE mode = "degraded"
  BY <1>3, <1>6, <1>7, <1>8, <1>11 DEF Admissible
<1> QED
  BY <1>10, <1>11

\* A freeze takes its validation and mode once, and admits them then.
LEMMA FreezeTakesOnce ==
    ASSUME TypeInv, [RegistryNext]_registryVars, NEW f \in Freezes
    PROVE  \/ /\ freeze[f].pc # "idle" /\ freeze'[f].pc # "idle"
              /\ freeze'[f].val = freeze[f].val /\ freeze'[f].mode = freeze[f].mode
           \/ freeze[f].pc = "idle" /\ freeze'[f] = freeze[f]
           \/ \E v \in Validations, mode \in {"strict", "degraded"} :
                 /\ Admissible(v, mode) /\ freeze'[f].val = v /\ freeze'[f].mode = mode
                 /\ freeze'[f].pc # "idle"
<1>1. CASE \E g \in Freezes : FreezeNext(g)
  <2> PICK g \in Freezes : FreezeNext(g)
    BY <1>1
  <2> USE DEF TypeInv, FreezeType
  <2>1. CASE \E v \in Validations, mode \in {"strict", "degraded"} : FreezeStart(g, v, mode)
    BY <2>1 DEF FreezeStart
  <2>2. CASE (\E ok \in BOOLEAN : FreezeStage(g, ok)) \/ FreezeLock(g)
    BY <2>2 DEF FreezeStage, FreezeLock, FreezePc, Enter
  <2>3. CASE FreezeCheck(g) \/ FreezeReplace(g) \/ FreezeEnd(g)
    BY <2>3 DEF FreezeCheck, FreezeReplace, FreezeEnd, FreezePc
  <2> QED
    BY <2>1, <2>2, <2>3 DEF FreezeNext
<1>2. CASE Kill
  BY <1>2 DEF Kill, FreezePc, TypeInv, FreezeType
<1>3. CASE UNCHANGED freeze
  BY <1>3
<1>4. CASE \/ \E t \in Trainings : TrainNext(t)
           \/ \E r \in Refits : RefitNext(r)
           \/ \E v \in Validations : ValNext(v)
           \/ \E a \in Arms : ArmNext(a)
  <2>1. CASE \E t \in Trainings : TrainNext(t)
    BY <1>3, <2>1
       DEF TrainNext, TrainStart, TrainLock, Search, MakeRoot, Move, InstallFails,
        TrainEnd, TrainOnly
  <2>2. CASE \E r \in Refits : RefitNext(r)
    BY <1>3, <2>2 DEF RefitNext, RefitStart, RefitLock, RefitFit, RefitEnd, RefitOnly
  <2>3. CASE \E v \in Validations : ValNext(v)
    BY <1>3, <2>3 DEF ValNext, ValStart, ValLock, ValCollect, ValEnd, ValOnly
  <2>4. CASE \E a \in Arms : ArmNext(a)
    BY <1>3, <2>4 DEF ArmNext, ArmSelect, ArmInitialize, ArmAdvance, ArmFails, ArmStop,
        ArmComplete, ArmOnly, ValOnly
  <2> QED
    BY <1>4, <2>1, <2>2, <2>3, <2>4
<1> QED
  BY <1>1, <1>2, <1>3, <1>4 DEF RegistryNext, registryVars

\* Only a replacement writes a suite manifest.
LEMMA SuiteBy ==
    ASSUME TypeInv, [RegistryNext]_registryVars
    PROVE  \/ models'.suite = models.suite
           \/ \E g \in Freezes : FreezeReplace(g) /\ models'.suite = g
<1>1. CASE \E t \in Trainings : MakeRoot(t) \/ Move(t)
  BY <1>1 DEF MakeRoot, Move, TypeInv, ModelsType
<1>2. CASE \E f \in Freezes : FreezeReplace(f)
  BY <1>2 DEF FreezeReplace
<1> QED
  BY <1>1, <1>2, OnlyPublishersWrite DEF registryVars

LEMMA AdmitStep ==
    ASSUME TypeInv, EvidenceInv, AdmitInv, [RegistryNext]_registryVars
    PROVE  AdmitInv'
<1>1. TerminalsStay
  BY NothingReopened
<1>2. ASSUME NEW f \in Freezes, freeze'[f].pc # "idle"
      PROVE  Admitted(f)'
  <2>1. CASE /\ freeze[f].pc # "idle" /\ freeze'[f].val = freeze[f].val
             /\ freeze'[f].mode = freeze[f].mode
    <3>1. Admitted(f)
      BY <2>1 DEF AdmitInv
    <3>2. \A v \in Validations, mode \in {"strict", "degraded"} :
              Admissible(v, mode) => Admissible(v, mode)'
      BY <1>1, AdmissionStays
    <3> QED
      BY <2>1, <3>1, <3>2 DEF Admitted
  <2>2. ASSUME NEW v \in Validations, NEW mode \in {"strict", "degraded"}, Admissible(v, mode),
               freeze'[f].val = v, freeze'[f].mode = mode
        PROVE  Admitted(f)'
    <3>1. Admissible(v, mode)'
      BY <1>1, <2>2, AdmissionStays
    <3> QED
      BY <2>2, <3>1 DEF Admitted
  <2> QED
    BY <1>2, <2>1, <2>2, FreezeTakesOnce
<1>3. ASSUME NEW f \in Freezes, models'.suite = f
      PROVE  freeze'[f].pc # "idle"
  <2>1. CASE models'.suite = models.suite
    <3>1. freeze[f].pc # "idle"
      BY <1>3, <2>1 DEF AdmitInv
    <3> QED
      BY <3>1, FreezeTakesOnce
  <2>2. CASE \E g \in Freezes : FreezeReplace(g) /\ models'.suite = g
    BY <1>3, <2>2 DEF FreezeReplace, FreezePc, TypeInv, FreezeType
  <2> QED
    BY <2>1, <2>2, SuiteBy
<1> QED
  BY <1>2, <1>3 DEF AdmitInv

(* Every suite that is published was validated as a whole: each case ran to *)
(* its end, alone, on a stopped test of its own, with a candidate of one    *)
(* refit of a failed training with whole banks; and the suite is marked as  *)
(* degraded exactly when some case fell back (validation.py, registry.py).  *)
THEOREM PublishedWasValidated == RegistrySpec => []SuiteValidated
<1> DEFINE Inv == TypeInv /\ RegistryWhole /\ EvidenceInv /\ AdmitInv
<1>1. RegistryInit => Inv
  <2> SUFFICES ASSUME RegistryInit
               PROVE  Inv
    OBVIOUS
  <2>1. AdmitInv
    BY MpcRegistryAssumption DEF RegistryInit, AdmitInv, MpcRegistryAssumption
  <2> QED
    BY <2>1, InitRegistry, InitEvidence
<1>2. Inv /\ [RegistryNext]_registryVars => Inv'
  BY EvidenceStep, AdmitStep, RegistryStep DEF RegistryInv, TypeInv
<1>3. Inv => SuiteValidated
  <2> SUFFICES ASSUME Inv, NEW f \in Freezes, models.suite = f
               PROVE  LET v == freeze[f].val
                          source == refit[val[v].refit].source
                      IN  /\ \A a \in ArmsOf(v) :
                                /\ arm[a].out # Nothing /\ arm[a].out.sound
                                /\ tests[arm[a].out.test].st = "stopped"
                                /\ tests[arm[a].out.test].by = [s \in 1 .. Steps |-> a]
                          /\ (freeze[f].mode = "degraded")
                                <=> (\E a \in ArmsOf(v) : arm[a].out.fallback)
                          /\ train[source].pc = "failed" /\ train[source].bank
    BY DEF SuiteValidated
  <2> DEFINE v == freeze[f].val
             mode == freeze[f].mode
  <2>1. v \in Validations /\ mode \in {"strict", "degraded"} /\ Admissible(v, mode)
    BY DEF AdmitInv, Admitted
  <2>2. RefitVerified(val[v].refit) /\ AllDone(v) /\ FreshTests(v)
    BY <2>1 DEF Admissible, ChecksPass
  <2>3. \A a \in ArmsOf(v) : arm[a].out.sound
    BY <2>1 DEF Admissible, ChecksPass, AllEligible
  <2>4. (mode = "degraded") <=> (\E a \in ArmsOf(v) : arm[a].out.fallback)
    BY <2>1 DEF Admissible, ChecksPass, AllEligible
  <2>5. ASSUME NEW a \in ArmsOf(v)
        PROVE  /\ tests[arm[a].out.test].st = "stopped"
               /\ tests[arm[a].out.test].by = [s \in 1 .. Steps |-> a]
    <3>1. a \in Arms /\ a[1] = v
      BY <2>1, OfValidation
    <3>2. \A b \in ArmsOf(v) : b \in Arms /\ arm[b].out # Nothing /\ arm[b].pc = "ended"
      BY <2>1, <2>2, OfValidation DEF AllDone, EvidenceInv, ArmInv
    <3>3. \A b \in ArmsOf(v) \ {a} : ~Rival(b, arm[a].out.test)
      BY <2>2, <3>2 DEF FreshTests, Rival
    <3>4. tests[arm[a].out.test].st = "stopped" /\ Alone(a, arm[a].out.test, Steps)
      BY <3>1, <3>2 DEF EvidenceInv, ArmInv
    <3> QED
      BY <3>1, <3>3, <3>4 DEF Alone
  <2> QED
    BY <2>2, <2>3, <2>4, <2>5 DEF AllDone, RefitVerified, CandidateExact, Source
<1> QED
  BY <1>1, <1>2, <1>3, PTL DEF RegistrySpec

\* Once every case has a model, nothing changes models/mpc but the creation of what is there.
LEMMA FullIsFinal ==
    ASSUME RegistryInv, [RegistryNext]_registryVars, NEW w, models.dirs = Cases \X {w}
    PROVE  models'.dirs = models.dirs /\ models'.suite = models.suite
<1>1. \A c \in Cases : <<c, w>> \in models.dirs
  OBVIOUS
<1>2. models.dirs # {} /\ \A c \in Cases : Writer(c) # {}
  BY <1>1, CasesExist DEF Writer
<1>3. CASE \E t \in Trainings : MakeRoot(t) \/ Move(t)
  BY <1>2, <1>3 DEF MakeRoot, Move, RegistryInv, ModelsType
<1>4. CASE \E f \in Freezes : FreezeReplace(f)
  BY <1>2, <1>4 DEF FreezeReplace, MayReplace
<1> QED
  BY <1>3, <1>4, OnlyPublishersWrite DEF registryVars

\* How a training comes to be completed, and a freeze to have replaced the models.
LEMMA CompletesWhenMoved ==
    ASSUME TypeInv, [RegistryNext]_registryVars, NEW t \in Trainings, train'[t].pc = "completed",
           train[t].pc # "completed"
    PROVE  train[t].pc = "moving" /\ Moved(t) = Cases /\ UNCHANGED models
<1>1. CASE \E u \in Trainings : TrainNext(u)
  <2> PICK u \in Trainings : TrainNext(u)
    BY <1>1
  <2>1. CASE TrainEnd(u)
    BY <2>1 DEF TrainEnd, TrainPc, TypeInv, TrainType
  <2>2. CASE ~TrainEnd(u)
    BY <2>2
       DEF TrainNext, TrainStart, TrainLock, Search, MakeRoot, Move, InstallFails,
           TrainPc,
        Enter, TypeInv, TrainType
  <2> QED
    BY <2>1, <2>2
<1>2. CASE Kill
  BY <1>2 DEF Kill, TrainPc, TypeInv, TrainType
<1>3. UNCHANGED train \/ (\E u \in Trainings : TrainNext(u)) \/ Kill
  BY
     DEF RegistryNext, registryVars, RefitNext, RefitStart, RefitLock, RefitFit,
         RefitEnd, RefitOnly,
      ValNext, ValStart, ValLock, ValCollect, ValEnd, ValOnly, ArmNext, ArmSelect, ArmInitialize,
      ArmAdvance, ArmFails, ArmStop, ArmComplete, ArmOnly, FreezeNext, FreezeStart, FreezeStage,
      FreezeLock, FreezeCheck, FreezeReplace, FreezeEnd, FreezeOnly
<1> QED
  BY <1>1, <1>2, <1>3

LEMMA ReplacedByReplace ==
    ASSUME TypeInv, [RegistryNext]_registryVars, NEW f \in Freezes, freeze'[f].pc \in {"replaced", "completed"},
           freeze[f].pc \notin {"replaced", "completed"}
    PROVE  models'.suite = f
<1>1. CASE \E g \in Freezes : FreezeNext(g)
  <2> PICK g \in Freezes : FreezeNext(g)
    BY <1>1
  <2> USE DEF TypeInv, FreezeType
  <2>1. CASE FreezeReplace(g)
    BY <2>1 DEF FreezeReplace, FreezePc
  <2>2. CASE \E v \in Validations, mode \in {"strict", "degraded"} : FreezeStart(g, v, mode)
    BY <2>2 DEF FreezeStart
  <2>3. CASE (\E ok \in BOOLEAN : FreezeStage(g, ok)) \/ FreezeLock(g)
    BY <2>3 DEF FreezeStage, FreezeLock, FreezePc, Enter
  <2>4. CASE FreezeCheck(g) \/ FreezeEnd(g)
    BY <2>4 DEF FreezeCheck, FreezeEnd, FreezePc
  <2> QED
    BY <2>1, <2>2, <2>3, <2>4 DEF FreezeNext
<1>2. CASE Kill
  BY <1>2 DEF Kill, FreezePc, TypeInv, FreezeType
<1>3. UNCHANGED freeze \/ (\E g \in Freezes : FreezeNext(g)) \/ Kill
  BY
     DEF RegistryNext, registryVars, TrainNext, TrainStart, TrainLock, Search,
         MakeRoot, Move, InstallFails,
      TrainEnd, TrainOnly, RefitNext, RefitStart, RefitLock, RefitFit, RefitEnd, RefitOnly,
      ValNext, ValStart, ValLock, ValCollect, ValEnd, ValOnly, ArmNext, ArmSelect, ArmInitialize,
      ArmAdvance, ArmFails, ArmStop, ArmComplete, ArmOnly
<1> QED
  BY <1>1, <1>2, <1>3

(* A training or a freeze that reports success published what is in         *)
(* models/mpc then and for ever: no two of them succeed (training.py,       *)
(* registry.py).                                                            *)
THEOREM OnlyOnePublishes == RegistrySpec => []PublishedOnce
<1> DEFINE Inv == TypeInv /\ RegistryWhole /\ EvidenceInv /\ PublishedOnce
<1>1. RegistryInit => Inv
  BY InitRegistry, InitEvidence DEF RegistryInit, PublishedOnce
<1>2. Inv /\ [RegistryNext]_registryVars => Inv'
  <2> SUFFICES ASSUME Inv, [RegistryNext]_registryVars
               PROVE  PublishedOnce'
    BY EvidenceStep, RegistryStep DEF RegistryInv, TypeInv
  <2>1. RegistryInv
    BY DEF RegistryInv, TypeInv
  <2>2. ASSUME NEW t \in Trainings, train'[t].pc = "completed"
        PROVE  models'.dirs = Cases \X {t}
    <3>1. CASE train[t].pc = "completed"
      BY <2>1, <3>1, FullIsFinal DEF PublishedOnce
    <3>2. CASE train[t].pc = "moving" /\ Moved(t) = Cases /\ UNCHANGED models
      <4>1. \A c \in Cases : <<c, t>> \in models.dirs
        BY <3>2 DEF Moved, Writer, TypeInv, ModelsType
      <4>2. \A d \in models.dirs : d[2] = t /\ d[1] \in Cases /\ d = <<d[1], d[2]>>
        <5>1. <<1, t>> \in models.dirs /\ <<1, t>>[2] = t
          BY <4>1, CasesExist
        <5>2. \A d \in models.dirs : d[2] = <<1, t>>[2]
          BY <5>1 DEF RegistryWhole
        <5>3. models.dirs \subseteq Cases \X (Trainings \cup Freezes)
          BY DEF TypeInv, ModelsType
        <5> QED
          BY <5>1, <5>2, <5>3
      <4>3. models.dirs = Cases \X {t}
        BY <4>1, <4>2
      <4> QED
        BY <3>2, <4>3
    <3> QED
      BY <2>2, <3>1, <3>2, CompletesWhenMoved
  <2>3. ASSUME NEW f \in Freezes, freeze'[f].pc \in {"replaced", "completed"}
        PROVE  models'.suite = f
    <3>1. CASE freeze[f].pc \in {"replaced", "completed"}
      <4>1. models.suite = f /\ models.dirs = Cases \X {f}
        BY <3>1, MpcRegistryAssumption
           DEF PublishedOnce, RegistryWhole, MpcRegistryAssumption
      <4> QED
        BY <2>1, <4>1, FullIsFinal
    <3> QED
      BY <2>3, <3>1, ReplacedByReplace
  <2> QED
    BY <2>2, <2>3 DEF PublishedOnce
<1>3. Inv => PublishedOnce
  OBVIOUS
<1> QED
  BY <1>1, <1>2, <1>3, PTL DEF RegistrySpec
=============================================================================
