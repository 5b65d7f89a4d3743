--------------------------- MODULE EpochCheckpoint ---------------------------
(***************************************************************************)
(* The checkpoint directory of one run and the trainer that commits epochs *)
(* to it (checkpointing.py, used by ppo_training.py and mappo_training.py). *)
(*                                                                         *)
(* A checkpoint of epoch e is NParts data files and a manifest with their   *)
(* checksums; latest.json and best.json point to a manifest by name and     *)
(* checksum.  A PPO checkpoint has three data files (model, state, rng), a   *)
(* MAPPO checkpoint one (the bundle).  Every file operation is a step, so a *)
(* crash can fall between any two of them.                                  *)
(*                                                                         *)
(* A file holds an image: the trainer state it was written from and a       *)
(* token.  Two files have the same checksum iff they hold the same image,   *)
(* and two attempts to save the same state may or may not give the same     *)
(* bytes, so the token is chosen freely.                                   *)
(***************************************************************************)
EXTENDS TrainerState

CONSTANTS
    NParts,             \* data files of a checkpoint: 3 for PPO, 1 for MAPPO
    SaveRetries,        \* attempts of one save (save_retries)
    Tokens,             \* what tells the bytes of two attempts apart
    NoFile,
    StrictJson,         \* is the state file strict JSON (PPO), or torch.save?
    PruneRaises,        \* may listing the directory in _prune raise?
    BestUnreadable      \* may _prune fail to read best.json?

VARIABLES
    data,       \* data[e][i]: the image in data file i of epoch e, or NoFile
    manifest,   \* manifest[e]: the image whose checksums it lists, or NoFile
    latest,     \* latest.json: the epoch and the checksum of its manifest
    best,       \* best.json
    pc,         \* where the trainer process is
    trainer,    \* its state, including the epoch being committed
    actualBest, \* the epoch being committed is a strict maximum to mark
    image,      \* the image this save attempt wrote to temporary files
    moved,      \* how many of its data files have been renamed into place
    attempt,    \* the current attempt of save
    doomed      \* epochs whose files _prune has still to delete

vars == <<data, manifest, latest, best, pc, trainer, actualBest, image, moved,
          attempt, doomed>>

disk == <<data, manifest, latest, best>>

Epochs == 1..MaxEpochs
Parts  == 1..NParts
Image  == [state : State, token : Tokens]
Pointer == [epoch : Epochs, image : Image]

ASSUME CheckpointAssumption ==
    /\ NParts \in Nat \ {0}
    /\ SaveRetries \in Nat \ {0}
    /\ NoFile \notin Image
    /\ NoFile \notin Pointer
    /\ StrictJson \in BOOLEAN
    /\ PruneRaises \in BOOLEAN
    /\ BestUnreadable \in BOOLEAN

Phases == {"train", "write", "replace", "verify", "prune", "delete", "mark",
           "down", "refused"}

\* _read_pointer and load_latest_metadata: the manifest has the checksum the
\* pointer records, every data file the checksum the manifest records, and the
\* state inside is of the epoch the pointer names.
Loadable(p) ==
    /\ manifest[p.epoch] = p.image
    /\ \A i \in Parts : data[p.epoch][i] = manifest[p.epoch]
    /\ p.image.state.epoch = p.epoch

Init ==
    /\ data = [e \in Epochs |-> [i \in Parts |-> NoFile]]
    /\ manifest = [e \in Epochs |-> NoFile]
    /\ latest = NoFile
    /\ best = NoFile
    /\ pc = "train"
    /\ trainer = Fresh
    /\ actualBest = FALSE
    /\ image = NoFile
    /\ moved = 0
    /\ attempt = 0
    /\ doomed = {}

\* Roll out and update one epoch, evaluate it when it is due, and start save.
TrainEpoch ==
    /\ pc = "train"
    /\ trainer.epoch < MaxEpochs
    /\ trainer' \in Trained(trainer)
    /\ actualBest' = (trainer'.best > trainer.best)
    /\ attempt' = 1
    /\ pc' = "write"
    /\ UNCHANGED <<disk, image, moved, doomed>>

\* _write_json refuses the minus infinity of a best score that no evaluation has
\* set yet (allow_nan=False); torch.save does not.
Serialisable(s) == StrictJson => s.best # NoScore

\* Write every file under a temporary name and verify it.
WriteTemporaries ==
    /\ pc = "write"
    /\ Serialisable(trainer)
    /\ \E t \in Tokens : image' = [state |-> trainer, token |-> t]
    /\ moved' = 0
    /\ pc' = "replace"
    /\ UNCHANGED <<disk, trainer, actualBest, attempt, doomed>>

\* Rename the next data file into place.
ReplaceData ==
    /\ pc = "replace"
    /\ moved < NParts
    /\ data' = [data EXCEPT ![trainer.epoch][moved + 1] = image]
    /\ moved' = moved + 1
    /\ UNCHANGED <<manifest, latest, best, pc, trainer, actualBest, image,
                   attempt, doomed>>

\* Rename the manifest after all the data files.
ReplaceManifest ==
    /\ pc = "replace"
    /\ moved = NParts
    /\ manifest' = [manifest EXCEPT ![trainer.epoch] = image]
    /\ pc' = "verify"
    /\ UNCHANGED <<data, latest, best, trainer, actualBest, image, moved,
                   attempt, doomed>>

\* Check the renamed files against the manifest and move latest.json to it.
CommitPointer ==
    /\ pc = "verify"
    /\ \A i \in Parts : data[trainer.epoch][i] = image
    /\ latest' = [epoch |-> trainer.epoch, image |-> manifest[trainer.epoch]]
    /\ pc' = "prune"
    /\ UNCHANGED <<data, manifest, best, trainer, actualBest, image, moved,
                   attempt, doomed>>

\* The last two manifests by name; names sort by epoch up to epoch 9999.
Newest(S) == {e \in S : \A f, g \in S : f > e /\ g > e => f = g}

Named(p) == IF p = NoFile THEN {} ELSE {p.epoch}

\* Mutant: _prune looks at latest.json only.
PrunableDespiteBest(readable) ==
    LET present == {e \in Epochs : manifest[e] # NoFile}
    IN  present \ (Newest(present) \cup Named(latest))

\* The manifests _prune deletes when it can read the pointers in readable.
Prunable(readable) ==
    LET present == {e \in Epochs : manifest[e] # NoFile}
    IN  present \ (Newest(present) \cup UNION {Named(p) : p \in readable})

\* _prune lists the manifests and decides which to keep; a pointer it fails to
\* read keeps nothing.
Prune ==
    /\ pc = "prune"
    /\ \E readable \in SUBSET {latest, best} :
          /\ ~BestUnreadable => best \in readable
          /\ doomed' = Prunable(readable)
    /\ pc' = "delete"
    /\ UNCHANGED <<disk, trainer, actualBest, image, moved, attempt>>

\* Checkpoints are deleted in the order of their names.
IsFirst(e, S) == e \in S /\ \A f \in S : e <= f

\* Unlink one data file of a doomed checkpoint ...
DeleteData ==
    /\ pc = "delete"
    /\ \E e \in Epochs, i \in Parts :
          /\ IsFirst(e, doomed)
          /\ data[e][i] # NoFile
          /\ data' = [data EXCEPT ![e][i] = NoFile]
    /\ UNCHANGED <<manifest, latest, best, pc, trainer, actualBest, image,
                   moved, attempt, doomed>>

\* ... and its manifest when they are gone,
DeleteManifest ==
    /\ pc = "delete"
    /\ \E e \in Epochs :
          /\ IsFirst(e, doomed)
          /\ \A i \in Parts : data[e][i] = NoFile
          /\ manifest' = [manifest EXCEPT ![e] = NoFile]
          /\ doomed' = doomed \ {e}
    /\ UNCHANGED <<data, latest, best, pc, trainer, actualBest, image, moved,
                   attempt>>

\* ... or leave the rest of it behind: the exception is swallowed.
DeleteFails ==
    /\ pc = "delete"
    /\ \E e \in Epochs : IsFirst(e, doomed) /\ doomed' = doomed \ {e}
    /\ UNCHANGED <<disk, pc, trainer, actualBest, image, moved, attempt>>

\* _prune has returned: from save the trainer goes on to mark_best if the epoch
\* is a strict maximum, otherwise the epoch is over.
PruneReturns ==
    /\ pc = "delete"
    /\ doomed = {}
    /\ pc' = IF actualBest THEN "mark" ELSE "train"
    /\ image' = NoFile
    /\ moved' = 0
    /\ attempt' = 0
    /\ UNCHANGED <<disk, trainer, actualBest, doomed>>

\* mark_best: best.json names the checkpoint just saved, then _prune runs again.
MarkBest ==
    /\ pc = "mark"
    /\ best' = [epoch |-> trainer.epoch, image |-> manifest[trainer.epoch]]
    /\ actualBest' = FALSE
    /\ pc' = "prune"
    /\ UNCHANGED <<data, manifest, latest, trainer, image, moved, attempt,
                   doomed>>

\* Mutant: a failure inside _prune retries the save.
SaveRaisesInPrune == pc \in {"write", "replace", "verify", "prune"}

\* An exception inside save's try block starts the next attempt over; the last
\* one raises out of the trainer.  _prune runs inside that block too, but not
\* when mark_best calls it (attempt = 0: save has returned).
SaveRaises ==
    \/ pc \in {"write", "replace", "verify"}
    \/ pc = "prune" /\ PruneRaises

AttemptsLeft == attempt < SaveRetries

\* Mutant: the attempt is not counted.
SameAttempt == attempt

NextAttempt == attempt + 1

RetrySave ==
    /\ SaveRaises
    /\ attempt > 0
    /\ AttemptsLeft
    /\ attempt' = NextAttempt
    /\ pc' = "write"
    /\ UNCHANGED <<disk, trainer, actualBest, image, moved, doomed>>

\* What a trainer that dies or raises leaves behind is the directory alone.
Stop ==
    /\ pc' = "down"
    /\ trainer' = Fresh
    /\ actualBest' = FALSE
    /\ image' = NoFile
    /\ moved' = 0
    /\ attempt' = 0
    /\ doomed' = {}
    /\ UNCHANGED disk

SaveFails ==
    /\ SaveRaises
    /\ attempt > 0
    /\ ~AttemptsLeft
    /\ Stop

\* The process dies at any point, or an exception elsewhere ends the training.
Crash ==
    /\ pc \notin {"down", "refused"}
    /\ Stop

\* Mutant: the early-stop state is not restored.
RestoreWithoutBest(p) ==
    [p.image.state EXCEPT !.best = NoScore, !.bestEpoch = 0]

\* The trainer state a checkpoint brings back.
Restore(p) == p.image.state

\* A new trainer starts from latest.json: nothing committed is a fresh start,
\* a checkpoint that fails its checks is an error and not a fallback.
Resume ==
    /\ pc = "down"
    /\ IF latest = NoFile
       THEN trainer' = Fresh /\ pc' = "train"
       ELSE IF Loadable(latest)
            THEN trainer' = Restore(latest) /\ pc' = "train"
            ELSE trainer' = trainer /\ pc' = "refused"
    /\ UNCHANGED <<disk, actualBest, image, moved, attempt, doomed>>

Save == TrainEpoch \/ WriteTemporaries \/ ReplaceData \/ ReplaceManifest
           \/ CommitPointer \/ RetrySave \/ SaveFails

Pruning == Prune \/ DeleteData \/ DeleteManifest \/ DeleteFails \/ PruneReturns

Next == Save \/ Pruning \/ MarkBest \/ Crash \/ Resume

Spec == Init /\ [][Next]_vars

-----------------------------------------------------------------------------

TypeOK ==
    /\ data \in [Epochs -> [Parts -> Image \cup {NoFile}]]
    /\ manifest \in [Epochs -> Image \cup {NoFile}]
    /\ latest \in Pointer \cup {NoFile}
    /\ best \in Pointer \cup {NoFile}
    /\ pc \in Phases
    /\ trainer \in State
    /\ actualBest \in BOOLEAN
    /\ image \in Image \cup {NoFile}
    /\ moved \in 0..NParts
    /\ attempt \in 0..SaveRetries
    /\ doomed \subseteq Epochs

\* Whenever the process stops, the checkpoint latest.json names passes every
\* check of a resume: replaying the next epoch, retrying its save and pruning
\* never touch the files it depends on.
LatestLoadable == latest # NoFile => Loadable(latest)

\* So does the checkpoint best.json names, which the formal evaluation loads:
\* it is not pruned however many epochs are committed after it.
BestLoadable == best # NoFile => Loadable(best)

Complete(e) ==
    /\ manifest[e] # NoFile
    /\ \A i \in Parts : data[e][i] = manifest[e]

\* Two checkpoints are kept: once latest.json has moved to epoch e, epoch e - 1
\* stays complete until it moves again.
PreviousRetained ==
    latest # NoFile /\ latest.epoch > 1 => Complete(latest.epoch - 1)

\* best.json only ever moves to a strictly higher return, across crashes and
\* replayed epochs too: a replay starts from a best that is at least as high.
BestStrictlyImproves ==
    [][best' # best =>
          best = NoFile \/ best'.image.state.best > best.image.state.best]_vars

\* The state a resume would restore.
Durable ==
    IF latest = NoFile THEN Fresh
    ELSE IF Loadable(latest) THEN Restore(latest)
    ELSE NoFile

\* Training as the log of its committed epochs: each commit is one epoch trained
\* on top of the state committed before it, and nothing else changes what a
\* resume restores.
Log == INSTANCE EpochLog WITH durable <- Durable
ImplementsLog == Log!Spec

\* Between epochs best.json names the epoch the trainer holds to be its best:
\* every strict numerical maximum updates the best pointer.
BestPointerCurrent ==
    pc = "train" /\ trainer.bestEpoch # 0 =>
        best # NoFile /\ best.epoch = trainer.bestEpoch

\* Every epoch can be written: with no failure of the file system, save succeeds.
EveryEpochSavable == pc = "write" => Serialisable(trainer)

\* Fairness: the trainer is sequential code that keeps running until it dies, so
\* a step of save, _prune or mark_best that can be taken is not put off forever;
\* raising after the last attempt is one of them.
Commits == (Save \/ Pruning \/ MarkBest) /\ pc # "train"
FairSpec == Spec /\ WF_vars(Commits)

\* A save that has begun ends: the epoch is committed or the trainer gives up.
SaveEnds == pc = "write" ~> pc \in {"train", "down"}
=============================================================================
