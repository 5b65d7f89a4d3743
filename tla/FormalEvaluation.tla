--------------------------- MODULE FormalEvaluation ---------------------------
(***************************************************************************)
(* From training to published numbers: the run identity (cli.py:_identity), *)
(* the formal evaluation of best.json with its output files (evaluation.py),*)
(* and the aggregate over all runs of a task (aggregate.py).                *)
(*                                                                         *)
(* Training is that of RunSupervisor and EpochCheckpoint, reduced to commits *)
(* and the final manifest, which in full mode always names a terminal state.*)
(* An epoch stands for the epochs up to the next validation.  Between        *)
(* commands the source may be edited, and the service upgraded at any time. *)
(***************************************************************************)
EXTENDS Integers, Sequences

CONSTANTS
    RunCount,       \* the runs of the task, one per seed
    Finished,       \* those trained and evaluated at the beginning
    Codes,          \* fingerprints of the source
    Versions,       \* versions of the BOPTEST service
    Cap,            \* the registered number of epochs
    LastEpoch,      \* bound: no run trains further
    MaxRollouts,    \* bound: no run is measured more often
    Forces,         \* the values of --force that are used
    Overlaps        \* a train command may start on a run that is in use

Runs == 1..RunCount

ASSUME EvaluationAssumption ==
    /\ RunCount \in Nat
    /\ Finished \subseteq Runs
    /\ Cap \in Nat \ {0}
    /\ LastEpoch \in Nat
    /\ Cap <= LastEpoch
    /\ MaxRollouts \in Nat \ {0}
    /\ Forces \subseteq BOOLEAN
    /\ Overlaps \in BOOLEAN

VARIABLES
    source,     \* the code on disk
    service,    \* the version of the service
    dir,        \* the files of each run
    at,         \* where the command that holds the run lock is
    mem,        \* what that command knows
    pool        \* the aggregate command and the rows it has published

vars == <<source, service, dir, at, mem, pool>>

None == [none |-> TRUE]

\* A torn copy of a model.
Torn == [torn |-> TRUE]

\* A model: the epoch that saved it and the codes that trained it so far.
Model == [epoch : 1..LastEpoch, codes : SUBSET Codes]

Label == [code : Codes, version : Versions]

\* trajectory.csv: the policy, the code and the service that produced it, and
\* which rollout it is.
Trajectory ==
    [model : Model, code : Codes, served : Versions, number : 1..MaxRollouts]

Metrics == [model : Model, rollout : Trajectory, label : Label]

Manifest == [best : 1..LastEpoch, label : Label]

Row == [best : 1..LastEpoch, metrics : Metrics]

NewRun ==
    [identity |-> None, preflight |-> None, manifest |-> None,
     epoch |-> 0, codes |-> {}, stateBest |-> None, stopped |-> FALSE,
     best |-> None, artifact |-> None, export |-> None,
     trajectory |-> None, metrics |-> None]

\* A run trained and evaluated with one code against one version.
FinishedRun(label) ==
    LET model == [epoch |-> 1, codes |-> {label.code}]
        rollout == [model |-> model, code |-> label.code,
                    served |-> label.version, number |-> 1]
    IN  [identity |-> label, preflight |-> label.version,
         manifest |-> [best |-> 1, label |-> label],
         epoch |-> Cap, codes |-> {label.code}, stateBest |-> model,
         stopped |-> TRUE, best |-> model, artifact |-> model,
         export |-> model, trajectory |-> rollout,
         metrics |-> [model |-> model, rollout |-> rollout, label |-> label]]

NoMemory ==
    [code |-> None, label |-> None, onward |-> FALSE, force |-> FALSE,
     served |-> None]

Idle == [at |-> "idle", run |-> 1, metrics |-> None, rows |-> <<>>]

Init ==
    /\ source \in Codes
    /\ service \in Versions
    /\ \E label \in Label :
          dir = [r \in Runs |-> IF r \in Finished THEN FinishedRun(label)
                                                  ELSE NewRun]
    /\ at = [r \in Runs |-> "free"]
    /\ mem = [r \in Runs |-> NoMemory]
    /\ pool = Idle

\* The environment changes where a command may next look at it.
Unwatched(stages) == \A r \in Runs : at[r] \in stages

EditSource ==
    /\ Unwatched({"free", "training"})
    /\ source' \in Codes
    /\ UNCHANGED <<service, dir, at, mem, pool>>

UpgradeService ==
    /\ Unwatched({"free", "training", "looking"})
    /\ service' \in Versions
    /\ UNCHANGED <<source, dir, at, mem, pool>>

\* The command of a run is over.
Leave(r) ==
    /\ at' = [at EXCEPT ![r] = "free"]
    /\ mem' = [mem EXCEPT ![r] = NoMemory]

-----------------------------------------------------------------------------
(* Training. *)

SameVersion(r) ==
    dir[r].identity # None => dir[r].identity.version = service

\* Mutant: the fingerprint is refreshed beside checkpoints, too.
SameOrRefreshedCode(r) == TRUE

\* Before the first checkpoint the fingerprint is refreshed.
SameCode(r) ==
    dir[r].identity # None /\ dir[r].epoch > 0 =>
        dir[r].identity.code = source

Admitted(r) == SameVersion(r) /\ SameCode(r)

\* Preflight and identity, before the run lock is taken.
Identify(r) ==
    dir' = [dir EXCEPT
              ![r].preflight = service,
              ![r].identity =
                  IF Admitted(r) THEN [code |-> source, version |-> service]
                                 ELSE @]

\* Beside another command this one will not get the run lock.
StartTraining(r) ==
    /\ r \notin Finished
    /\ at[r] = "free" \/ Overlaps
    /\ Identify(r)
    /\ IF at[r] = "free" /\ Admitted(r)
       THEN \E onward \in BOOLEAN :
               /\ at' = [at EXCEPT ![r] = "starting"]
               /\ mem' = [mem EXCEPT ![r].code = source, ![r].onward = onward]
       ELSE UNCHANGED <<at, mem>>
    /\ UNCHANGED <<source, service, pool>>

\* An attempt of the trainer, the first one or a retry, reads the identity.
BeginAttempt(r) ==
    /\ at[r] \in {"starting", "training", "marking"}
    /\ at' = [at EXCEPT ![r] = "training"]
    /\ mem' = [mem EXCEPT ![r].label = dir[r].identity]
    /\ UNCHANGED <<source, service, dir, pool>>

MoreEpochs(r) ==
    /\ ~dir[r].stopped
    /\ dir[r].epoch < Cap \/ mem[r].onward

CommitEpoch(r) ==
    /\ at[r] = "training"
    /\ MoreEpochs(r)
    /\ dir[r].epoch < LastEpoch
    /\ \E improves, stops \in BOOLEAN :
          LET model == [epoch |-> dir[r].epoch + 1,
                        codes |-> dir[r].codes \cup {mem[r].code}]
          IN  /\ dir[r].epoch = 0 => improves
              /\ dir' = [dir EXCEPT
                           ![r].epoch = model.epoch,
                           ![r].codes = model.codes,
                           ![r].stateBest = IF improves THEN model ELSE @,
                           ![r].stopped = stops]
              /\ at' = [at EXCEPT
                          ![r] = IF improves THEN "marking" ELSE "training"]
    /\ UNCHANGED <<source, service, mem, pool>>

MarkBest(r) ==
    /\ at[r] = "marking"
    /\ dir' = [dir EXCEPT ![r].best = dir[r].stateBest]
    /\ at' = [at EXCEPT ![r] = "training"]
    /\ UNCHANGED <<source, service, mem, pool>>

EndTraining(r) ==
    /\ at[r] = "training"
    /\ ~MoreEpochs(r)
    /\ dir' = [dir EXCEPT ![r].manifest =
                  [best |-> dir[r].stateBest.epoch, label |-> mem[r].label]]
    /\ Leave(r)
    /\ UNCHANGED <<source, service, pool>>

\* The command raises or dies.  A copy may be left unfinished.
Die(r) ==
    /\ at[r] # "free"
    /\ Leave(r)
    /\ \/ UNCHANGED dir
       \/ at[r] = "copying" /\ dir' = [dir EXCEPT ![r].artifact = Torn]
    /\ UNCHANGED <<source, service, pool>>

-----------------------------------------------------------------------------
(* Evaluation, under the run lock. *)

MetadataAgrees(r) ==
    /\ dir[r].identity = dir[r].manifest.label
    /\ dir[r].preflight = dir[r].identity.version
    /\ dir[r].identity.code = source

\* Anything missing or different, and the command raises.
BeginEvaluation(r) ==
    /\ r \notin Finished
    /\ at[r] = "free"
    /\ dir[r].manifest # None
    /\ MetadataAgrees(r)
    /\ at' = [at EXCEPT ![r] = "copying"]
    /\ \E force \in Forces :
          mem' = [mem EXCEPT ![r].code = source, ![r].force = force,
                             ![r].label = dir[r].identity]
    /\ UNCHANGED <<source, service, dir, pool>>

CopyModel(r) ==
    /\ at[r] = "copying"
    /\ dir[r].best # None
    /\ dir' = [dir EXCEPT ![r].artifact = dir[r].best]
    /\ at' = [at EXCEPT ![r] = "exporting"]
    /\ UNCHANGED <<source, service, mem, pool>>

WriteExport(r) ==
    /\ at[r] = "exporting"
    /\ dir' = [dir EXCEPT ![r].export = dir[r].artifact]
    /\ at' = [at EXCEPT ![r] = "looking"]
    /\ UNCHANGED <<source, service, mem, pool>>

\* Mutant: the report is returned for any model of this identity.
MatchesIdentity(r) == dir[r].metrics.label = mem[r].label

Matches(r) ==
    /\ dir[r].metrics.model = dir[r].export
    /\ dir[r].metrics.label = mem[r].label

MustMeasure(r) == dir[r].metrics = None \/ mem[r].force

\* Otherwise the existing report is returned, or the command raises.
UseExisting(r) ==
    /\ at[r] = "looking"
    /\ ~MustMeasure(r)
    /\ IF Matches(r)
       THEN at' = [at EXCEPT ![r] = "returned"] /\ UNCHANGED mem
       ELSE Leave(r)
    /\ UNCHANGED <<source, service, dir, pool>>

\* The complete rollout, as the service is now.  Nothing asks its version.
Measure(r) ==
    /\ at[r] = "looking"
    /\ MustMeasure(r)
    /\ at' = [at EXCEPT ![r] = "measured"]
    /\ mem' = [mem EXCEPT ![r].served = service]
    /\ UNCHANGED <<source, service, dir, pool>>

NextNumber(r) ==
    IF dir[r].trajectory = None THEN 1 ELSE dir[r].trajectory.number + 1

\* best.json is loaded once more.
Policy(r) == dir[r].best

WriteTrajectory(r) ==
    /\ at[r] = "measured"
    /\ NextNumber(r) <= MaxRollouts
    /\ dir' = [dir EXCEPT ![r].trajectory =
                  [model |-> Policy(r), code |-> mem[r].code,
                   served |-> mem[r].served, number |-> NextNumber(r)]]
    /\ at' = [at EXCEPT ![r] = "reporting"]
    /\ UNCHANGED <<source, service, mem, pool>>

WriteMetrics(r) ==
    /\ at[r] = "reporting"
    /\ dir' = [dir EXCEPT ![r].metrics =
                  [model |-> dir[r].export, rollout |-> dir[r].trajectory,
                   label |-> mem[r].label]]
    /\ at' = [at EXCEPT ![r] = "returned"]
    /\ UNCHANGED <<source, service, mem, pool>>

Return(r) ==
    /\ at[r] = "returned"
    /\ Leave(r)
    /\ UNCHANGED <<source, service, dir, pool>>

-----------------------------------------------------------------------------
(* Aggregation, without any lock. *)

StartAggregate ==
    /\ pool.at \in {"idle", "published"}
    /\ pool' = [Idle EXCEPT !.at = "metrics"]
    /\ UNCHANGED <<source, service, dir, at, mem>>

\* A run without a report is left out.
ReadMetrics ==
    /\ pool.at = "metrics"
    /\ pool.run \in Runs
    /\ pool' = IF dir[pool.run].metrics = None
               THEN [pool EXCEPT !.run = @ + 1]
               ELSE [pool EXCEPT !.at = "manifest",
                                 !.metrics = dir[pool.run].metrics]
    /\ UNCHANGED <<source, service, dir, at, mem>>

\* The row of a run joins its metrics with its manifest.
JoinManifest ==
    /\ pool.at = "manifest"
    /\ LET manifest == dir[pool.run].manifest
           row == [best |-> manifest.best, metrics |-> pool.metrics]
       IN  pool' = IF manifest.label = pool.metrics.label
                   THEN [at |-> "metrics", run |-> pool.run + 1,
                         metrics |-> None, rows |-> Append(pool.rows, row)]
                   ELSE Idle
    /\ UNCHANGED <<source, service, dir, at, mem>>

Compatible(rows) ==
    \A i, j \in DOMAIN rows : rows[i].metrics.label = rows[j].metrics.label

Publish ==
    /\ pool.at = "metrics"
    /\ pool.run \notin Runs
    /\ pool' = IF Compatible(pool.rows) THEN [pool EXCEPT !.at = "published"]
                                        ELSE Idle
    /\ UNCHANGED <<source, service, dir, at, mem>>

AggregateDies ==
    /\ pool.at \in {"metrics", "manifest"}
    /\ pool' = Idle
    /\ UNCHANGED <<source, service, dir, at, mem>>

Next ==
    \/ EditSource
    \/ UpgradeService
    \/ \E r \in Runs :
          \/ StartTraining(r) \/ BeginAttempt(r)
          \/ CommitEpoch(r) \/ MarkBest(r) \/ EndTraining(r)
          \/ BeginEvaluation(r) \/ CopyModel(r) \/ WriteExport(r) \/ UseExisting(r)
          \/ Measure(r) \/ WriteTrajectory(r) \/ WriteMetrics(r)
          \/ Return(r) \/ Die(r)
    \/ StartAggregate \/ ReadMetrics \/ JoinManifest
    \/ Publish \/ AggregateDies

Spec == Init /\ [][Next]_vars

-----------------------------------------------------------------------------
(* Properties. *)

Stages ==
    {"free", "starting", "training", "marking", "copying",
     "exporting", "looking", "measured", "reporting", "returned"}

\* The files of a run, the memory of a command, and the aggregate.
Files ==
    [identity : Label \cup {None}, preflight : Versions \cup {None},
     manifest : Manifest \cup {None}, epoch : 0..LastEpoch,
     codes : SUBSET Codes, stateBest : Model \cup {None}, stopped : BOOLEAN,
     best : Model \cup {None}, artifact : Model \cup {None, Torn},
     export : Model \cup {None}, trajectory : Trajectory \cup {None},
     metrics : Metrics \cup {None}]

Memory ==
    [code : Codes \cup {None}, label : Label \cup {None}, onward : BOOLEAN,
     force : BOOLEAN, served : Versions \cup {None}]

Aggregate ==
    [at : {"idle", "metrics", "manifest", "published"}, run : 1..(RunCount + 1),
     metrics : Metrics \cup {None}, rows : Seq(Row)]

TypeOK ==
    /\ source \in Codes
    /\ service \in Versions
    /\ dir \in [Runs -> Files]
    /\ at \in [Runs -> Stages]
    /\ mem \in [Runs -> Memory]
    /\ pool \in Aggregate

\* The code a report names is the only one that trained its model, and the
\* one that measured it, however the source is edited between commands
\* (cli.py:87, evaluation.py:63-68).
LabelsTruthful ==
    \A r \in Runs : dir[r].metrics # None =>
        /\ dir[r].metrics.model.codes = {dir[r].metrics.label.code}
        /\ dir[r].metrics.rollout.code = dir[r].metrics.label.code

\* The published tables never pool rows of different source fingerprints or
\* service versions, as far as their labels say (docs/REPRODUCIBILITY.md),
\* although runs are read one after the other while others write.
NeverPooled ==
    pool.at = "published" => \A i, j \in DOMAIN pool.rows :
        pool.rows[i].metrics.label = pool.rows[j].metrics.label

\* What is reported and what is pooled is labelled as it was trained and measured.
LabelsKept == LabelsTruthful /\ NeverPooled

\* When an evaluation returns, the exported model, its manifest, the report
\* and best.json are about one model, whatever died before: "final
\* evaluation loads `best`, not `latest`" (README.md).
OneModelReturned ==
    \A r \in Runs : at[r] = "returned" =>
        /\ dir[r].best # None
        /\ dir[r].artifact = dir[r].best
        /\ dir[r].export = dir[r].best
        /\ dir[r].metrics.model = dir[r].best

\* A report never names a trajectory newer than the one on disk, and what it
\* names was rolled out with its model (evaluation.py:302, 317).
TrajectoryFirst ==
    \A r \in Runs : dir[r].metrics # None =>
        /\ dir[r].trajectory # None
        /\ dir[r].metrics.rollout.number <= dir[r].trajectory.number
        /\ dir[r].metrics.rollout.model = dir[r].metrics.model

\* What an evaluation returns is about the best model, and so is its trajectory.
OneModelReported == OneModelReturned /\ TrajectoryFirst

\* "rejects mixed ... BOPTEST versions instead of silently computing a pooled
\* statistic" (docs/REPRODUCIBILITY.md): the rows were measured on one version.
MeasuredAlike ==
    pool.at = "published" => \A i, j \in DOMAIN pool.rows :
        pool.rows[i].metrics.rollout.served =
            pool.rows[j].metrics.rollout.served

\* The best epoch of a row is that of the model its metrics are about
\* (README.md: the evaluator reports cost, ..., best epoch).
RowsOfOneModel ==
    pool.at = "published" => \A i \in DOMAIN pool.rows :
        pool.rows[i].best = pool.rows[i].metrics.model.epoch
=============================================================================
