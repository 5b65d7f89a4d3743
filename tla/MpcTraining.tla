----------------------------- MODULE MpcTraining ------------------------------
(***************************************************************************)
(* One command of h3c_baselines/mpc/training.py, train_hierarchical_mpc:    *)
(* for every case it selects one BOPTEST test per lane, collects episodes   *)
(* in batches of threads that share the lanes, searches the checkpoints for *)
(* a model, stops the lanes and stages the model; after the last case it    *)
(* moves the staged models to models/mpc.  What it leaves may be the source *)
(* of an offline refit (mpc/refit.py), whose gate is RefitSource.           *)
(*                                                                          *)
(* Lanes, threads and episodes are numbered from 0 as in the code, the test *)
(* of lane l of case c is <<c, l>>.                                         *)
(***************************************************************************)
EXTENDS Integers, Sequences, FiniteSets, SequencesExt

CONSTANTS
    NumCases,      \* cases, trained in order
    WorkerCounts,       \* the worker counts the command line may give
    ModelLanes,    \* lanes a frozen model and a refit source must show: 4
    Holdouts,      \* hold-out episodes of a case: 4
    Checkpoints,   \* numbers of fit episodes that end in a checkpoint: 8, 16, 32, 64
    EpisodeSteps,  \* advances of an episode
    Rewards,       \* rewards of a validation
    Patience,      \* low improvements in a row that end the search: 2
    MinZero,       \* validations without fallback that a refit needs: 3
    MaxMpcFaults,  \* bound: requests and file operations that fail
    MaxMpcKills    \* bound: kills

(* What the constants must be. *)
ASSUME MpcTrainingAssumption ==
    /\ NumCases \in Nat \ {0} /\ ModelLanes \in Nat \ {0} /\ Holdouts \in Nat \ {0}
    /\ IsFiniteSet(WorkerCounts) /\ WorkerCounts \subseteq Nat \ {0} /\ WorkerCounts # {}
    /\ EpisodeSteps \in Nat \ {0} /\ Rewards \subseteq Int
    /\ Checkpoints \in Seq(Nat \ {0}) /\ Checkpoints # <<>>
    /\ \A i, j \in DOMAIN Checkpoints : i < j => Checkpoints[i] < Checkpoints[j]
    /\ Patience \in Nat \ {0} /\ MinZero \in Nat \ {0, 1}
    /\ MaxMpcFaults \in Nat /\ MaxMpcKills \in Nat

Cases == 1 .. NumCases
LaneIds(w) == 0 .. w - 1
TestIds == Cases \X LaneIds(Max(WorkerCounts))

VARIABLES
    workers,    \* --workers
    pc,         \* where the command is
    case,       \* the case it trains
    err,        \* an exception is on its way out of the case
    lanes,      \* the lanes of the case: initialisations, stops
    laneTests,  \* BOPTEST: state of each test, tasks that advanced it since its
                \* initialisation
    batch,      \* the batch being collected: its tasks and the cancel event
    search,     \* progress of _fit_case: next role, fits, checkpoint, candidates
    bank,       \* episodes/ of every case
    reports,    \* checkpoints/ of every case
    staged,     \* frozen_model/ of the cases trained
    installed,  \* cases moved to models/mpc
    done,       \* terminal files
    lostLanes,  \* tests nobody can stop: select or stop went wrong, or a kill
    mpcFaults, mpcKills

trainingVars == <<workers, pc, case, err, lanes, laneTests, batch, search, bank, reports,
                  staged, installed, done, lostLanes, mpcFaults, mpcKills>>
disk == <<bank, reports, staged, installed, done>>

NoBatch == [tasks |-> <<>>, cancel |-> FALSE]
NewSearch == [role |-> "holdout", fits |-> 0, at |-> 1, cands |-> <<>>, low |-> 0]

TrainingInit ==
    /\ workers \in WorkerCounts
    /\ pc = "selecting" /\ case = 1 /\ err = FALSE
    /\ lanes = <<>>
    /\ laneTests = [t \in TestIds |-> [st |-> "free", by |-> <<>>]]
    /\ batch = NoBatch /\ search = NewSearch
    /\ bank = {} /\ reports = {} /\ staged = <<>> /\ installed = {} /\ done = {}
    /\ lostLanes = {} /\ mpcFaults = 0 /\ mpcKills = 0

TrainingFault == mpcFaults < MaxMpcFaults /\ mpcFaults' = mpcFaults + 1
Checkpoint == Checkpoints[search.at]
LaneLive(t) == laneTests[t].st = "live"
Unwind == pc' = "closing" /\ err' = TRUE /\ search' = NewSearch

(***************************************************************************)
(* Lanes.  A test whose select fails after the allotment is in no lane.     *)
(***************************************************************************)
SelectLane ==
    /\ pc = "selecting" /\ Len(lanes) < workers
    /\ laneTests' = [laneTests EXCEPT ![<<case, Len(lanes)>>].st = "live"]
    /\ lanes' = Append(lanes, [inits |-> 0, stops |-> 0, tried |-> FALSE])
    /\ pc' = IF Len(lanes') = workers THEN "searching" ELSE "selecting"
    /\ UNCHANGED <<workers, case, err, batch, search, disk, lostLanes, mpcFaults, mpcKills>>

LaneSelectFails ==
    /\ pc = "selecting" /\ Len(lanes) < workers /\ TrainingFault
    /\ \/ /\ laneTests' = [laneTests EXCEPT ![<<case, Len(lanes)>>].st = "live"]
          /\ lostLanes' = lostLanes \cup {<<case, Len(lanes)>>}
       \/ UNCHANGED <<laneTests, lostLanes>>
    /\ Unwind
    /\ UNCHANGED <<workers, case, lanes, batch, disk, mpcKills>>

(***************************************************************************)
(* Batches: collect_batch and _collect_episode.                            *)
(***************************************************************************)
Count ==
    CASE search.role = "holdout" -> Holdouts
      [] search.role = "fit"     -> Min({workers, Checkpoint - search.fits})
      [] OTHER                   -> 1
First ==
    CASE search.role = "fit"        -> search.fits
      [] search.role = "validation" -> Checkpoint
      [] OTHER                      -> 0

Tasks == 0 .. Len(batch.tasks) - 1
Task(i) == batch.tasks[i + 1]
LaneOf(i) == <<case, i % workers>>
Running == {i \in Tasks : Task(i).st = "running"}
Put(i, task) == [batch EXCEPT !.tasks[i + 1] = task]
Fail(i) == [batch EXCEPT !.tasks[i + 1].st = "failed", !.cancel = TRUE]

StartBatch ==
    /\ pc = "searching" /\ batch = NoBatch /\ search.role # "report"
    /\ batch' = [NoBatch EXCEPT !.tasks =
                    [i \in 1 .. Count |-> [st |-> "pending", did |-> 0, seen |-> <<>>]]]
    /\ UNCHANGED <<workers, pc, case, err, lanes, laneTests, search, disk, lostLanes,
                   mpcFaults, mpcKills>>

(* The wall clock is looked at here only; the fit before a validation may   *)
(* raise as well.                                                           *)
NoBatchMore ==
    /\ pc = "searching" /\ batch = NoBatch
    /\ Unwind
    /\ UNCHANGED <<workers, case, lanes, laneTests, batch, disk, lostLanes, mpcFaults,
                   mpcKills>>

(* The pool has one thread per lane and takes the tasks in order: with more *)
(* tasks than lanes a thread may take up a lane another one still uses.     *)
Begin(i) ==
    /\ Task(i).st = "pending" /\ ~batch.cancel
    /\ \A j \in Tasks : j < i => Task(j).st # "pending"
    /\ Cardinality(Running) < workers
    /\ laneTests' = [laneTests EXCEPT ![LaneOf(i)].by = <<>>]
    /\ lanes' = [lanes EXCEPT ![(i % workers) + 1].inits = @ + 1]
    /\ batch' = Put(i, [Task(i) EXCEPT !.st = "running"])
    /\ UNCHANGED <<workers, pc, case, err, search, disk, lostLanes, mpcFaults, mpcKills>>

(* require_time: the reply carries the time this episode expects next.      *)
InTimeAlways(i, by) == TRUE                                              \* mutant
InTime(i, by) == Len(by) = Task(i).did + 1

Step(i) ==
    /\ i \in Running /\ Task(i).did < EpisodeSteps
    /\ IF batch.cancel
       THEN batch' = Fail(i) /\ UNCHANGED laneTests
       ELSE LET by == Append(laneTests[LaneOf(i)].by, i)
            IN  /\ laneTests' = [laneTests EXCEPT ![LaneOf(i)].by = by]
                /\ batch' = IF InTime(i, by)
                            THEN Put(i, [st |-> "running", did |-> Task(i).did + 1, seen |-> by])
                            ELSE Fail(i)
    /\ UNCHANGED <<workers, pc, case, err, lanes, search, disk, lostLanes, mpcFaults,
                   mpcKills>>

(* A saved episode.                                                         *)
Save(i) ==
    /\ i \in Running /\ Task(i).did = EpisodeSteps
    /\ bank' = bank \cup {[case |-> case, role |-> search.role, no |-> First + i,
                           lane |-> i % workers,
                           alone |-> Task(i).seen = [s \in 1 .. EpisodeSteps |-> i]]}
    /\ batch' = Put(i, [Task(i) EXCEPT !.st = "done"])
    /\ UNCHANGED <<workers, pc, case, err, lanes, laneTests, search, reports, staged,
                   installed, done, lostLanes, mpcFaults, mpcKills>>

EpisodeFails(i) ==
    /\ i \in Running /\ TrainingFault
    /\ batch' = Fail(i)
    /\ UNCHANGED <<workers, pc, case, err, lanes, laneTests, search, disk, lostLanes,
                   mpcKills>>

(* A failed batch ends when its running tasks have; the pending ones are    *)
(* cancelled.                                                               *)
AllAwaited == Running = {} /\ (batch.cancel \/ \A i \in Tasks : Task(i).st = "done")

NextRole(fits) ==
    CASE search.role = "holdout" -> "basic_reference"
      [] search.role = "validation" -> "report"
      [] search.role = "fit" /\ fits = Checkpoint -> "validation"
      [] OTHER -> "fit"

EndBatch ==
    /\ pc = "searching" /\ batch # NoBatch /\ AllAwaited
    /\ batch' = NoBatch
    /\ IF batch.cancel
       THEN Unwind
       ELSE LET fits == search.fits + (IF search.role = "fit" THEN Count ELSE 0)
            IN  /\ search' = [search EXCEPT !.fits = fits, !.role = NextRole(fits)]
                /\ UNCHANGED <<pc, err>>
    /\ UNCHANGED <<workers, case, lanes, laneTests, disk, lostLanes, mpcFaults, mpcKills>>

(***************************************************************************)
(* The search for a model.                                                 *)
(***************************************************************************)
Abs(n) == IF n < 0 THEN -n ELSE n
Low(reward) ==
    /\ search.cands # <<>>
    /\ LET prev == Last(search.cands).reward IN (reward - prev) * 100 < Abs(prev)

Eligible(report) == report.good /\ report.zero

(* "zero": no fallback; "good": beats persistence and keeps the peak low.   *)
(* What is bad in both ways counts like what has a fallback.                *)
Report(zero, good, reward) ==
    /\ pc = "searching" /\ search.role = "report" /\ (zero \/ good)
    /\ LET found == Eligible([zero |-> zero, good |-> good])
           report == [case |-> case, at |-> Checkpoint, zero |-> zero, good |-> good,
                      reward |-> IF found THEN reward ELSE 0]
           cands == IF found THEN Append(search.cands, report) ELSE search.cands
           low == IF ~found THEN search.low ELSE IF Low(reward) THEN search.low + 1 ELSE 0
           over == (found /\ low >= Patience) \/ search.at = Len(Checkpoints)
       IN  /\ reports' = reports \cup {report}
           /\ search' = [search EXCEPT !.cands = cands, !.low = low,
                                       !.role = IF over THEN "over" ELSE "fit",
                                       !.at = IF over THEN @ ELSE @ + 1]
           /\ pc' = IF over THEN "closing" ELSE "searching"
           /\ err' = (over /\ cands = <<>>)
    /\ UNCHANGED <<workers, case, lanes, laneTests, batch, bank, staged, installed, done,
                   lostLanes, mpcFaults, mpcKills>>

(***************************************************************************)
(* The end of a case: every lane is stopped, the model is staged.           *)
(***************************************************************************)
NextLane == SelectInSeq(lanes, LAMBDA lane : ~lane.tried)

StopLane ==
    /\ pc = "closing" /\ NextLane # 0
    /\ lanes' = [lanes EXCEPT ![NextLane].tried = TRUE, ![NextLane].stops = 1]
    /\ laneTests' = [laneTests EXCEPT ![<<case, NextLane - 1>>].st = "stopped"]
    /\ UNCHANGED <<workers, pc, case, err, batch, search, disk, lostLanes, mpcFaults,
                   mpcKills>>

LaneStopFails ==
    /\ pc = "closing" /\ NextLane # 0 /\ TrainingFault
    /\ lanes' = [lanes EXCEPT ![NextLane].tried = TRUE]
    /\ lostLanes' = lostLanes \cup {<<case, NextLane - 1>>}
    /\ err' = TRUE
    /\ UNCHANGED <<workers, pc, case, laneTests, batch, search, disk, mpcKills>>

(* max keeps the first of equals.                                           *)
Best(cands) ==
    cands[CHOOSE i \in DOMAIN cands :
             \A j \in DOMAIN cands : \/ cands[j].reward < cands[i].reward
                                     \/ cands[j].reward = cands[i].reward /\ i <= j]

(* _verify_mpc_model_directory on a schema 1 model.                         *)
LanesValid ==
    /\ Len(lanes) = ModelLanes
    /\ \A l \in DOMAIN lanes : lanes[l].inits > 0 /\ lanes[l].stops = 1

EndCase ==
    /\ pc = "closing" /\ NextLane = 0
    /\ IF err \/ ~LanesValid
       THEN pc' = "failing" /\ lanes' = <<>> /\ UNCHANGED <<case, search, staged>>
       ELSE /\ staged' = Append(staged, Best(search.cands))
            /\ IF case = NumCases
               THEN pc' = "installing" /\ UNCHANGED <<case, lanes, search>>
               ELSE /\ pc' = "selecting" /\ case' = case + 1
                    /\ lanes' = <<>> /\ search' = NewSearch
    /\ UNCHANGED <<workers, err, laneTests, batch, bank, reports, installed, done,
                   lostLanes, mpcFaults, mpcKills>>

(***************************************************************************)
(* The end of the command, outside the lock.                               *)
(***************************************************************************)
Install ==
    /\ pc = "installing" /\ installed # Cases
    /\ installed' = installed \cup {Min(Cases \ installed)}
    /\ UNCHANGED <<workers, pc, case, err, lanes, laneTests, batch, search, bank, reports,
                   staged, done, lostLanes, mpcFaults, mpcKills>>

(* The secret scan, the directory or a move fails.                          *)
InstallFails ==
    /\ pc = "installing" /\ installed # Cases /\ TrainingFault
    /\ pc' = "failing"
    /\ UNCHANGED <<workers, case, err, lanes, laneTests, batch, search, disk, lostLanes,
                   mpcKills>>

MayComplete == installed = Cases

WriteCompletion ==
    /\ pc = "installing" /\ MayComplete
    /\ done' = done \cup {"completion"} /\ pc' = "completed"
    /\ UNCHANGED <<workers, case, err, lanes, laneTests, batch, search, bank, reports,
                   staged, installed, lostLanes, mpcFaults, mpcKills>>

WriteFailure ==
    /\ pc = "failing"
    /\ done' = done \cup {"failure"} /\ pc' = "failed"
    /\ UNCHANGED <<workers, case, err, lanes, laneTests, batch, search, bank, reports,
                   staged, installed, lostLanes, mpcFaults, mpcKills>>

Over == pc \in {"completed", "failed", "killed"}

KillTraining ==
    /\ ~Over /\ mpcKills < MaxMpcKills
    /\ mpcKills' = mpcKills + 1 /\ pc' = "killed"
    /\ lostLanes' = lostLanes \cup {t \in TestIds : LaneLive(t)}
    /\ batch' = NoBatch /\ search' = NewSearch /\ lanes' = <<>>
    /\ UNCHANGED <<workers, case, err, laneTests, disk, mpcFaults>>

TrainingNext ==
    \/ SelectLane \/ LaneSelectFails
    \/ StartBatch \/ NoBatchMore \/ EndBatch
    \/ pc = "searching" /\ \E i \in Tasks : Begin(i) \/ Step(i) \/ Save(i) \/ EpisodeFails(i)
    \/ \E zero, good \in BOOLEAN, reward \in Rewards : Report(zero, good, reward)
    \/ StopLane \/ LaneStopFails \/ EndCase
    \/ Install \/ InstallFails \/ WriteCompletion \/ WriteFailure
    \/ KillTraining
    \/ Over /\ UNCHANGED trainingVars

TrainingSpec == TrainingInit /\ [][TrainingNext]_trainingVars

-----------------------------------------------------------------------------
(***************************************************************************)
(* The gate of a refit: _resolve_source_run, _load_episode, _case_roles.    *)
(***************************************************************************)
Numbers(c, role) == {e.no : e \in {x \in bank : x.case = c /\ x.role = role}}
ReportsOf(c) == {r \in reports : r.case = c}
Zero(c) == {r \in ReportsOf(c) : r.zero}

CaseRoles(c) ==
    LET fits == Numbers(c, "fit")
        due == {n \in ToSet(Checkpoints) : n <= Cardinality(fits)}
    IN  /\ Cardinality(fits) \in ToSet(Checkpoints)
        /\ fits = 0 .. Cardinality(fits) - 1
        /\ \A e \in bank : e.case = c =>
               e.lane = IF e.role \in {"fit", "holdout"} THEN e.no % ModelLanes ELSE 0
        /\ {e.lane : e \in {x \in bank : x.case = c}} = LaneIds(ModelLanes)
        /\ Numbers(c, "basic_reference") = {0}
        /\ Numbers(c, "holdout") = 0 .. Holdouts - 1
        /\ Numbers(c, "validation") = due
        /\ {r.at : r \in ReportsOf(c)} = due
        /\ Cardinality(Zero(c)) >= MinZero

AnyCaseRoles == \E c \in Cases : CaseRoles(c)                            \* mutant
AllCaseRoles == \A c \in Cases : CaseRoles(c)

RefitSource == done = {"failure"} /\ workers = ModelLanes /\ AllCaseRoles

(* The validation that calibrates the margin, and those that join the fit.  *)
Calibration(c) == Max({r.at : r \in Zero(c)})
Adaptive(c) == {r.at : r \in {z \in Zero(c) : Cardinality({y \in Zero(c) : y.at < z.at}) < 2}}

-----------------------------------------------------------------------------
(* With fewer lanes than a batch has episodes two threads can share a test, *)
(* and an episode can be saved that another one reset half-way: its own     *)
(* time check does not see it.  The check of the other one does: a search   *)
(* that goes on, a staged model and a refit source rest on episodes that    *)
(* one thread alone advanced, and no lane is stopped under its thread.      *)
EpisodesAlone ==
    /\ pc = "searching" /\ batch = NoBatch => \A e \in bank : e.alone
    /\ \A e \in bank : e.case \in DOMAIN staged \/ RefitSource => e.alone
    /\ pc = "searching" \/ Over \/ Running = {}

(* An installed or staged model is the best of all eligible checkpoints of  *)
(* its case, was fitted on an unbroken run of episodes and validated        *)
(* without fallback, and the cases are staged in order.                     *)
StagedSound ==
    \A c \in DOMAIN staged :
        LET m == staged[c]
        IN  /\ m.case = c /\ m.zero /\ m.good
            /\ \A r \in ReportsOf(c) : r.zero /\ r.good => r.reward <= m.reward
            /\ 0 .. m.at - 1 \subseteq Numbers(c, "fit")
            /\ m.at \in Numbers(c, "validation")

(* A command that is over left one terminal file unless it was killed;      *)
(* completion means that every case is installed, and no test is left to    *)
(* BOPTEST but those whose select or stop went wrong.                       *)
EndTruthful ==
    /\ pc \in {"completed", "failed"} => Cardinality(done) = 1
    /\ pc = "killed" => done = {}
    /\ "completion" \in done => installed = Cases /\ Len(staged) = NumCases /\ lostLanes = {}
    /\ installed \subseteq DOMAIN staged
    /\ Over => \A t \in TestIds : LaneLive(t) => t \in lostLanes

(* A run that a refit accepts has searched every case at least to the       *)
(* MinZero-th clean validation; its calibration validation comes after the  *)
(* validations that join the fit, and on fits that are all there.           *)
RefitSourceWhole ==
    RefitSource =>
        /\ pc = "failed" /\ case = NumCases
        /\ \A c \in Cases :
            /\ Cardinality(Adaptive(c)) = 2
            /\ MinZero > 2 => \A n \in Adaptive(c) : n < Calibration(c)
            /\ 0 .. Calibration(c) - 1 \subseteq Numbers(c, "fit")
=============================================================================
