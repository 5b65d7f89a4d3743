----------------------------- MODULE MpcRegistry ------------------------------
(***************************************************************************)
(* The way of a hierarchical MPC model into models/mpc, over four kinds of  *)
(* commands of h3c_baselines/mpc that share one repository: training.py     *)
(* (its search is MpcTraining) moves the models of its cases itself; or     *)
(* refit.py fits candidates offline on the episodes of a failed training,   *)
(* validation.py runs every candidate once against BOPTEST, and registry.py *)
(* publishes a validated suite as one directory.  Each kind has a lock of   *)
(* its own, none protects models/mpc against the others.                    *)
(***************************************************************************)
EXTENDS Naturals, Sequences

CONSTANTS
    Trainings, Refits, Validations, Freezes,   \* the commands
    NumCases,                                  \* cases of the suite: 3
    Steps,                                     \* advances of a validation
    MaxFaults,                                 \* bound: requests and file operations that fail
    MaxKills                                   \* bound: kills

None == "none"
Nothing == <<>>

ASSUME MpcRegistryAssumption ==
    /\ None \notin Freezes
    /\ NumCases \in Nat \ {0} /\ Steps \in Nat \ {0}
    /\ MaxFaults \in Nat /\ MaxKills \in Nat

Cases == 1 .. NumCases
Arms == Validations \X Cases
ArmsOf(v) == {v} \X Cases
Kinds == {"training", "refit", "validation", "publication"}

VARIABLES
    train,    \* trainings: control state, whether every episode bank is whole
    refit,    \* refits: control state and source
    val,      \* validations: control state and refit
    arm,      \* the arms of each validation: control state, test, result
    tests,    \* BOPTEST: state and advances of each test since its initialisation
    freeze,   \* freezes: control state, validation, admission mode
    models,   \* models/mpc: present, case directories with their writer, suite manifest
    pending,  \* models/.mpc-<identity>.pending
    lock,     \* .training.lock, .refit.lock, .validation.lock, .mpc-publication.lock
    faults, kills

registryVars == <<train, refit, val, arm, tests, freeze, models, pending, lock, faults, kills>>
bound == <<faults, kills>>

NoArm == [pc |-> "off", test |-> Nothing, did |-> 0, err |-> FALSE, out |-> Nothing]

RegistryInit ==
    /\ train = [t \in Trainings |-> [pc |-> "idle", bank |-> FALSE]]
    /\ refit = [r \in Refits |-> [pc |-> "idle", source |-> None]]
    /\ val = [v \in Validations |-> [pc |-> "idle", refit |-> None]]
    /\ arm = [a \in Arms |-> NoArm]
    /\ tests = [a \in Arms |-> [st |-> "free", by |-> <<>>]]
    /\ freeze = [f \in Freezes |-> [pc |-> "idle", val |-> None, mode |-> None]]
    /\ models = [present |-> FALSE, dirs |-> {}, suite |-> None]
    /\ pending = {}
    /\ lock = [k \in Kinds |-> None]
    /\ faults = 0 /\ kills = 0

Fault == faults < MaxFaults /\ faults' = faults + 1
Writer(c) == {d[2] : d \in {x \in models.dirs : x[1] = c}}
Release(k) == lock' = [lock EXCEPT ![k] = None]

(* A command enters its locked section or is turned away.                   *)
Enter(k, p, free, taken) ==
    IF lock[k] = None THEN lock' = [lock EXCEPT ![k] = p] /\ free ELSE taken /\ UNCHANGED lock

(***************************************************************************)
(* Training.                                                               *)
(***************************************************************************)
TrainPc(t, pc) == train' = [train EXCEPT ![t].pc = pc]
TrainOnly == UNCHANGED <<refit, val, arm, tests, freeze, pending, kills>>

TrainStart(t) ==
    /\ train[t].pc = "idle"
    /\ TrainPc(t, IF models.dirs # {} THEN "refused" ELSE "checked")
    /\ UNCHANGED <<models, lock, faults>> /\ TrainOnly

TrainLock(t) ==
    /\ train[t].pc = "checked"
    /\ Enter("training", t, TrainPc(t, "searching"), TrainPc(t, "failing"))
    /\ UNCHANGED <<models, faults>> /\ TrainOnly

(* The search of all cases, and the release of the lock.                    *)
Search(t, staged, bank) ==
    /\ train[t].pc = "searching"
    /\ train' = [train EXCEPT ![t] = [pc |-> IF staged THEN "installing" ELSE "failing",
                                      bank |-> bank]]
    /\ Release("training")
    /\ UNCHANGED <<models, faults>> /\ TrainOnly

MakeRoot(t) ==
    /\ train[t].pc = "installing"
    /\ models' = [models EXCEPT !.present = TRUE]
    /\ TrainPc(t, "moving")
    /\ UNCHANGED <<lock, faults>> /\ TrainOnly

Moved(t) == {c \in Cases : t \in Writer(c)}

(* The models are moved one by one in the order of the cases; a directory   *)
(* is not moved over one that is there.                                     *)
NextMoveAround(t, c) == Writer(c) = {} /\ \A b \in 1 .. c - 1 : Writer(b) # {}  \* mutant
NextMove(t, c) == c \notin Moved(t) /\ \A b \in 1 .. c - 1 : b \in Moved(t)

Move(t) ==
    /\ train[t].pc = "moving"
    /\ \E c \in Cases :
          /\ NextMove(t, c)
          /\ IF Writer(c) = {}
             THEN models' = [models EXCEPT !.dirs = @ \cup {<<c, t>>}] /\ UNCHANGED train
             ELSE TrainPc(t, "failing") /\ UNCHANGED models
    /\ UNCHANGED <<lock, faults>> /\ TrainOnly

InstallFails(t) ==
    /\ train[t].pc \in {"installing", "moving"} /\ Moved(t) # Cases /\ Fault
    /\ TrainPc(t, "failing")
    /\ UNCHANGED <<models, lock>> /\ TrainOnly

TrainEnd(t) ==
    /\ \/ train[t].pc = "failing" /\ TrainPc(t, "failed")
       \/ train[t].pc = "moving" /\ Moved(t) = Cases /\ TrainPc(t, "completed")
    /\ UNCHANGED <<models, lock, faults>> /\ TrainOnly

(***************************************************************************)
(* Refit.  The run directory is made before the roles of the episodes are   *)
(* looked at: a source that is no good leaves it without terminal file.     *)
(***************************************************************************)
RefitPc(r, pc) == refit' = [refit EXCEPT ![r].pc = pc]
RefitOnly == UNCHANGED <<train, val, arm, tests, freeze, models, pending, bound>>

Source(t) == train[t].pc = "failed"

RefitStart(r, t) ==
    /\ refit[r].pc = "idle" /\ Source(t)
    /\ refit' = [refit EXCEPT ![r] = [pc |-> IF train[t].bank THEN "planned" ELSE "abandoned",
                                      source |-> t]]
    /\ UNCHANGED lock /\ RefitOnly

RefitLock(r) ==
    /\ refit[r].pc = "planned"
    /\ Enter("refit", r, RefitPc(r, "fitting"), RefitPc(r, "failing"))
    /\ RefitOnly

(* The candidate rebuilt from the episodes of the source is the stored one: *)
(* as long as the source is what it was.                                    *)
CandidateExact(r) == Source(refit[r].source) /\ train[refit[r].source].bank

(* Fits a candidate per case, and verifies it against a second fit.         *)
RefitFit(r, eligible) ==
    /\ refit[r].pc = "fitting"
    /\ RefitPc(r, IF eligible /\ CandidateExact(r) THEN "completing" ELSE "failing")
    /\ Release("refit")
    /\ RefitOnly

RefitEnd(r) ==
    /\ \/ refit[r].pc = "failing" /\ RefitPc(r, "failed")
       \/ refit[r].pc = "completing" /\ RefitPc(r, "completed")
    /\ UNCHANGED lock /\ RefitOnly

(* verify_refit_workspace.                                                  *)
RefitVerified(r) == refit[r].pc = "completed" /\ CandidateExact(r)

(***************************************************************************)
(* Validation: one thread per case, each on a fresh test.                   *)
(***************************************************************************)
ValPc(v, pc) == val' = [val EXCEPT ![v].pc = pc]
ValOnly == UNCHANGED <<train, refit, freeze, models, pending, kills>>

ValStart(v, r) ==
    /\ val[v].pc = "idle" /\ RefitVerified(r)
    /\ val' = [val EXCEPT ![v] = [pc |-> IF models.present THEN "refused" ELSE "planned",
                                  refit |-> r]]
    /\ UNCHANGED <<arm, tests, lock, faults>> /\ ValOnly

ValLock(v) ==
    /\ val[v].pc = "planned"
    /\ Enter("validation", v, ValPc(v, "running"), ValPc(v, "refused"))
    /\ UNCHANGED <<arm, tests, faults>> /\ ValOnly

Ended(out) == [NoArm EXCEPT !.pc = "ended", !.out = out]
Up(a) == val[a[1]].pc = "running"
ArmOnly == UNCHANGED <<val, lock>> /\ ValOnly

(* BOPTEST may by mistake hand out a test that another arm holds.           *)
ArmSelect(a, t) ==
    /\ Up(a) /\ arm[a].pc = "off"
    /\ IF t = a THEN tests' = [tests EXCEPT ![t].st = "live"] /\ UNCHANGED faults
                ELSE t[1] = a[1] /\ tests[t].st = "live" /\ Fault /\ UNCHANGED tests
    /\ arm' = [arm EXCEPT ![a].pc = "selected", ![a].test = t]
    /\ ArmOnly

ArmInitialize(a) ==
    /\ Up(a) /\ arm[a].pc = "selected" /\ tests[arm[a].test].st = "live"
    /\ tests' = [tests EXCEPT ![arm[a].test].by = <<>>]
    /\ arm' = [arm EXCEPT ![a].pc = "stepping"]
    /\ UNCHANGED faults /\ ArmOnly

ArmAdvance(a) ==
    LET by == Append(tests[arm[a].test].by, a)
    IN  /\ Up(a) /\ arm[a].pc = "stepping" /\ arm[a].did < Steps
        /\ tests[arm[a].test].st = "live"
        /\ tests' = [tests EXCEPT ![arm[a].test].by = by]
        /\ arm' = IF Len(by) = arm[a].did + 1
                  THEN [arm EXCEPT ![a].did = @ + 1,
                                   ![a].pc = IF arm[a].did + 1 = Steps THEN "closing" ELSE @]
                  ELSE [arm EXCEPT ![a].err = TRUE, ![a].pc = "closing"]
        /\ UNCHANGED faults /\ ArmOnly

ArmFails(a) ==
    /\ Up(a) /\ arm[a].pc \in {"off", "selected", "stepping"}
    /\ IF arm[a].test # Nothing /\ tests[arm[a].test].st = "stopped" THEN UNCHANGED faults ELSE Fault
    /\ arm' = IF arm[a].test = Nothing
              THEN [arm EXCEPT ![a] = Ended(Nothing)]
              ELSE [arm EXCEPT ![a].err = TRUE, ![a].pc = "closing"]
    /\ UNCHANGED tests /\ ArmOnly

(* Stop whatever the client holds; a test that another arm stopped before   *)
(* may or may not answer.                                                   *)
ArmStop(a, answers) ==
    /\ Up(a) /\ arm[a].pc = "closing"
    /\ IF answers \/ tests[arm[a].test].st = "stopped" THEN UNCHANGED faults ELSE Fault
    /\ tests' = IF answers THEN [tests EXCEPT ![arm[a].test].st = "stopped"] ELSE tests
    /\ arm' = IF arm[a].err \/ ~answers THEN [arm EXCEPT ![a] = Ended(Nothing)]
                                         ELSE [arm EXCEPT ![a].pc = "stopped"]
    /\ ArmOnly

(* The result recomputed from the recorded rows: steps with a fallback, and *)
(* whether rows, lifecycle and trajectory agree with each other.            *)
Recomputed(a, fallback, sound) == [test |-> arm[a].test, fallback |-> fallback, sound |-> sound]
EvidenceAgrees(sound) == IF sound THEN UNCHANGED faults ELSE Fault

(* completion.json, or nothing at all when the recomputation raises.        *)
ArmComplete(a, fallback, sound) ==
    /\ Up(a) /\ arm[a].pc = "stopped"
    /\ EvidenceAgrees(sound)
    /\ \/ arm' = [arm EXCEPT ![a] = Ended(Recomputed(a, fallback, sound))]
       \/ ~sound /\ arm' = [arm EXCEPT ![a] = Ended(Nothing)]
    /\ UNCHANGED tests /\ ArmOnly

ValCollect(v) ==
    /\ val[v].pc = "running" /\ \A a \in ArmsOf(v) : arm[a].pc = "ended"
    /\ ValPc(v, "collected") /\ Release("validation")
    /\ UNCHANGED <<arm, tests, faults>> /\ ValOnly

(* _suite_evidence_checks.                                                  *)
AllDone(v) == \A a \in ArmsOf(v) : arm[a].out # Nothing
AnyTests(v) == TRUE                                                      \* mutant
FreshTests(v) ==
    \A a, b \in ArmsOf(v) : a # b => arm[a].out.test # arm[b].out.test
AllEligible(v) == \A a \in ArmsOf(v) : arm[a].out.sound /\ ~arm[a].out.fallback
ChecksPass(v) ==
    RefitVerified(val[v].refit) /\ AllDone(v) /\ FreshTests(v) /\ AllEligible(v)

ValEnd(v) ==
    /\ val[v].pc = "collected"
    /\ ValPc(v, IF ChecksPass(v) THEN "completed" ELSE "failed")
    /\ UNCHANGED <<arm, tests, lock, faults>> /\ ValOnly

(***************************************************************************)
(* Publication.                                                            *)
(***************************************************************************)
FreezePc(f, pc) == freeze' = [freeze EXCEPT ![f].pc = pc]
FreezeOnly == UNCHANGED <<train, refit, val, arm, tests, kills>>

(* "degraded": the only failed check is that some arm fell back.            *)
Admissible(v, mode) ==
    CASE mode = "strict"   -> val[v].pc = "completed" /\ ChecksPass(v)
      [] mode = "degraded" ->
            /\ val[v].pc = "failed" /\ RefitVerified(val[v].refit)
            /\ AllDone(v) /\ FreshTests(v)
            /\ \A a \in ArmsOf(v) : arm[a].out.sound
            /\ \E a \in ArmsOf(v) : arm[a].out.fallback

(* The identity of a freeze is that of its validation and mode.             *)
Bundle(f) == <<freeze[f].val, freeze[f].mode>>

FreezeStart(f, v, mode) ==
    /\ freeze[f].pc = "idle" /\ Admissible(v, mode)
    /\ LET free == ~models.present /\ <<v, mode>> \notin pending
       IN  /\ freeze' = [freeze EXCEPT ![f] = [pc |-> IF free THEN "staging" ELSE "refused",
                                               val |-> v, mode |-> mode]]
           /\ pending' = IF free THEN pending \cup {<<v, mode>>} ELSE pending
    /\ UNCHANGED <<models, lock, faults>> /\ FreezeOnly

(* The staged suite is verified, and its validation once more; what fails   *)
(* stays in the pending directory.                                          *)
StagedValid(f) == Admissible(freeze[f].val, freeze[f].mode)

FreezeStage(f, ok) ==
    /\ freeze[f].pc = "staging"
    /\ IF ok THEN UNCHANGED faults ELSE Fault
    /\ FreezePc(f, IF ok /\ StagedValid(f) THEN "staged" ELSE "failed")
    /\ UNCHANGED <<models, pending, lock>> /\ FreezeOnly

FreezeLock(f) ==
    /\ freeze[f].pc = "staged"
    /\ Enter("publication", f, FreezePc(f, "locked"), FreezePc(f, "failed"))
    /\ UNCHANGED <<models, pending, faults>> /\ FreezeOnly

FreezeCheck(f) ==
    /\ freeze[f].pc = "locked"
    /\ IF models.present THEN FreezePc(f, "failed") /\ Release("publication")
                         ELSE FreezePc(f, "replacing") /\ UNCHANGED lock
    /\ UNCHANGED <<models, pending, faults>> /\ FreezeOnly

(* A directory replaces an empty one where the system allows it, never one  *)
(* with something in it.                                                    *)
MayReplace == models.dirs = {}

FreezeReplace(f) ==
    /\ freeze[f].pc = "replacing"
    /\ \/ /\ MayReplace
          /\ models' = [present |-> TRUE, dirs |-> Cases \X {f}, suite |-> f]
          /\ pending' = pending \ {Bundle(f)}
          /\ FreezePc(f, "replaced") /\ UNCHANGED lock
       \/ /\ models.present
          /\ FreezePc(f, "failed") /\ Release("publication")
          /\ UNCHANGED <<models, pending>>
    /\ UNCHANGED faults /\ FreezeOnly

FreezeEnd(f) ==
    /\ freeze[f].pc = "replaced"
    /\ FreezePc(f, "completed") /\ Release("publication")
    /\ UNCHANGED <<models, pending, faults>> /\ FreezeOnly

(***************************************************************************)
(* A killed command leaves its directories and its lock.  Nothing reads the *)
(* arms of a validation that has no terminal file.                          *)
(***************************************************************************)
Kill ==
    /\ kills < MaxKills /\ kills' = kills + 1
    /\ \/ \E t \in Trainings :
             /\ train[t].pc \in {"searching", "installing", "moving"} /\ TrainPc(t, "killed")
             /\ UNCHANGED <<refit, val, freeze>>
       \/ \E r \in Refits :
             /\ refit[r].pc \in {"fitting", "completing"} /\ RefitPc(r, "killed")
             /\ UNCHANGED <<train, val, freeze>>
       \/ \E v \in Validations :
             /\ val[v].pc \in {"running", "collected"} /\ ValPc(v, "killed")
             /\ UNCHANGED <<train, refit, freeze>>
       \/ \E f \in Freezes :
             /\ freeze[f].pc \in {"staging", "staged", "locked", "replacing", "replaced"}
             /\ FreezePc(f, "killed")
             /\ UNCHANGED <<train, refit, val>>
    /\ arm' = [a \in Arms |-> IF val'[a[1]].pc = "killed" THEN Ended(Nothing) ELSE arm[a]]
    /\ UNCHANGED <<tests, models, pending, lock, faults>>

TrainNext(t) ==
    \/ TrainStart(t) \/ TrainLock(t) \/ (\E s, b \in BOOLEAN : Search(t, s, b))
    \/ MakeRoot(t) \/ Move(t) \/ InstallFails(t) \/ TrainEnd(t)
RefitNext(r) ==
    \/ (\E t \in Trainings : RefitStart(r, t)) \/ RefitLock(r)
    \/ (\E eligible \in BOOLEAN : RefitFit(r, eligible)) \/ RefitEnd(r)
ArmNext(a) ==
    \/ (\E t \in Arms : ArmSelect(a, t)) \/ ArmInitialize(a) \/ ArmAdvance(a) \/ ArmFails(a)
    \/ (\E answers \in BOOLEAN : ArmStop(a, answers))
    \/ (\E fallback, sound \in BOOLEAN : ArmComplete(a, fallback, sound))
ValNext(v) == (\E r \in Refits : ValStart(v, r)) \/ ValLock(v) \/ ValCollect(v) \/ ValEnd(v)
FreezeNext(f) ==
    \/ (\E v \in Validations, mode \in {"strict", "degraded"} : FreezeStart(f, v, mode))
    \/ (\E ok \in BOOLEAN : FreezeStage(f, ok))
    \/ FreezeLock(f) \/ FreezeCheck(f) \/ FreezeReplace(f) \/ FreezeEnd(f)

RegistryNext ==
    \/ \E t \in Trainings : TrainNext(t)
    \/ \E r \in Refits : RefitNext(r)
    \/ \E v \in Validations : ValNext(v)
    \/ \E a \in Arms : ArmNext(a)
    \/ \E f \in Freezes : FreezeNext(f)
    \/ Kill

RegistrySpec == RegistryInit /\ [][RegistryNext]_registryVars

-----------------------------------------------------------------------------
(* models/mpc never mixes the models of two commands, although trainings    *)
(* and freezes do not exclude each other: a published suite is the whole    *)
(* suite of one freeze, and what else is there is what one training moved   *)
(* so far, a prefix of the cases.                                           *)
RegistryWhole ==
    /\ \A d, e \in models.dirs : d[2] = e[2]
    /\ models.suite # None => models.dirs = Cases \X {models.suite}
    /\ \A c \in Cases : Writer(c) # {} => \A b \in 1 .. c : Writer(b) # {}

(* A training or a freeze that reports success published what is there now: *)
(* nobody replaces it, and no second command succeeds after it.             *)
PublishedOnce ==
    /\ \A t \in Trainings : train[t].pc = "completed" => models.dirs = Cases \X {t}
    /\ \A f \in Freezes : freeze[f].pc \in {"replaced", "completed"} => models.suite = f

(* A published suite was validated as a whole: every case ran to its end on *)
(* a stopped test of its own that only its arm advanced, with a candidate   *)
(* from one refit of a failed training with whole episode banks; it is      *)
(* marked as degraded if and only if some case fell back.                   *)
SuiteValidated ==
    \A f \in Freezes : models.suite = f =>
        LET v == freeze[f].val
            source == refit[val[v].refit].source
        IN  /\ \A a \in ArmsOf(v) :
                  /\ arm[a].out # Nothing /\ arm[a].out.sound
                  /\ tests[arm[a].out.test].st = "stopped"
                  /\ tests[arm[a].out.test].by = [s \in 1 .. Steps |-> a]
            /\ (freeze[f].mode = "degraded") <=> (\E a \in ArmsOf(v) : arm[a].out.fallback)
            /\ train[source].pc = "failed" /\ train[source].bank
=============================================================================
