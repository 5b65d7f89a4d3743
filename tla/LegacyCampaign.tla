--------------------------- MODULE LegacyCampaign ---------------------------
(***************************************************************************)
(* The chain of legacy trainings: v3 (rl_retraining_v3.py) trains PPO and   *)
(* MAPPO and validates them, wave 2 (rl_retraining_wave2.py) retrains PPO   *)
(* next to the immutable v3 results, the continuation                       *)
(* (rl_hydronic_1h_continue_700.py) carries the wave-2 PPO and the v3 MAPPO *)
(* beyond their last epoch, evaluates and delivers.  Each stage registers   *)
(* the hashes of what it builds on.                                         *)
(*                                                                          *)
(* One command runs at a time; it may be killed or interrupted between any  *)
(* two file writes.  Bundles always load here: their writing is             *)
(* LegacyTraining.  A checkpoint is the part of the training state that     *)
(* later decisions read; a hash of files is the value they hold.            *)
(***************************************************************************)
EXTENDS Integers, FiniteSets

CONSTANTS
    Parent,        \* PARENT_EPOCH: the cap of v3 and wave 2, where the continuation starts
    Target,        \* the continuation's cap
    ParentBest,    \* the epoch at which the parent MAPPO must have its best
    ChainInterval, \* epochs between two train-week evaluations
    ChainMinEpoch, \* first epoch that may be judged converged
    Recent,        \* evaluations wave 2 judges C2 over: five
    FailFastEpoch, \* FAIL_FAST_EPOCH: first epoch wave 2 may give up at
    ScoresOf,      \* bound: train-week returns of each run
    MaxStops,      \* bound: commands killed, interrupted or failed
    MaxForced      \* bound: forced evaluations

ChainRuns == {"v3ppo", "v3mappo", "w2ppo", "cppo", "cmappo"}
Suites == {"v3", "w2", "c7"}

VARIABLES
    dir,        \* the run directories: pointers, manifest, rows of the CSV files
    inv,        \* the registered inventories of wave 2 and the continuation
    final,      \* the evaluation directories: progress and report
    audit,      \* mappo_best_audit.json, online
    delivery,   \* the delivery package
    op,         \* the command that is running
    stops, forced,
    history     \* what happened that the code does not defend against

(* What the constants must be.                                              *)
ASSUME LegacyCampaignAssumption ==
    /\ Parent \in Nat \ {0, 1} /\ Target \in Nat /\ Target > Parent
    /\ ParentBest \in 1 .. Parent - 1
    /\ ChainInterval \in Nat \ {0} /\ ChainMinEpoch \in Nat
    /\ Recent \in Nat /\ FailFastEpoch \in Nat
    /\ \A r \in ChainRuns : ScoresOf[r] \subseteq Nat \ {0}
    /\ MaxStops \in Nat /\ MaxForced \in Nat

chainVars == <<dir, inv, final, audit, delivery, op, stops, forced, history>>

NoState == [epoch |-> 0, best |-> 0, bestEpoch |-> 0, conv |-> FALSE, stop |-> FALSE,
            from |-> "scratch"]
NoRunFiles == [latest |-> NoState, best |-> NoState, rows |-> 0,
            manifest |-> [status |-> "none", epoch |-> 0, conv |-> FALSE]]
NotRegistered == [none |-> TRUE]
NoModels == [none |-> TRUE]
Idle == [pc |-> "idle", what |-> "none", st |-> NoState, newBest |-> FALSE,
         status |-> "complete", sig |-> NoModels]

ChainInit ==
    /\ dir = [r \in ChainRuns |-> NoRunFiles]
    /\ inv = [s \in {"w2", "c7"} |-> NotRegistered]
    /\ final = [s \in Suites |-> [sig |-> NoModels, done |-> {}, ended |-> FALSE,
                                  report |-> NoModels]]
    /\ audit = "none"
    /\ delivery = [signed |-> NoModels, copied |-> NoModels]
    /\ op = Idle
    /\ stops = 0 /\ forced = 0
    /\ history = {}

SuiteOf(r) == CASE r \in {"v3ppo", "v3mappo"} -> "v3" [] r = "w2ppo" -> "w2" [] OTHER -> "c7"
Cap(r) == IF SuiteOf(r) = "c7" THEN Target ELSE Parent

V3Complete(st) == st.conv \/ st.epoch >= Parent
W2Complete(st) == st.conv \/ st.stop \/ st.epoch >= Parent
(* The continuation runs to its cap whatever its verdicts say. *)
C7Complete(st) == st.epoch >= Target

Complete(r, st) ==
    CASE SuiteOf(r) = "v3" -> V3Complete(st)
      [] SuiteOf(r) = "w2" -> W2Complete(st)
      [] SuiteOf(r) = "c7" -> C7Complete(st)

RunFinished(r) == dir[r].latest # NoState /\ Complete(r, dir[r].latest)
HasBest(r) == dir[r].best # NoState

(***************************************************************************)
(* Inventories and preflights.                                             *)
(***************************************************************************)
W2Sources == [ppo |-> dir["v3ppo"], mappo |-> dir["v3mappo"], final |-> final["v3"]]
W2Present == dir["v3ppo"].rows > 0 /\ dir["v3mappo"].rows > 0

(* The continuation also wants the MAPPO bundle before the last, which      *)
(* pruning keeps only while it is one of the two newest.                    *)
C7Sources == [ppo |-> dir["w2ppo"], mappo |-> dir["v3mappo"]]
C7Present ==
    /\ dir["w2ppo"].rows > 0 /\ dir["v3mappo"].rows > 0
    /\ dir["v3mappo"].latest.epoch >= Parent - 1

W2CanRegister == W2Present /\ inv["w2"] \in {NotRegistered, W2Sources}
C7CanRegister == C7Present /\ inv["c7"] \in {NotRegistered, C7Sources}

(* The inventory is registered before anything else is looked at, so the    *)
(* preflight of an early call registers sources that will still change.     *)
Register(s, can, sources, settled) ==
    IF can THEN /\ inv' = [inv EXCEPT ![s] = sources]
                /\ history' = IF settled THEN history ELSE history \cup {"premature"}
    ELSE UNCHANGED <<inv, history>>
V3Register == UNCHANGED <<inv, history>>
W2Register ==
    Register("w2", W2CanRegister, W2Sources, final["v3"].report # NoModels)
C7Register ==
    Register("c7", C7CanRegister, C7Sources, RunFinished("w2ppo") /\ RunFinished("v3mappo"))

(* The diagnosis of the v3 failure reads its final validation.              *)
Diagnosed == final["v3"].report # NoModels
W2Passes == W2CanRegister /\ Diagnosed

MappoFits == dir["v3mappo"].latest.epoch = Parent /\ dir["v3mappo"].best.epoch = ParentBest
PpoFits == dir["w2ppo"].latest.epoch = Parent /\ dir["w2ppo"].best.epoch = Parent

C7Passes == C7CanRegister /\ audit = "passed" /\ MappoFits /\ PpoFits

(* The online preflight of the continuation: the audit replays the parent   *)
(* MAPPO's checkpoints; what it found is kept, a mismatch of the service is *)
(* not.                                                                     *)
AuditMappoBest ==
    /\ op.pc = "idle"
    /\ C7Register
    /\ C7CanRegister /\ audit = "none" /\ MappoFits
    /\ audit' \in {"passed", "failed"}
    /\ UNCHANGED <<dir, final, delivery, op, stops, forced>>

(***************************************************************************)
(* Training commands.                                                      *)
(***************************************************************************)
(* A finished run returns before it writes anything. *)
Started(r) ==
    [Idle EXCEPT !.pc = IF dir[r].latest = NoState /\ SuiteOf(r) = "c7" THEN "import" ELSE "epoch",
                 !.what = r, !.st = dir[r].latest]
Begin(r, ready) ==
    IF ready /\ ~RunFinished(r)
    THEN /\ op' = Started(r)
         /\ dir' = [dir EXCEPT ![r].manifest.status = "training"]
    ELSE UNCHANGED <<op, dir>>

Elsewhere == UNCHANGED <<final, audit, delivery, stops, forced>>

TrainV3PPO == op.pc = "idle" /\ V3Register /\ Begin("v3ppo", TRUE) /\ Elsewhere
TrainV3MAPPO == op.pc = "idle" /\ V3Register /\ Begin("v3mappo", RunFinished("v3ppo")) /\ Elsewhere
TrainW2PPO == op.pc = "idle" /\ W2Register /\ Begin("w2ppo", W2Passes) /\ Elsewhere
ContinuePPO == op.pc = "idle" /\ C7Register /\ Begin("cppo", C7Passes) /\ Elsewhere
ContinueMAPPO ==
    op.pc = "idle" /\ C7Register /\ Begin("cmappo", C7Passes /\ RunFinished("cppo")) /\ Elsewhere

(***************************************************************************)
(* Epochs.                                                                 *)
(***************************************************************************)
AtBoundary(epoch) == epoch % ChainInterval = 0

(* C1 to C4, with the thresholds as data. *)
Converges(epoch) == { c \in BOOLEAN : c => AtBoundary(epoch) /\ epoch >= ChainMinEpoch }

(* Wave 2 judges C2 over its last five evaluations, and needs all of them.  *)
W2Converges(epoch) == { c \in Converges(epoch) : c => epoch >= Recent * ChainInterval }

(* Wave 2 also gives up on a policy too wide or saturated. *)
GivesUp(epoch) == { s \in BOOLEAN : s => AtBoundary(epoch) /\ epoch >= FailFastEpoch }

TrainWeekReturns(r, epoch) == IF AtBoundary(epoch) THEN ScoresOf[r] ELSE {0}

(* A rollout and an update.                                                 *)
Trained(st) == [st EXCEPT !.epoch = @ + 1]

Scored(st, score) ==
    IF AtBoundary(st.epoch) /\ score > st.best
        THEN [st EXCEPT !.best = score, !.bestEpoch = st.epoch]
        ELSE st

(* An epoch is rolled out, scored, judged and saved: latest.json moves.     *)
SaveEpoch(r, verdicts, surrenders) ==
    LET epoch == op.st.epoch + 1
    IN /\ op.pc = "epoch" /\ op.what = r
       /\ \E score \in TrainWeekReturns(r, epoch), c \in verdicts, s \in surrenders :
              LET st == [Scored(Trained(op.st), score) EXCEPT !.conv = c, !.stop = s]
              IN /\ dir' = [dir EXCEPT ![r].latest = st]
                 /\ op' = [op EXCEPT !.pc = IF st.bestEpoch = epoch THEN "mark" ELSE "rows",
                                     !.st = st]
       /\ UNCHANGED <<inv, final, audit, delivery, stops, forced, history>>

V3PPOEpoch == SaveEpoch("v3ppo", Converges(op.st.epoch + 1), {FALSE})
V3MAPPOEpoch == SaveEpoch("v3mappo", Converges(op.st.epoch + 1), {FALSE})
W2PPOEpoch == SaveEpoch("w2ppo", W2Converges(op.st.epoch + 1), GivesUp(op.st.epoch + 1))
(* The verdicts of the continuation decide nothing and are left out. *)
ContinuationPPOEpoch == SaveEpoch("cppo", {FALSE}, {FALSE})
ContinuationMAPPOEpoch == SaveEpoch("cmappo", {FALSE}, {FALSE})

MarkRunBest(r) ==
    /\ op.pc = "mark" /\ op.what = r
    /\ dir' = [dir EXCEPT ![r].best = op.st]
    /\ op' = [op EXCEPT !.pc = "rows"]
    /\ UNCHANGED <<inv, final, audit, delivery, stops, forced, history>>

WriteRows(r) ==
    /\ op.pc = "rows" /\ op.what = r
    /\ dir' = [dir EXCEPT ![r].rows = op.st.epoch]
    /\ op' = [op EXCEPT !.pc = IF Complete(r, op.st) THEN "finish" ELSE "epoch"]
    /\ UNCHANGED <<inv, final, audit, delivery, stops, forced, history>>

(* The inventory is verified after the manifest, which only raises. *)
CloseManifest(r) ==
    /\ op.pc = "finish" /\ op.what = r
    /\ dir' = [dir EXCEPT ![r].manifest =
                  [status |-> op.status, epoch |-> dir[r].latest.epoch,
                   conv |-> dir[r].latest.conv]]
    /\ op' = Idle
    /\ UNCHANGED <<inv, final, audit, delivery, stops, forced, history>>

(***************************************************************************)
(* The imports of the continuation.                                        *)
(***************************************************************************)
(* PPO: the parent's last epoch is saved, then marked with the parent's     *)
(* best score.                                                              *)
FromBest == [dir["w2ppo"].best EXCEPT !.from = "best"]      \* mutant
PpoImport == [dir["w2ppo"].latest EXCEPT !.from = "latest"]

SavePpoImport ==
    /\ op.pc = "import" /\ op.what = "cppo"
    /\ dir' = [dir EXCEPT !["cppo"].latest = PpoImport]
    /\ op' = [op EXCEPT !.pc = "importMark", !.st = PpoImport]
    /\ UNCHANGED <<inv, final, audit, delivery, stops, forced, history>>

MarkPpoImport ==
    /\ op.pc = "importMark" /\ op.what = "cppo"
    /\ dir' = [dir EXCEPT !["cppo"].best = op.st]
    /\ op' = [op EXCEPT !.pc = "epoch"]
    /\ UNCHANGED <<inv, final, audit, delivery, stops, forced, history>>

(* MAPPO: the parent's best is saved and marked, and only then its last     *)
(* epoch saved.                                                             *)
SaveMappoBest ==
    /\ op.pc = "import" /\ op.what = "cmappo"
    /\ dir' = [dir EXCEPT !["cmappo"].latest = [dir["v3mappo"].best EXCEPT !.from = "best"]]
    /\ op' = [op EXCEPT !.pc = "importMark"]
    /\ UNCHANGED <<inv, final, audit, delivery, stops, forced, history>>

MarkMappoImport ==
    /\ op.pc = "importMark" /\ op.what = "cmappo"
    /\ dir' = [dir EXCEPT !["cmappo"].best = dir["cmappo"].latest]
    /\ op' = [op EXCEPT !.pc = "importLatest"]
    /\ UNCHANGED <<inv, final, audit, delivery, stops, forced, history>>

SaveMappoLatest ==
    LET imported == [dir["v3mappo"].latest EXCEPT !.from = "latest"]
    IN /\ op.pc = "importLatest"
       /\ dir' = [dir EXCEPT !["cmappo"].latest = imported]
       /\ op' = [op EXCEPT !.pc = "epoch", !.st = imported]
       /\ UNCHANGED <<inv, final, audit, delivery, stops, forced, history>>

(***************************************************************************)
(* The final evaluations.                                                  *)
(***************************************************************************)
(* The policies an evaluation rolls out, by the directory of their best     *)
(* checkpoint; the rule-based and the first legacy policies never change.   *)
Methods(s) ==
    CASE s = "v3" -> {"v3ppo", "v3mappo"}
      [] s = "w2" -> {"w2ppo", "v3ppo", "v3mappo"}
      [] s = "c7" -> {"w2ppo", "cppo", "v3mappo", "cmappo"}
Own(s) == { r \in Methods(s) : SuiteOf(r) = s }

UnfinishedToo(s) == \A r \in Own(s) : (s = "w2" \/ RunFinished(r)) /\ HasBest(r)  \* mutant
BothFinished(s) == \A r \in Own(s) : RunFinished(r) /\ HasBest(r)

(* The best checkpoints; the inventory's hash never changes once registered.*)
Signature(s) == [r \in Own(s) |-> dir[r].best]

(* A report of the same checkpoints is returned (the continuation builds    *)
(* the package again), of others refused; so is unfinished progress.        *)
OpenEvaluation(s, force) ==
    LET entry == final[s]
        fresh == force \/ (entry.report = NoModels /\ entry.sig = NoModels)
        start(pc) == [Idle EXCEPT !.pc = pc, !.what = s, !.sig = Signature(s)]
    IN /\ force => forced < MaxForced
       /\ forced' = forced + (IF force THEN 1 ELSE 0)
       /\ final' = IF fresh THEN [final EXCEPT ![s].sig = Signature(s), ![s].done = {},
                                               ![s].ended = FALSE]
                   ELSE final
       /\ op' = CASE fresh -> start("methods")
                  [] ~fresh /\ entry.report # NoModels
                        -> IF s = "c7" /\ entry.report.sig = Signature(s)
                              THEN start("copy") ELSE op
                  [] OTHER -> IF entry.sig = Signature(s) THEN start("methods") ELSE op
       /\ UNCHANGED <<dir, audit, delivery, stops>>

(* A forced evaluation of v3 rewrites files that wave 2 has registered.     *)
EvaluateV3(force) ==
    op.pc = "idle" /\ V3Register /\ BothFinished("v3") /\ OpenEvaluation("v3", force)
EvaluateW2(force) ==
    op.pc = "idle" /\ W2Register /\ W2Passes /\ BothFinished("w2") /\ OpenEvaluation("w2", force)
EvaluateExtension(force) ==
    op.pc = "idle" /\ C7Register /\ C7Passes /\ BothFinished("c7") /\ OpenEvaluation("c7", force)

RunMethod(s, r) ==
    /\ op.pc = "methods" /\ op.what = s
    /\ \A m \in final[s].done : m.policy # r
    /\ final' = [final EXCEPT ![s].done = @ \cup {[policy |-> r, model |-> dir[r].best]}]
    /\ UNCHANGED <<dir, inv, audit, delivery, op, stops, forced, history>>

V3Method == \E r \in Methods("v3") : RunMethod("v3", r)
W2Method == \E r \in Methods("w2") : RunMethod("w2", r)
C7Method == \E r \in Methods("c7") : RunMethod("c7", r)

Publish(s) ==
    /\ op.pc = "methods" /\ op.what = s
    /\ { m.policy : m \in final[s].done } = Methods(s)
    /\ final' = [final EXCEPT ![s].report = [sig |-> op.sig, metrics |-> final[s].done]]
    /\ op' = [op EXCEPT !.pc = "progress"]
    /\ UNCHANGED <<dir, inv, audit, delivery, stops, forced, history>>

V3Report == Publish("v3")
W2Report == Publish("w2")
C7Report == Publish("c7")

CloseProgress(s) ==
    /\ op.pc = "progress" /\ op.what = s
    /\ final' = [final EXCEPT ![s].ended = TRUE]
    /\ op' = IF s = "c7" THEN [op EXCEPT !.pc = "copy"] ELSE Idle
    /\ UNCHANGED <<dir, inv, audit, delivery, stops, forced, history>>

(* The package takes the best checkpoints of the moment and is signed with  *)
(* those of the report.                                                     *)
CopyDelivery ==
    /\ op.pc = "copy"
    /\ IF inv["c7"] = C7Sources /\ delivery.signed \in {NoModels, final["c7"].report.sig}
       THEN /\ delivery' = [delivery EXCEPT !.copied = Signature("c7")]
            /\ op' = [op EXCEPT !.pc = "sign"]
       ELSE /\ op' = Idle
            /\ UNCHANGED delivery
    /\ UNCHANGED <<dir, inv, final, audit, stops, forced, history>>

SignDelivery ==
    /\ op.pc = "sign"
    /\ delivery' = [delivery EXCEPT !.signed = final["c7"].report.sig]
    /\ op' = Idle
    /\ UNCHANGED <<dir, inv, final, audit, stops, forced, history>>

(***************************************************************************)
(* A command is killed, or interrupted and then still closes its manifest.  *)
(***************************************************************************)
Undone ==
    (IF op.pc \in {"mark", "importMark"} THEN {"unmarked"} ELSE {})
        \cup (IF op.what = "cmappo" /\ op.pc \in {"importMark", "importLatest"}
                 THEN {"halfImport"} ELSE {})

KillCommand ==
    /\ op.pc # "idle" /\ stops < MaxStops
    /\ stops' = stops + 1
    /\ history' = history \cup Undone
    /\ op' = Idle
    /\ UNCHANGED <<dir, inv, final, audit, delivery, forced>>

InterruptCommand ==
    /\ op.what \in ChainRuns /\ op.pc # "finish" /\ stops < MaxStops
    /\ stops' = stops + 1
    /\ history' = history \cup Undone
    /\ \E status \in {"failed", "interrupted"} :
           op' = [op EXCEPT !.pc = "finish", !.status = status]
    /\ UNCHANGED <<dir, inv, final, audit, delivery, forced>>

ChainNext ==
    \/ TrainV3PPO \/ TrainV3MAPPO \/ TrainW2PPO \/ ContinuePPO \/ ContinueMAPPO
    \/ V3PPOEpoch \/ V3MAPPOEpoch \/ W2PPOEpoch \/ ContinuationPPOEpoch \/ ContinuationMAPPOEpoch
    \/ \E r \in ChainRuns : MarkRunBest(r) \/ WriteRows(r) \/ CloseManifest(r)
    \/ AuditMappoBest
    \/ SavePpoImport \/ MarkPpoImport
    \/ SaveMappoBest \/ MarkMappoImport \/ SaveMappoLatest
    \/ \E force \in BOOLEAN : EvaluateV3(force) \/ EvaluateW2(force) \/ EvaluateExtension(force)
    \/ V3Method \/ W2Method \/ C7Method
    \/ V3Report \/ W2Report \/ C7Report
    \/ \E s \in Suites : CloseProgress(s)
    \/ CopyDelivery \/ SignDelivery
    \/ KillCommand \/ InterruptCommand

ChainSpec == ChainInit /\ [][ChainNext]_chainVars

(***************************************************************************)
(* Properties.                                                             *)
(***************************************************************************)
Importing == op.pc \in {"mark", "importMark", "importLatest"}

(* best.json is the epoch the state calls its best, with that score, in the *)
(* directories that trained it and in those that imported it, unless a      *)
(* command ended between the pointer and the mark.                          *)
ChainBestIsStatesBest ==
    history \cap {"unmarked", "halfImport"} = {} /\ ~Importing =>
        \A r \in ChainRuns :
            /\ dir[r].best.epoch = dir[r].latest.bestEpoch
            /\ dir[r].best.best = dir[r].latest.best

(* What a stage registered stays what it is: no later command, resumption   *)
(* or repeated call of an earlier stage changes a registered source, except *)
(* a forced evaluation and a registration made before the stage was ready.  *)
SourcesKept ==
    "premature" \notin history /\ forced = 0 =>
        /\ inv["w2"] \in {NotRegistered, W2Sources}
        /\ inv["c7"] \in {NotRegistered, C7Sources}

(* Every published report is about the best checkpoints that stand in the   *)
(* directories now, and its numbers are those checkpoints'; what was        *)
(* delivered is what was evaluated.                                         *)
ReportsCurrent ==
    /\ \A s \in Suites : final[s].report # NoModels =>
           /\ final[s].report.sig = Signature(s)
           /\ \A m \in final[s].report.metrics : m.model = dir[m.policy].best
    /\ delivery.signed # NoModels =>
           /\ delivery.copied = delivery.signed
           /\ delivery.signed = final["c7"].report.sig
           /\ \A r \in {"cppo", "cmappo"} : dir[r].latest.epoch = Target

(* Every epoch beyond the parent's descends from the parent's last epoch    *)
(* and not from its best, unless a command ended inside the MAPPO import.   *)
ContinuesParent ==
    \A r \in {"cppo", "cmappo"} :
        dir[r].latest.epoch >= Parent /\ "halfImport" \notin history
            => dir[r].latest.from = "latest"

(* The report of the continuation says that "Both latest epoch-500          *)
(* optimizer states were continued through epoch 700."                      *)
BothLatestContinued ==
    final["c7"].report # NoModels =>
        \A r \in {"cppo", "cmappo"} : dir[r].latest.from = "latest"
=============================================================================
