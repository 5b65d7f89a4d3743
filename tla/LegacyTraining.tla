--------------------------- MODULE LegacyTraining ---------------------------
(***************************************************************************)
(* The run directory of the legacy PPO workflow, rl_retraining_v2.py: the   *)
(* epoch bundles with their latest and best pointers, the manifest, the     *)
(* training lock, and the files that record which BOPTEST test belongs to   *)
(* which process.  Two launch slots share the directory; a launch trains or *)
(* evaluates the held-out week, and may be killed anywhere.                 *)
(*                                                                          *)
(* The four environment workers of a launch live and die with it and are    *)
(* one test; an epoch's rollout is one score; a bundle is the training state*)
(* it holds and the launch that wrote it, which is what its hashes tell     *)
(* apart.                                                                   *)
(***************************************************************************)
EXTENDS Integers, Sequences, FiniteSets, SequencesExt

CONSTANTS
    Slots,          \* launch slots: processes that may exist at the same time
    MaxEpochs,      \* total_cap_steps, in epochs
    EvalInterval,   \* epochs between two train-week evaluations
    MinEpoch,       \* first epoch that may be judged converged
    SaveRetries,    \* attempts of one save
    Scores,         \* train-week returns
    FollowOverlaps, \* bound: whether runs go on after launches worked on it together
    MaxLaunches,    \* bound: launches of all slots
    MaxKills,       \* bound: processes killed
    MaxFaults       \* bound: requests, saves and stops that fail

ASSUME LegacyTrainingAssumption ==
    /\ MaxEpochs \in Nat \ {0} /\ EvalInterval \in Nat \ {0} /\ MinEpoch \in Nat
    /\ SaveRetries \in Nat \ {0} /\ Scores \subseteq Nat \ {0}
    /\ FollowOverlaps \in BOOLEAN
    /\ MaxLaunches \in Nat /\ MaxKills \in Nat /\ MaxFaults \in Nat

VARIABLES
    latest, best,   \* latest.json and best.json
    bundles,        \* the files of each epoch: the data and the manifest
    order,          \* epochs in the order their manifests were last written
    manifest,       \* run_manifest.json
    report,         \* the final validation report
    lock,           \* the pid in training.lock, 0 when there is none
    active,         \* the pid in each owner's active file, 0 when there is none
    live,           \* tests at the service: the launch and the owner they serve
    proc,           \* the process in each slot
    launches, kills, faults,
    hist            \* what happened that the code does not defend against

disk == <<latest, best, bundles, order>>
counters == <<launches, kills, faults>>
vars == <<disk, manifest, report, lock, active, live, proc, counters, hist>>

Owners == {"forecast", "env", "week", "final"}
None == [epoch |-> 0]
Torn == [epoch |-> -1]
NoFiles == [data |-> None, manifest |-> None]

Fresh == [epoch |-> 0, best |-> 0, bestEpoch |-> 0, conv |-> FALSE]
NoProc == [pc |-> "idle", pid |-> 0, base |-> None, st |-> Fresh, newBest |-> FALSE,
           tries |-> 0, online |-> FALSE, status |-> "starting", sawFree |-> FALSE]

Init ==
    /\ latest = None /\ best = None
    /\ bundles = [e \in 1 .. MaxEpochs |-> NoFiles]
    /\ order = << >>
    /\ manifest = [status |-> "none", epochs |-> 0]
    /\ report = None
    /\ lock = 0
    /\ active = [o \in Owners |-> 0]
    /\ live = {}
    /\ proc = [p \in Slots |-> NoProc]
    /\ launches = 0 /\ kills = 0 /\ faults = 0
    /\ hist = {}

Goto(p, pc) == proc' = [proc EXCEPT ![p].pc = pc]
Fault(n) == faults + n <= MaxFaults /\ faults' = faults + n
Runs(pid) == \E p \in Slots : proc[p].pc # "idle" /\ proc[p].pid = pid

(***************************************************************************)
(* Tests and the files that record them.                                   *)
(***************************************************************************)
NobodyAlive(pid) == FALSE       \* mutant
PidIsAlive(pid) == Runs(pid)

(* A request that fails is asked again, a select too: when its answer was   *)
(* lost the service keeps a test nobody knows of.                           *)
LostAnswers(p) == { {}, {<<proc[p].pid, "lost">>} }

SelectUnrecorded(p, o) ==       \* mutant
    /\ live' = live \cup {<<proc[p].pid, o>>}
    /\ UNCHANGED <<active, faults>>
Select(p, o) ==
    \E lost \in LostAnswers(p) :
        /\ Fault(Cardinality(lost))
        /\ live' = live \cup lost \cup {<<proc[p].pid, o>>}
        /\ active' = [active EXCEPT ![o] = proc[p].pid]

(* stop() unlinks the owner's file, whoever wrote it last; after three      *)
(* failures the test and the file stay, and every caller goes on.           *)
Stop(p, o) ==
    \/ /\ live' = live \ {<<proc[p].pid, o>>}
       /\ active' = [active EXCEPT ![o] = 0]
       /\ UNCHANGED <<faults, hist>>
    \/ /\ Fault(1)
       /\ hist' = hist \cup {"unstopped"}
       /\ UNCHANGED <<live, active>>

Stale(force) == { o \in Owners : active[o] # 0 /\ (force \/ ~PidIsAlive(active[o])) }

(* cleanup_stale_testids: every stale file's test is stopped, or stays with *)
(* its file when the service does not answer.                               *)
Cleanup(force, before) ==
    \E failed \in SUBSET Stale(force) :
        LET stopped == Stale(force) \ failed
        IN /\ Fault(Cardinality(failed))
           /\ live' = live \ { <<active[o], o>> : o \in stopped }
           /\ active' = [o \in Owners |-> IF o \in stopped THEN 0 ELSE active[o]]
           /\ hist' = before \cup (IF failed = {} THEN {} ELSE {"unstopped"})

(***************************************************************************)
(* Bundles and pointers: AtomicCheckpointManager.                          *)
(***************************************************************************)
Loads(pointer) ==
    /\ pointer # None
    /\ bundles[pointer.epoch] = [data |-> pointer, manifest |-> pointer]

BestForgotten(lat, bst, ord) ==
    {lat.epoch} \cup { ord[i] : i \in { i \in DOMAIN ord : i > Len(ord) - 2 } }       \* mutant
Pinned(lat, bst, ord) ==
    {lat.epoch, bst.epoch} \cup { ord[i] : i \in { i \in DOMAIN ord : i > Len(ord) - 2 } }

Prune(files, lat, bst, ord) ==
    LET kept == Pinned(lat, bst, ord)
    IN /\ bundles' = [e \in DOMAIN files |->
              IF e \notin kept /\ files[e].manifest # None THEN NoFiles ELSE files[e]]
       /\ order' = SelectSeq(ord, LAMBDA e : e \in kept)

Bundle(p) ==
    LET st == proc[p].st
    IN [epoch |-> st.epoch, best |-> st.best, bestEpoch |-> st.bestEpoch, conv |-> st.conv,
        by |-> proc[p].pid]
NextEpoch(p) == proc[p].st.epoch + 1

(* The first files of a bundle replace those of an earlier attempt or of a  *)
(* stale launch; its manifest is still the old one.                         *)
WriteFiles(p) ==
    /\ proc[p].pc = "files"
    /\ bundles' = [bundles EXCEPT ![proc[p].st.epoch].data = Torn]
    /\ Goto(p, "bundle")
    /\ UNCHANGED <<latest, best, order, manifest, report, lock, active, live, counters, hist>>

CommitBundle(p) ==
    LET e == proc[p].st.epoch
    IN /\ proc[p].pc = "bundle"
       /\ bundles' = [bundles EXCEPT ![e] = [data |-> Bundle(p), manifest |-> Bundle(p)]]
       /\ order' = Append(SelectSeq(order, LAMBDA x : x # e), e)
       /\ Goto(p, "pointer")
       /\ UNCHANGED <<latest, best, manifest, report, lock, active, live, counters, hist>>

Finished(st, epoch) == st.conv \/ epoch >= MaxEpochs

Continue(p) == IF Finished(proc[p].st, proc[p].st.epoch) THEN "trained" ELSE "rollout"

MovePointer(p) ==
    /\ proc[p].pc = "pointer"
    /\ latest' = Bundle(p)
    /\ Prune(bundles, Bundle(p), best, order)
    /\ Goto(p, IF proc[p].newBest THEN "mark" ELSE Continue(p))
    /\ UNCHANGED <<best, manifest, report, lock, active, live, counters, hist>>

MarkBest(p) ==
    /\ proc[p].pc = "mark"
    /\ best' = bundles[proc[p].st.epoch].manifest
    /\ Prune(bundles, latest, best', order)
    /\ Goto(p, Continue(p))
    /\ UNCHANGED <<latest, manifest, report, lock, active, live, counters, hist>>

(* An attempt fails before the pointer moved; the last one ends training.   *)
SaveFails(p) ==
    /\ proc[p].pc \in {"files", "bundle", "pointer"}
    /\ Fault(1)
    /\ proc' = [proc EXCEPT ![p] =
           IF @.tries + 1 < SaveRetries
               THEN [@ EXCEPT !.pc = "files", !.tries = proc[p].tries + 1]
               ELSE [@ EXCEPT !.pc = "leave", !.status = "failed"]]
    /\ UNCHANGED <<disk, manifest, report, lock, active, live, launches, kills, hist>>

(***************************************************************************)
(* A training launch, up to the lock.                                      *)
(***************************************************************************)
(* run_preflight: only a warning when a test could not be stopped. *)
Launch(p, first) ==
    /\ proc[p].pc = "idle" /\ launches < MaxLaunches
    /\ launches' = launches + 1
    /\ proc' = [proc EXCEPT ![p] = [NoProc EXCEPT !.pc = first, !.pid = launches + 1]]
    /\ Cleanup(FALSE, hist)
    /\ UNCHANGED <<disk, manifest, report, lock, kills>>

Restored(st) == st

StateOf(pointer) ==
    IF pointer = None THEN Fresh
    ELSE Restored([epoch |-> pointer.epoch, best |-> pointer.best,
                   bestEpoch |-> pointer.bestEpoch, conv |-> pointer.conv])

(* The latest checkpoint is read before the lock is taken.  A finished run  *)
(* returns; anything else first writes the manifest.                        *)
ReadLatest(p) ==
    /\ proc[p].pc = "read"
    /\ IF latest # None /\ (~Loads(latest) \/ Finished(latest, latest.epoch))
       THEN /\ proc' = [proc EXCEPT ![p] = NoProc]
            /\ UNCHANGED manifest
       ELSE /\ proc' = [proc EXCEPT ![p].pc = "check", ![p].base = latest,
                                    ![p].st = StateOf(latest)]
            /\ manifest' = [status |-> "starting", epochs |-> 0]
    /\ UNCHANGED <<disk, report, lock, active, live, counters, hist>>

(* RunLock.__enter__ looks for a live holder, then writes the file. *)
CheckLock(p) ==
    /\ proc[p].pc = "check"
    /\ proc' = [proc EXCEPT ![p] =
           IF lock # 0 /\ PidIsAlive(lock)
               THEN [@ EXCEPT !.pc = "cleanup", !.status = "failed"]
               ELSE [@ EXCEPT !.pc = "take", !.sawFree = ~Runs(lock)]]
    /\ UNCHANGED <<disk, manifest, report, lock, active, live, counters, hist>>

Training == {"forecast", "fetch", "build", "rollout", "week", "files", "bundle",
             "pointer", "mark", "trained", "leave"}
Closing == {"close", "cleanup"}
Evaluating == {"eforecast", "eload", "eroll", "epublish"}
Busy(p) == proc[p].pc \in Training \cup Evaluating \/ (proc[p].pc \in Closing /\ proc[p].online)

(* What lets two launches work on the directory at once although the lock   *)
(* does its work: the lock was taken after this launch found it free, it is *)
(* already released while its holder still closes, or the other evaluates.  *)
Undefended(p) ==
    /\ proc[p].sawFree
    /\ \E q \in Slots \ {p} : Busy(q)
    /\ \A q \in Slots \ {p} : proc[q].pc \in Training => lock = proc[q].pid

(* Also recorded: the tests of a launch that died after this one's          *)
(* preflight are not stopped before their files are overwritten.            *)
TakeLock(p) ==
    /\ proc[p].pc = "take"
    /\ lock' = proc[p].pid
    /\ proc' = [proc EXCEPT ![p].pc = "forecast", ![p].online = TRUE]
    /\ hist' = hist \cup (IF Undefended(p) THEN {"overlap"} ELSE {})
                    \cup (IF proc[p].base # latest THEN {"stale"} ELSE {})
                    \cup (IF \E o \in Owners : active[o] # 0 /\ ~Runs(active[o])
                             THEN {"unstopped"} ELSE {})
    /\ UNCHANGED <<disk, manifest, report, active, live, counters>>

(***************************************************************************)
(* Inside the lock.                                                        *)
(***************************************************************************)
SelectForecast(p, next) ==
    /\ Select(p, "forecast")
    /\ Goto(p, next)
    /\ UNCHANGED <<disk, manifest, report, lock, launches, kills, hist>>

(* The forecast's test is stopped whatever happened; then the fingerprint   *)
(* of the environment may refuse the resume.                                *)
FetchForecast(p) ==
    /\ proc[p].pc = "fetch"
    /\ Stop(p, "forecast")
    /\ proc' = [proc EXCEPT ![p].pc = "build"]
    /\ UNCHANGED <<disk, manifest, report, lock, launches, kills>>

FingerprintChanged(p) ==
    /\ proc[p].pc = "build" /\ proc[p].base # None /\ Fault(1)
    /\ proc' = [proc EXCEPT ![p].pc = "leave", ![p].status = "failed"]
    /\ UNCHANGED <<disk, manifest, report, lock, active, live, launches, kills, hist>>

(* The model is loaded from the path read before the lock. *)
Build(p) ==
    /\ proc[p].pc = "build"
    /\ Select(p, "env")
    /\ proc' = [proc EXCEPT ![p] =
           IF proc[p].base = None \/ bundles[proc[p].base.epoch].data \notin {None, Torn}
               THEN [@ EXCEPT !.pc = "rollout"]
               ELSE [@ EXCEPT !.pc = "leave", !.status = "failed"]]
    /\ UNCHANGED <<disk, manifest, report, lock, launches, kills, hist>>

(* One rollout and update; on an evaluation epoch the evaluator's test.     *)
Rollout(p) ==
    /\ proc[p].pc = "rollout"
    /\ IF NextEpoch(p) % EvalInterval = 0
       THEN Select(p, "week") ELSE UNCHANGED <<live, active, faults>>
    /\ Goto(p, "week")
    /\ UNCHANGED <<disk, manifest, report, lock, launches, kills, hist>>

Eligible(st) == st.epoch >= MinEpoch /\ st.bestEpoch # 0 /\ st.bestEpoch < st.epoch

(* Phase15fCallback.on_post_update up to the save. *)
ScoredWith(p, score) ==
    LET st == proc[p].st
    IN IF score > st.best
           THEN [st EXCEPT !.epoch = @ + 1, !.best = score, !.bestEpoch = NextEpoch(p)]
           ELSE [st EXCEPT !.epoch = @ + 1]

PostUpdate(p) ==
    /\ proc[p].pc = "week"
    /\ IF NextEpoch(p) % EvalInterval = 0
       THEN Stop(p, "week") ELSE UNCHANGED <<live, active, faults, hist>>
    /\ \E score \in IF NextEpoch(p) % EvalInterval = 0 THEN Scores ELSE {0} :
       \E conv \in BOOLEAN :
           LET st == ScoredWith(p, score)
           IN /\ conv => Eligible(st)
              /\ proc' = [proc EXCEPT ![p].pc = "files", ![p].tries = 0,
                                      ![p].st = [st EXCEPT !.conv = conv],
                                      ![p].newBest = st.bestEpoch = st.epoch]
    /\ UNCHANGED <<disk, manifest, report, lock, launches, kills>>

(* A request fails for good, or SIGTERM arrives; neither is caught before   *)
(* the end of the lock, but a test in use is stopped on the way.            *)
LeaveEarly(p) ==
    /\ proc[p].pc \in Training \ {"trained", "leave"}
    /\ Fault(1)
    /\ \E status \in {"failed", "interrupted"} :
           /\ status = "failed" => proc[p].pc \in {"fetch", "build", "rollout", "week"}
           /\ proc' = [proc EXCEPT ![p].pc = "leave", ![p].status = status]
    /\ live' = live \ { <<proc[p].pid, o>> : o \in {"forecast", "week"} }
    /\ active' = [o \in Owners |->
           IF <<proc[p].pid, o>> \in live /\ o \in {"forecast", "week"} THEN 0 ELSE active[o]]
    /\ hist' = hist \cup (IF proc[p].pc = "mark" THEN {"unmarked"} ELSE {})
    /\ UNCHANGED <<disk, manifest, report, lock, launches, kills>>

(***************************************************************************)
(* The way out: the lock first, then the environments, then every owner     *)
(* file, "any remaining owner files are stale".                             *)
(***************************************************************************)
Outcome(p) == IF proc[p].pc = "trained" THEN "complete" ELSE proc[p].status

LeaveLock(p) ==
    /\ proc[p].pc \in {"trained", "leave"}
    /\ lock' = IF lock = proc[p].pid THEN 0 ELSE lock
    /\ proc' = [proc EXCEPT ![p].pc = "close",
                            ![p].st = Fresh, ![p].base = None, ![p].newBest = FALSE, ![p].tries = 0,
                            ![p].status = Outcome(p)]
    /\ UNCHANGED <<disk, manifest, report, active, live, counters, hist>>

CloseEnvironments(p) ==
    /\ proc[p].pc = "close"
    /\ IF <<proc[p].pid, "env">> \in live
       THEN Stop(p, "env") ELSE UNCHANGED <<live, active, faults, hist>>
    /\ Goto(p, "cleanup")
    /\ UNCHANGED <<disk, manifest, report, lock, launches, kills>>

CleanUp(p) ==
    /\ proc[p].pc = "cleanup"
    /\ Cleanup(proc[p].online, hist)
    /\ Goto(p, "final")
    /\ UNCHANGED <<disk, manifest, report, lock, launches, kills>>

FinishManifest(p) ==
    /\ proc[p].pc = "final"
    /\ manifest' = IF latest = None THEN [status |-> proc[p].status, epochs |-> 0]
                   ELSE IF Loads(latest) THEN [status |-> proc[p].status, epochs |-> latest.epoch]
                   ELSE manifest
    /\ proc' = [proc EXCEPT ![p] = NoProc]
    /\ UNCHANGED <<disk, report, lock, active, live, counters, hist>>

(***************************************************************************)
(* evaluate_best: the held-out week, outside the lock.                     *)
(***************************************************************************)
(* Without a loadable best nothing is evaluated; a report of another best   *)
(* is only replaced when forced.                                            *)
ReadBest(p) ==
    /\ proc[p].pc = "ebest"
    /\ \E force \in BOOLEAN :
           proc' = [proc EXCEPT ![p] =
               IF Loads(best) /\ (report = None \/ force)
                   THEN [@ EXCEPT !.pc = "echeck", !.base = best] ELSE NoProc]
    /\ UNCHANGED <<disk, manifest, report, lock, active, live, counters, hist>>

LiveOwners == { o \in Owners : active[o] # 0 /\ PidIsAlive(active[o]) }

(* The check may see no test although somebody is at work between two. *)
CheckOwners(p) ==
    /\ proc[p].pc = "echeck"
    /\ Cleanup(FALSE, IF \E q \in Slots \ {p} : Busy(q)
                         THEN hist \cup {"overlap"} ELSE hist)
    /\ proc' = [proc EXCEPT ![p] =
           IF LiveOwners = {} THEN [@ EXCEPT !.pc = "eforecast"] ELSE NoProc]
    /\ UNCHANGED <<disk, manifest, report, lock, launches, kills>>

LoadBest(p) ==
    /\ proc[p].pc = "eload"
    /\ Stop(p, "forecast")
    /\ proc' = [proc EXCEPT ![p] =
           IF bundles[proc[p].base.epoch].data \notin {None, Torn}
               THEN [@ EXCEPT !.pc = "eroll"] ELSE NoProc]
    /\ UNCHANGED <<disk, manifest, report, lock, launches, kills>>

RolloutPolicy(p) ==
    /\ proc[p].pc = "eroll"
    /\ Select(p, "final")
    /\ Goto(p, "epublish")
    /\ UNCHANGED <<disk, manifest, report, lock, launches, kills, hist>>

PublishReport(p) ==
    /\ proc[p].pc = "epublish"
    /\ Stop(p, "final")
    /\ report' = proc[p].base
    /\ proc' = [proc EXCEPT ![p] = NoProc]
    /\ UNCHANGED <<disk, manifest, lock, launches, kills>>

(***************************************************************************)
(* A process is killed: its tests and files stay, and a test just selected  *)
(* may not have reached its file.                                           *)
(***************************************************************************)
Selecting == {"forecast", "build", "rollout", "eforecast", "eroll"}

Kill(p) ==
    /\ proc[p].pc # "idle" /\ kills < MaxKills
    /\ kills' = kills + 1
    /\ proc' = [proc EXCEPT ![p] = NoProc]
    /\ live' \in { live, live \cup { <<proc[p].pid, "lost">> :
                                     x \in {proc[p].pc} \cap Selecting } }
    /\ hist' = hist \cup {"killed"} \cup (IF proc[p].pc = "mark" THEN {"unmarked"} ELSE {})
    /\ UNCHANGED <<disk, manifest, report, lock, active, launches, faults>>

Step(p) ==
    \/ Launch(p, "read") \/ ReadLatest(p) \/ CheckLock(p) \/ TakeLock(p)
    \/ proc[p].pc = "forecast" /\ SelectForecast(p, "fetch")
    \/ FetchForecast(p) \/ FingerprintChanged(p) \/ Build(p)
    \/ Rollout(p) \/ PostUpdate(p)
    \/ WriteFiles(p) \/ CommitBundle(p) \/ MovePointer(p) \/ MarkBest(p) \/ SaveFails(p)
    \/ LeaveEarly(p) \/ LeaveLock(p) \/ CloseEnvironments(p) \/ CleanUp(p) \/ FinishManifest(p)
    \/ Launch(p, "ebest") \/ ReadBest(p) \/ CheckOwners(p)
    \/ proc[p].pc = "eforecast" /\ SelectForecast(p, "eload")
    \/ LoadBest(p) \/ RolloutPolicy(p) \/ PublishReport(p)

Alone == hist \cap {"overlap", "stale"} = {}

Next == (FollowOverlaps \/ Alone) /\ \E p \in Slots : Step(p) \/ Kill(p)

Spec == Init /\ [][Next]_vars

(***************************************************************************)
(* Properties.                                                             *)
(***************************************************************************)
(* Whatever was killed, failed or pruned, latest.json and best.json can be  *)
(* loaded with all their checksums, as long as launches did not work on the *)
(* directory together.                                                      *)
Recoverable ==
    Alone => /\ latest # None => Loads(latest)
             /\ best # None => Loads(best)

(* best.json is the best epoch the committed training state speaks of,      *)
(* except between the pointer and the mark and after a launch that ended    *)
(* there; and no bundle kept knows a better score: the best is that of all  *)
(* launches, not of the last one.                                           *)
BestIsStatesBest ==
    Alone /\ "unmarked" \notin hist /\ (\A p \in Slots : proc[p].pc # "mark") =>
        /\ latest # None => \A e \in 1 .. latest.epoch :
               bundles[e].manifest # None => bundles[e].manifest.best <= latest.best
        /\ IF latest = None \/ latest.bestEpoch = 0 THEN best = None
           ELSE /\ best # None
                /\ best.epoch = latest.bestEpoch
                /\ best.best = latest.best

(* A launch never stops the test of another launch that has not ended its   *)
(* own clean-up, except through the overlaps the lock leaves open.          *)
TestsSpared ==
    [][\A p \in Slots : \A t \in live \ live' :
           /\ proc[p].pc \notin {"idle", "final"} /\ proc[p].pid = t[1]
           /\ "overlap" \notin hist
           => proc'[p] # proc[p]]_vars

(* While stops succeed every test the launches know of is recorded in its   *)
(* owner's file, and when nothing runs and nothing was killed none is left. *)
NoTestLeft ==
    hist \cap {"overlap", "unstopped"} = {} =>
        /\ \A t \in live : t[2] = "lost" \/ active[t[2]] = t[1]
        /\ "killed" \notin hist /\ (\A p \in Slots : proc[p].pc = "idle")
               => \A t \in live : t[2] = "lost"

(* A manifest says "complete" only of a run whose latest checkpoint has     *)
(* converged or reached the cap, and counts its epochs.                     *)
CompleteIsFinished ==
    Alone /\ manifest.status = "complete" =>
        /\ latest # None
        /\ Finished(latest, latest.epoch)
        /\ manifest.epochs = latest.epoch
=============================================================================
