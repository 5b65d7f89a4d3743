---------------------------- MODULE LegacyProofs ----------------------------
(***************************************************************************)
(* Proofs about the legacy workflows: about the run directory of one PPO    *)
(* training, for any slots, epochs, intervals, retries and scores and any   *)
(* number of launches, kills and failures, and about the chain of           *)
(* trainings and evaluations, for any caps, intervals and scores and any    *)
(* number of stopped commands and forced evaluations.                       *)
(***************************************************************************)
EXTENDS LegacyTraining, LegacyCampaign, FiniteSetTheorems, TLAPS

-----------------------------------------------------------------------------
(* The inductive invariant. *)

Pcs == {"idle", "read", "check", "take", "final", "ebest", "echeck"}
           \cup Training \cup Closing \cup Evaluating
Statuses == {"none", "starting", "failed", "interrupted", "complete"}

States == [epoch : 0 .. MaxEpochs, best : Nat, bestEpoch : Nat, conv : BOOLEAN]
Bundles == [epoch : 1 .. MaxEpochs, best : Nat, bestEpoch : Nat, conv : BOOLEAN, by : Nat]
Pointers == Bundles \cup {None}

ProcType == [pc : Pcs, pid : Nat, base : Pointers, st : States, newBest : BOOLEAN,
             tries : Nat, online : BOOLEAN, status : Statuses, sawFree : BOOLEAN]

\* The types, all but the order of the manifests, which nothing below depends on.
TypeInv ==
    /\ latest \in Pointers /\ best \in Pointers /\ report \in Pointers
    /\ bundles \in [1 .. MaxEpochs -> [data : Pointers \cup {Torn}, manifest : Pointers]]
    /\ manifest \in [status : Statuses, epochs : 0 .. MaxEpochs]
    /\ lock \in Nat
    /\ active \in [Owners -> Nat]
    /\ live \in SUBSET (Nat \X (Owners \cup {"lost"}))
    /\ proc \in [Slots -> ProcType]
    /\ launches \in Nat /\ kills \in Nat /\ faults \in Nat
    /\ hist \in SUBSET {"overlap", "stale", "killed", "unstopped", "unmarked"}

\* A launch that has taken no test so far.
Untested(p) ==
    \/ proc[p].pc \in {"read", "check", "take", "ebest", "echeck"}
    \/ proc[p].pc = "cleanup" /\ ~proc[p].online

\* Pids are given once; what a launch has not begun carries no trace of it.
PidInv ==
    /\ \A p \in Slots : proc[p].pc # "idle" => proc[p].pid \in 1 .. launches
    /\ \A p, q \in Slots : p # q /\ proc[p].pc # "idle" /\ proc[q].pc # "idle"
           => proc[p].pid # proc[q].pid
    /\ \A t \in live : t[1] \in 1 .. launches
    /\ \A o \in Owners : active[o] \in 0 .. launches
    /\ \A p \in Slots : Untested(p) => /\ \A t \in live : t[1] # proc[p].pid
                                       /\ \A o \in Owners : active[o] # proc[p].pid

\* What each stage of a launch has behind it.
StageOf(p) ==
    /\ proc[p].pc \in Training \cup {"close"} => proc[p].online
    /\ proc[p].pc \in {"read", "check"} => ~proc[p].online
    /\ proc[p].pc = "take" => proc[p].sawFree
    /\ proc[p].pc \in {"check", "take", "forecast", "fetch", "build", "rollout", "week"}
           => proc[p].st.epoch < MaxEpochs
    /\ proc[p].pc \in {"files", "bundle", "pointer", "mark"} => proc[p].st.epoch > 0
    /\ proc[p].pc \in {"check", "take", "forecast", "fetch", "build"}
           => proc[p].st.epoch = proc[p].base.epoch

StageInv == \A p \in Slots : StageOf(p)

\* One launch works at a time, and a training one under the lock.
LockInv == "overlap" \notin hist =>
    /\ \A p \in Slots : proc[p].pc \in Training => lock = proc[p].pid
    /\ \A p, q \in Slots : Busy(p) /\ Busy(q) => p = q

\* The tests an evaluating launch has, between two of its steps.
EvaluationTests(p) ==
    proc[p].pc \in Evaluating => \A t \in live : t[1] = proc[p].pid =>
        \/ t[2] = "lost"
        \/ proc[p].pc = "eload" /\ t[2] = "forecast"
        \/ proc[p].pc = "epublish" /\ t[2] = "final"

\* A file names the launch at work, or one that was killed.
FilesKnown ==
    /\ \A p \in Slots : Busy(p) => \A o \in Owners : active[o] \in {0, proc[p].pid}
    /\ \A p \in Slots : proc[p].pc # "idle" /\ ~Busy(p)
           => \A o \in Owners : active[o] # proc[p].pid

\* A test is named by its owner's file, and unless a launch was killed its launch is at work.
TestsKnown ==
    /\ \A t \in live : t[2] = "lost" \/ active[t[2]] = t[1]
    /\ "killed" \notin hist => \A t \in live :
           t[2] = "lost" \/ \E p \in Slots : Busy(p) /\ proc[p].pid = t[1]

\* While stops succeed, and launches do not work together.
Defended == hist \cap {"overlap", "unstopped"} = {}
TestInv == Defended => FilesKnown /\ TestsKnown /\ \A p \in Slots : EvaluationTests(p)

\* The launch that trains is at latest or one epoch ahead of it.
DiskStage(p) ==
    /\ proc[p].pc \in {"forecast", "fetch", "build", "rollout", "week"}
           => proc[p].st.epoch = latest.epoch
    /\ proc[p].pc \in {"files", "bundle", "pointer"} => proc[p].st.epoch = latest.epoch + 1
    /\ proc[p].pc = "pointer"
           => bundles[proc[p].st.epoch] = [data |-> Bundle(p), manifest |-> Bundle(p)]
    /\ proc[p].pc = "mark" => latest # None /\ proc[p].st.epoch = latest.epoch

\* Both pointers load, and best is not ahead of latest; only files of the next epoch change.
PointersLoad ==
    /\ latest # None => Loads(latest)
    /\ best # None => Loads(best) /\ latest # None /\ best.epoch <= latest.epoch
DiskInv == Alone => PointersLoad /\ \A p \in Slots : DiskStage(p)

Inv == TypeInv /\ PidInv /\ StageInv /\ LockInv /\ TestInv /\ DiskInv

-----------------------------------------------------------------------------
(* What a step does to the process in its slot. *)

OthersStay(p) == \A q \in Slots : q # p => proc'[q] = proc[q]

\* The process stays what it is, but for its place and its training state.
Keeps(p) ==
    /\ proc'[p].pid = proc[p].pid /\ proc'[p].base = proc[p].base
    /\ proc'[p].online = proc[p].online /\ proc'[p].sawFree = proc[p].sawFree

\* The empty slot is well typed.
LEMMA NoProcType == NoProc \in ProcType
<1>1. Fresh \in States
  BY LegacyTrainingAssumption DEF Fresh, States, LegacyTrainingAssumption
<1> QED
  BY <1>1 DEF NoProc, ProcType, Pcs, Statuses, Pointers

\* A slot gets another well typed process, and the others stay.
LEMMA PutProc ==
    ASSUME TypeInv, NEW p \in Slots, NEW r \in ProcType, proc' = [proc EXCEPT ![p] = r]
    PROVE  /\ proc' \in [Slots -> ProcType]
           /\ proc'[p] = r
           /\ OthersStay(p)
  BY DEF TypeInv, OthersStay

\* The process of a slot ends.
LEMMA Ends ==
    ASSUME TypeInv, NEW p \in Slots, proc' = [proc EXCEPT ![p] = NoProc]
    PROVE  /\ proc' \in [Slots -> ProcType]
           /\ proc'[p].pc = "idle"
           /\ OthersStay(p)
  BY NoProcType, PutProc DEF NoProc

\* Only the place of a process changes.
LEMMA Goes ==
    ASSUME TypeInv, NEW p \in Slots, NEW x \in Pcs, proc' = [proc EXCEPT ![p].pc = x]
    PROVE  /\ proc' \in [Slots -> ProcType]
           /\ proc'[p].pc = x
           /\ Keeps(p)
           /\ proc'[p].st = proc[p].st
           /\ OthersStay(p)
<1> DEFINE r == [proc[p] EXCEPT !.pc = x]
<1>1. proc' = [proc EXCEPT ![p] = r]
  OBVIOUS
<1>2. /\ r \in ProcType
      /\ r.pc = x /\ r.pid = proc[p].pid /\ r.base = proc[p].base
      /\ r.online = proc[p].online /\ r.sawFree = proc[p].sawFree
      /\ r.st = proc[p].st
  BY DEF TypeInv, ProcType
<1> HIDE DEF r
<1> QED
  BY <1>1, <1>2, PutProc DEF Keeps

\* Only the place and the status of a process change.
LEMMA Turns ==
    ASSUME TypeInv, NEW p \in Slots, NEW x \in Pcs, NEW s \in Statuses,
           proc' = [proc EXCEPT ![p] = [proc[p] EXCEPT !.pc = x, !.status = s]]
    PROVE  /\ proc' \in [Slots -> ProcType]
           /\ proc'[p].pc = x
           /\ Keeps(p)
           /\ proc'[p].st = proc[p].st
           /\ OthersStay(p)
<1> DEFINE r == [proc[p] EXCEPT !.pc = x, !.status = s]
<1>1. proc' = [proc EXCEPT ![p] = r]
  OBVIOUS
<1>2. /\ r \in ProcType
      /\ r.pc = x /\ r.pid = proc[p].pid /\ r.base = proc[p].base
      /\ r.online = proc[p].online /\ r.sawFree = proc[p].sawFree
      /\ r.st = proc[p].st
  BY DEF TypeInv, ProcType
<1> HIDE DEF r
<1> QED
  BY <1>1, <1>2, PutProc DEF Keeps

LEMMA LaunchProc ==
    ASSUME TypeInv, NEW p \in Slots, NEW first \in {"read", "ebest"}, Launch(p, first)
    PROVE  /\ proc' \in [Slots -> ProcType]
           /\ proc[p].pc = "idle" /\ proc'[p].pc = first
           /\ proc'[p].pid = launches + 1 /\ ~proc'[p].online
           /\ OthersStay(p)
<1> DEFINE r == [NoProc EXCEPT !.pc = first, !.pid = launches + 1]
<1>1. proc' = [proc EXCEPT ![p] = r] /\ proc[p].pc = "idle"
  BY DEF Launch
<1>2. /\ r \in ProcType
      /\ r.pc = first /\ r.pid = launches + 1 /\ ~r.online
  <2>1. launches + 1 \in Nat /\ first \in Pcs
    BY DEF TypeInv, Pcs
  <2>2. NoProc \in ProcType /\ ~NoProc.online
    BY NoProcType DEF NoProc
  <2> HIDE DEF NoProc
  <2> QED
    BY <2>1, <2>2 DEF ProcType
<1> HIDE DEF r
<1> QED
  BY <1>1, <1>2, PutProc

LEMMA ReadLatestProc ==
    ASSUME TypeInv, NEW p \in Slots, ReadLatest(p)
    PROVE  /\ proc' \in [Slots -> ProcType]
           /\ proc[p].pc = "read"
           /\ OthersStay(p)
           /\ \/ proc'[p].pc = "idle"
              \/ /\ proc'[p].pc = "check"
                 /\ proc'[p].pid = proc[p].pid /\ proc'[p].online = proc[p].online
                 /\ proc'[p].base = latest /\ proc'[p].st.epoch = latest.epoch
                 /\ latest.epoch < MaxEpochs
<1>1. proc[p].pc = "read"
  BY DEF ReadLatest
<1>2. CASE proc' = [proc EXCEPT ![p] = NoProc]
  BY <1>1, <1>2, Ends
<1>3. CASE proc' # [proc EXCEPT ![p] = NoProc]
  <2> DEFINE r == [proc[p] EXCEPT !.pc = "check", !.base = latest, !.st = StateOf(latest)]
  <2>1. /\ proc' = [proc EXCEPT ![p] = r]
        /\ ~(latest # None /\ (~Loads(latest) \/ Finished(latest, latest.epoch)))
    BY <1>3 DEF ReadLatest
  <2>2. latest.epoch < MaxEpochs
    <3>0. MaxEpochs \in Nat /\ MaxEpochs > 0
      BY LegacyTrainingAssumption DEF LegacyTrainingAssumption
    <3>1. CASE latest = None
      BY <3>0, <3>1 DEF None
    <3>2. CASE latest # None
      <4>1. latest.epoch \in Nat
        BY <3>2 DEF TypeInv, Pointers, Bundles
      <4>2. ~(latest.epoch >= MaxEpochs)
        BY <2>1, <3>2 DEF Finished
      <4> QED
        BY <3>0, <4>1, <4>2
    <3> QED
      BY <3>1, <3>2
  <2>3. StateOf(latest) \in States /\ StateOf(latest).epoch = latest.epoch
    <3>1. CASE latest = None
      BY <3>1, LegacyTrainingAssumption
         DEF StateOf, Fresh, States, None, LegacyTrainingAssumption
    <3>2. CASE latest # None
      BY <3>2, LegacyTrainingAssumption
         DEF StateOf, Restored, States, TypeInv, Pointers, Bundles, LegacyTrainingAssumption
    <3> QED
      BY <3>1, <3>2
  <2>4. /\ r \in ProcType
        /\ r.pc = "check" /\ r.pid = proc[p].pid /\ r.online = proc[p].online
        /\ r.base = latest /\ r.st = StateOf(latest)
    <3>1. "check" \in Pcs /\ latest \in Pointers
      BY DEF TypeInv, Pcs
    <3> QED
      BY <2>3, <3>1 DEF TypeInv, ProcType
  <2> HIDE DEF r
  <2> QED
    BY <1>1, <2>1, <2>2, <2>3, <2>4, PutProc
<1> QED
  BY <1>2, <1>3

LEMMA CheckLockProc ==
    ASSUME TypeInv, NEW p \in Slots, CheckLock(p)
    PROVE  /\ proc' \in [Slots -> ProcType]
           /\ proc[p].pc = "check"
           /\ OthersStay(p)
           /\ proc'[p].pid = proc[p].pid /\ proc'[p].base = proc[p].base
           /\ proc'[p].online = proc[p].online /\ proc'[p].st = proc[p].st
           /\ \/ proc'[p].pc = "cleanup"
              \/ /\ proc'[p].pc = "take"
                 /\ proc'[p].sawFree = ~Runs(lock)
                 /\ lock = 0 \/ ~Runs(lock)
<1>1. proc[p].pc = "check"
  BY DEF CheckLock
<1>2. CASE lock # 0 /\ PidIsAlive(lock)
  <2>1. proc' = [proc EXCEPT ![p] = [proc[p] EXCEPT !.pc = "cleanup", !.status = "failed"]]
    BY <1>2 DEF CheckLock
  <2>2. "cleanup" \in Pcs /\ "failed" \in Statuses
    BY DEF Pcs, Closing, Statuses
  <2> QED
    BY <1>1, <2>1, <2>2, Turns DEF Keeps
<1>3. CASE ~(lock # 0 /\ PidIsAlive(lock))
  <2> DEFINE r == [proc[p] EXCEPT !.pc = "take", !.sawFree = ~Runs(lock)]
  <2>1. proc' = [proc EXCEPT ![p] = r]
    BY <1>3 DEF CheckLock
  <2>2. /\ r \in ProcType
        /\ r.pc = "take" /\ r.pid = proc[p].pid /\ r.online = proc[p].online
        /\ r.base = proc[p].base /\ r.st = proc[p].st /\ r.sawFree = ~Runs(lock)
    <3>1. "take" \in Pcs /\ (~Runs(lock)) \in BOOLEAN
      BY DEF Pcs
    <3> HIDE DEF Runs
    <3> QED
      BY <3>1 DEF TypeInv, ProcType
  <2> HIDE DEF r
  <2> QED
    BY <1>1, <1>3, <2>1, <2>2, PutProc DEF PidIsAlive
<1> QED
  BY <1>2, <1>3

LEMMA TakeLockProc ==
    ASSUME TypeInv, NEW p \in Slots, TakeLock(p)
    PROVE  /\ proc' \in [Slots -> ProcType]
           /\ proc[p].pc = "take" /\ proc'[p].pc = "forecast"
           /\ OthersStay(p)
           /\ proc'[p].pid = proc[p].pid /\ proc'[p].base = proc[p].base
           /\ proc'[p].online /\ proc'[p].st = proc[p].st
<1> DEFINE r == [proc[p] EXCEPT !.pc = "forecast", !.online = TRUE]
<1>1. proc' = [proc EXCEPT ![p] = r] /\ proc[p].pc = "take"
  BY DEF TakeLock
<1>2. /\ r \in ProcType
      /\ r.pc = "forecast" /\ r.pid = proc[p].pid /\ r.online
      /\ r.base = proc[p].base /\ r.st = proc[p].st
  <2>1. "forecast" \in Pcs
    BY DEF Pcs, Training
  <2> QED
    BY <2>1 DEF TypeInv, ProcType
<1> HIDE DEF r
<1> QED
  BY <1>1, <1>2, PutProc

LEMMA SelectForecastProc ==
    ASSUME TypeInv, NEW p \in Slots, NEW next \in {"fetch", "eload"}, SelectForecast(p, next)
    PROVE  /\ proc' \in [Slots -> ProcType]
           /\ proc'[p].pc = next
           /\ Keeps(p) /\ proc'[p].st = proc[p].st
           /\ OthersStay(p)
  BY Goes DEF SelectForecast, Goto, Pcs, Training, Evaluating

LEMMA FetchForecastProc ==
    ASSUME TypeInv, NEW p \in Slots, FetchForecast(p)
    PROVE  /\ proc' \in [Slots -> ProcType]
           /\ proc[p].pc = "fetch" /\ proc'[p].pc = "build"
           /\ Keeps(p) /\ proc'[p].st = proc[p].st
           /\ OthersStay(p)
  BY Goes DEF FetchForecast, Pcs, Training

LEMMA FingerprintChangedProc ==
    ASSUME TypeInv, NEW p \in Slots, FingerprintChanged(p)
    PROVE  /\ proc' \in [Slots -> ProcType]
           /\ proc[p].pc = "build" /\ proc'[p].pc = "leave"
           /\ Keeps(p) /\ proc'[p].st = proc[p].st
           /\ OthersStay(p)
<1>1. proc' = [proc EXCEPT ![p] = [proc[p] EXCEPT !.pc = "leave", !.status = "failed"]]
  BY DEF FingerprintChanged, TypeInv, ProcType
<1> QED
  BY <1>1, Turns DEF FingerprintChanged, Pcs, Training, Statuses

LEMMA BuildProc ==
    ASSUME TypeInv, NEW p \in Slots, Build(p)
    PROVE  /\ proc' \in [Slots -> ProcType]
           /\ proc[p].pc = "build" /\ proc'[p].pc \in {"rollout", "leave"}
           /\ Keeps(p) /\ proc'[p].st = proc[p].st
           /\ OthersStay(p)
<1>1. \/ proc' = [proc EXCEPT ![p] = [proc[p] EXCEPT !.pc = "rollout"]]
      \/ proc' = [proc EXCEPT ![p] = [proc[p] EXCEPT !.pc = "leave", !.status = "failed"]]
  BY DEF Build
<1>2. /\ proc[p].pc = "build"
      /\ {"rollout", "leave"} \subseteq Pcs /\ "failed" \in Statuses
  BY DEF Build, Pcs, Training, Statuses
<1>3. CASE proc' = [proc EXCEPT ![p] = [proc[p] EXCEPT !.pc = "rollout"]]
  <2>1. proc' = [proc EXCEPT ![p].pc = "rollout"]
    BY <1>3
  <2> QED
    BY <1>2, <2>1, Goes
<1>4. CASE proc' = [proc EXCEPT ![p] = [proc[p] EXCEPT !.pc = "leave", !.status = "failed"]]
  BY <1>2, <1>4, Turns
<1> QED
  BY <1>1, <1>3, <1>4

LEMMA RolloutProc ==
    ASSUME TypeInv, NEW p \in Slots, Rollout(p)
    PROVE  /\ proc' \in [Slots -> ProcType]
           /\ proc[p].pc = "rollout" /\ proc'[p].pc = "week"
           /\ Keeps(p) /\ proc'[p].st = proc[p].st
           /\ OthersStay(p)
  BY Goes DEF Rollout, Goto, Pcs, Training

LEMMA PostUpdateProc ==
    ASSUME TypeInv, StageInv, NEW p \in Slots, PostUpdate(p)
    PROVE  /\ proc' \in [Slots -> ProcType]
           /\ proc[p].pc = "week" /\ proc'[p].pc = "files"
           /\ Keeps(p) /\ proc'[p].st.epoch = proc[p].st.epoch + 1
           /\ OthersStay(p)
<1> DEFINE At(score) == ScoredWith(p, score)
           next(score, conv) ==
               [proc[p] EXCEPT !.pc = "files", !.tries = 0,
                               !.st = [At(score) EXCEPT !.conv = conv],
                               !.newBest = At(score).bestEpoch = At(score).epoch]
<1>1. PICK score \in Scores \cup {0}, conv \in BOOLEAN : proc' = [proc EXCEPT ![p] = next(score, conv)]
  <2>1. PICK score \in Scores \cup {0}, conv \in BOOLEAN :
            proc' = [proc EXCEPT ![p].pc = "files", ![p].tries = 0,
                                 ![p].st = [At(score) EXCEPT !.conv = conv],
                                 ![p].newBest = At(score).bestEpoch = At(score).epoch]
    BY DEF PostUpdate
  <2> HIDE DEF At
  <2> QED
    BY <2>1, ZenonT(60) DEF TypeInv, ProcType
<1>2. /\ proc[p].pc = "week"
      /\ proc[p].st \in States
      /\ proc[p].st.epoch < MaxEpochs
      /\ score \in Nat
  BY LegacyTrainingAssumption
     DEF PostUpdate, TypeInv, ProcType, StageInv, StageOf, LegacyTrainingAssumption
<1>3. At(score) \in States /\ At(score).epoch = proc[p].st.epoch + 1
  <2>1. /\ proc[p].st.epoch \in Nat /\ MaxEpochs \in Nat
        /\ proc[p].st.epoch + 1 \in 0 .. MaxEpochs
    BY <1>2, LegacyTrainingAssumption DEF States, LegacyTrainingAssumption
  <2>2. CASE score > proc[p].st.best
    <3>1. At(score) = [proc[p].st EXCEPT !.epoch = proc[p].st.epoch + 1, !.best = score,
                                         !.bestEpoch = proc[p].st.epoch + 1]
      BY <2>2 DEF ScoredWith, NextEpoch
    <3>2. /\ At(score).epoch = proc[p].st.epoch + 1
          /\ At(score) = [epoch |-> proc[p].st.epoch + 1, best |-> score,
                           bestEpoch |-> proc[p].st.epoch + 1, conv |-> proc[p].st.conv]
      BY <1>2, <3>1 DEF States
    <3>3. proc[p].st.epoch + 1 \in Nat /\ proc[p].st.conv \in BOOLEAN
      BY <1>2, <2>1 DEF States
    <3> QED
      BY <1>2, <2>1, <3>2, <3>3 DEF States
  <2>3. CASE ~(score > proc[p].st.best)
    <3>1. At(score) = [proc[p].st EXCEPT !.epoch = proc[p].st.epoch + 1]
      BY <2>3 DEF ScoredWith
    <3> QED
      BY <1>2, <2>1, <3>1 DEF States
  <2> QED
    BY <2>2, <2>3
<1> HIDE DEF At
<1>4. /\ [At(score) EXCEPT !.conv = conv] \in States
      /\ [At(score) EXCEPT !.conv = conv].epoch = proc[p].st.epoch + 1
  BY <1>3 DEF States
<1> DEFINE st == [At(score) EXCEPT !.conv = conv]
           b == At(score).bestEpoch = At(score).epoch
           r == [proc[p] EXCEPT !.pc = "files", !.tries = 0, !.st = st, !.newBest = b]
<1>5. proc' = [proc EXCEPT ![p] = r]
  BY <1>1
<1>6. st \in States /\ st.epoch = proc[p].st.epoch + 1 /\ b \in BOOLEAN
  BY <1>4
<1> HIDE DEF st, b, next
<1>7. /\ r \in ProcType
      /\ r.pc = "files" /\ r.pid = proc[p].pid /\ r.base = proc[p].base
      /\ r.online = proc[p].online /\ r.sawFree = proc[p].sawFree
      /\ r.st = st
  <2>1. "files" \in Pcs
    BY DEF Pcs, Training
  <2> QED
    BY <1>6, <2>1, ZenonT(60) DEF TypeInv, ProcType
<1> HIDE DEF r
<1> QED
  BY <1>2, <1>5, <1>6, <1>7, PutProc DEF Keeps

LEMMA WriteFilesProc ==
    ASSUME TypeInv, NEW p \in Slots, WriteFiles(p)
    PROVE  /\ proc' \in [Slots -> ProcType]
           /\ proc[p].pc = "files" /\ proc'[p].pc = "bundle"
           /\ Keeps(p) /\ proc'[p].st = proc[p].st
           /\ OthersStay(p)
  BY Goes DEF WriteFiles, Goto, Pcs, Training

LEMMA CommitBundleProc ==
    ASSUME TypeInv, NEW p \in Slots, CommitBundle(p)
    PROVE  /\ proc' \in [Slots -> ProcType]
           /\ proc[p].pc = "bundle" /\ proc'[p].pc = "pointer"
           /\ Keeps(p) /\ proc'[p].st = proc[p].st
           /\ OthersStay(p)
  BY Goes DEF CommitBundle, Goto, Pcs, Training

\* After an epoch a launch goes on or has finished, and does not pass the cap.
LEMMA ContinuePc ==
    ASSUME TypeInv, NEW p \in Slots
    PROVE  /\ Continue(p) \in {"trained", "rollout"}
           /\ Continue(p) = "rollout" => proc[p].st.epoch < MaxEpochs
<1>1. proc[p].st.epoch \in Nat /\ MaxEpochs \in Nat
  BY LegacyTrainingAssumption DEF TypeInv, ProcType, States, LegacyTrainingAssumption
<1> QED
  BY <1>1 DEF Continue, Finished

LEMMA MovePointerProc ==
    ASSUME TypeInv, NEW p \in Slots, MovePointer(p)
    PROVE  /\ proc' \in [Slots -> ProcType]
           /\ proc[p].pc = "pointer" /\ proc'[p].pc \in {"mark", "trained", "rollout"}
           /\ proc'[p].pc = "rollout" => proc[p].st.epoch < MaxEpochs
           /\ Keeps(p) /\ proc'[p].st = proc[p].st
           /\ OthersStay(p)
<1> DEFINE x == IF proc[p].newBest THEN "mark" ELSE Continue(p)
<1>1. /\ x \in {"mark", "trained", "rollout"}
      /\ x = "rollout" => proc[p].st.epoch < MaxEpochs
      /\ x \in Pcs
  BY ContinuePc DEF Pcs, Training
<1>2. proc' = [proc EXCEPT ![p].pc = x] /\ proc[p].pc = "pointer"
  BY DEF MovePointer, Goto
<1> HIDE DEF x
<1> QED
  BY <1>1, <1>2, Goes

LEMMA MarkBestProc ==
    ASSUME TypeInv, NEW p \in Slots, MarkBest(p)
    PROVE  /\ proc' \in [Slots -> ProcType]
           /\ proc[p].pc = "mark" /\ proc'[p].pc \in {"trained", "rollout"}
           /\ proc'[p].pc = "rollout" => proc[p].st.epoch < MaxEpochs
           /\ Keeps(p) /\ proc'[p].st = proc[p].st
           /\ OthersStay(p)
<1>1. /\ Continue(p) \in {"trained", "rollout"}
      /\ Continue(p) = "rollout" => proc[p].st.epoch < MaxEpochs
      /\ Continue(p) \in Pcs
  BY ContinuePc DEF Pcs, Training
<1>2. proc' = [proc EXCEPT ![p].pc = Continue(p)] /\ proc[p].pc = "mark"
  BY DEF MarkBest, Goto
<1> QED
  BY <1>1, <1>2, Goes

LEMMA SaveFailsProc ==
    ASSUME TypeInv, NEW p \in Slots, SaveFails(p)
    PROVE  /\ proc' \in [Slots -> ProcType]
           /\ proc[p].pc \in {"files", "bundle", "pointer"}
           /\ proc'[p].pc \in {"files", "leave"}
           /\ Keeps(p) /\ proc'[p].st = proc[p].st
           /\ OthersStay(p)
<1>1. proc[p].pc \in {"files", "bundle", "pointer"}
  BY DEF SaveFails
<1> DEFINE r == [proc[p] EXCEPT !.pc = "files", !.tries = proc[p].tries + 1]
<1>2. \/ proc' = [proc EXCEPT ![p] = r]
      \/ proc' = [proc EXCEPT ![p] = [proc[p] EXCEPT !.pc = "leave", !.status = "failed"]]
  <2>1. CASE proc[p].tries + 1 < SaveRetries
    <3>1. proc' = [proc EXCEPT ![p] = [proc[p] EXCEPT !.pc = "files",
                                                      !.tries = proc[p].tries + 1]]
      BY <2>1 DEF SaveFails, TypeInv, ProcType
    <3> QED
      BY <3>1
  <2>2. CASE ~(proc[p].tries + 1 < SaveRetries)
    BY <2>2 DEF SaveFails
  <2> QED
    BY <2>1, <2>2
<1>3. CASE proc' = [proc EXCEPT ![p] = r]
  <2>1. /\ r \in ProcType
        /\ r.pc = "files" /\ r.pid = proc[p].pid /\ r.base = proc[p].base
        /\ r.online = proc[p].online /\ r.sawFree = proc[p].sawFree
        /\ r.st = proc[p].st
    <3>1. "files" \in Pcs /\ proc[p].tries + 1 \in Nat
      BY DEF Pcs, Training, TypeInv, ProcType
    <3> QED
      BY <3>1 DEF TypeInv, ProcType
  <2> HIDE DEF r
  <2> QED
    BY <1>1, <1>3, <2>1, PutProc DEF Keeps
<1>4. CASE proc' = [proc EXCEPT ![p] = [proc[p] EXCEPT !.pc = "leave", !.status = "failed"]]
  <2>1. "leave" \in Pcs /\ "failed" \in Statuses
    BY DEF Pcs, Training, Statuses
  <2> QED
    BY <1>1, <1>4, <2>1, Turns
<1> QED
  BY <1>2, <1>3, <1>4

LEMMA LeaveEarlyProc ==
    ASSUME TypeInv, NEW p \in Slots, LeaveEarly(p)
    PROVE  /\ proc' \in [Slots -> ProcType]
           /\ proc[p].pc \in Training /\ proc'[p].pc = "leave"
           /\ Keeps(p) /\ proc'[p].st = proc[p].st
           /\ OthersStay(p)
<1>1. PICK status \in {"failed", "interrupted"} :
          proc' = [proc EXCEPT ![p].pc = "leave", ![p].status = status]
  BY DEF LeaveEarly
<1>2. proc' = [proc EXCEPT ![p] = [proc[p] EXCEPT !.pc = "leave", !.status = status]]
  BY <1>1 DEF TypeInv, ProcType
<1>3. "leave" \in Pcs /\ status \in Statuses /\ proc[p].pc \in Training
  BY DEF Pcs, Training, Statuses, LeaveEarly
<1> QED
  BY <1>2, <1>3, Turns

LEMMA LeaveLockProc ==
    ASSUME TypeInv, NEW p \in Slots, LeaveLock(p)
    PROVE  /\ proc' \in [Slots -> ProcType]
           /\ proc[p].pc \in {"trained", "leave"} /\ proc'[p].pc = "close"
           /\ proc'[p].pid = proc[p].pid /\ proc'[p].online = proc[p].online
           /\ OthersStay(p)
<1> DEFINE r == [proc[p] EXCEPT !.pc = "close", !.st = Fresh, !.base = None,
                                !.newBest = FALSE, !.tries = 0, !.status = Outcome(p)]
<1>1. proc[p].pc \in {"trained", "leave"}
  BY DEF LeaveLock
<1>2. proc' = [proc EXCEPT ![p] = r]
  BY DEF LeaveLock, TypeInv, ProcType
<1>3. r \in ProcType /\ r.pc = "close" /\ r.pid = proc[p].pid /\ r.online = proc[p].online
  <2>1. "close" \in Pcs /\ Fresh \in States /\ None \in Pointers /\ Outcome(p) \in Statuses
    BY LegacyTrainingAssumption
       DEF Pcs, Closing, Fresh, States, Pointers, Outcome, Statuses, TypeInv, ProcType,
           LegacyTrainingAssumption
  <2> HIDE DEF Fresh, None, Outcome
  <2> QED
    BY <2>1, ZenonT(60) DEF TypeInv, ProcType
<1> HIDE DEF r
<1> QED
  BY <1>1, <1>2, <1>3, PutProc

LEMMA CloseEnvironmentsProc ==
    ASSUME TypeInv, NEW p \in Slots, CloseEnvironments(p)
    PROVE  /\ proc' \in [Slots -> ProcType]
           /\ proc[p].pc = "close" /\ proc'[p].pc = "cleanup"
           /\ Keeps(p)
           /\ OthersStay(p)
  BY Goes DEF CloseEnvironments, Goto, Pcs, Closing

LEMMA CleanUpProc ==
    ASSUME TypeInv, NEW p \in Slots, CleanUp(p)
    PROVE  /\ proc' \in [Slots -> ProcType]
           /\ proc[p].pc = "cleanup" /\ proc'[p].pc = "final"
           /\ Keeps(p)
           /\ OthersStay(p)
  BY Goes DEF CleanUp, Goto, Pcs, Closing

LEMMA ReadBestProc ==
    ASSUME TypeInv, NEW p \in Slots, ReadBest(p)
    PROVE  /\ proc' \in [Slots -> ProcType]
           /\ proc[p].pc = "ebest"
           /\ OthersStay(p)
           /\ \/ proc'[p].pc = "idle"
              \/ /\ proc'[p].pc = "echeck" /\ proc'[p].pid = proc[p].pid
                 /\ proc'[p].online = proc[p].online
<1> DEFINE r == [proc[p] EXCEPT !.pc = "echeck", !.base = best]
<1>1. /\ proc[p].pc = "ebest"
      /\ proc' = [proc EXCEPT ![p] = r] \/ proc' = [proc EXCEPT ![p] = NoProc]
  BY DEF ReadBest
<1>2. CASE proc' = [proc EXCEPT ![p] = r]
  <2>1. r \in ProcType /\ r.pc = "echeck" /\ r.pid = proc[p].pid /\ r.online = proc[p].online
    <3>1. "echeck" \in Pcs /\ best \in Pointers
      BY DEF Pcs, TypeInv
    <3> QED
      BY <3>1 DEF TypeInv, ProcType
  <2> HIDE DEF r
  <2> QED
    BY <1>1, <1>2, <2>1, PutProc
<1>3. CASE proc' = [proc EXCEPT ![p] = NoProc]
  BY <1>1, <1>3, Ends
<1> QED
  BY <1>1, <1>2, <1>3

LEMMA CheckOwnersProc ==
    ASSUME TypeInv, NEW p \in Slots, CheckOwners(p)
    PROVE  /\ proc' \in [Slots -> ProcType]
           /\ proc[p].pc = "echeck"
           /\ OthersStay(p)
           /\ \/ proc'[p].pc = "idle"
              \/ proc'[p].pc = "eforecast" /\ Keeps(p) /\ LiveOwners = {}
<1>1. /\ proc[p].pc = "echeck"
      /\ \/ proc' = [proc EXCEPT ![p] = [proc[p] EXCEPT !.pc = "eforecast"]] /\ LiveOwners = {}
         \/ proc' = [proc EXCEPT ![p] = NoProc]
  BY DEF CheckOwners
<1>2. CASE /\ proc' = [proc EXCEPT ![p] = [proc[p] EXCEPT !.pc = "eforecast"]]
           /\ LiveOwners = {}
  <2>1. proc' = [proc EXCEPT ![p].pc = "eforecast"] /\ "eforecast" \in Pcs
    BY <1>2 DEF Pcs, Evaluating
  <2> QED
    BY <1>1, <1>2, <2>1, Goes
<1>3. CASE proc' = [proc EXCEPT ![p] = NoProc]
  BY <1>1, <1>3, Ends
<1> QED
  BY <1>1, <1>2, <1>3

LEMMA LoadBestProc ==
    ASSUME TypeInv, NEW p \in Slots, LoadBest(p)
    PROVE  /\ proc' \in [Slots -> ProcType]
           /\ proc[p].pc = "eload"
           /\ OthersStay(p)
           /\ proc'[p].pc = "idle" \/ (proc'[p].pc = "eroll" /\ Keeps(p))
<1>1. /\ proc[p].pc = "eload"
      /\ \/ proc' = [proc EXCEPT ![p] = [proc[p] EXCEPT !.pc = "eroll"]]
         \/ proc' = [proc EXCEPT ![p] = NoProc]
  BY DEF LoadBest
<1>2. CASE proc' = [proc EXCEPT ![p] = [proc[p] EXCEPT !.pc = "eroll"]]
  <2>1. proc' = [proc EXCEPT ![p].pc = "eroll"] /\ "eroll" \in Pcs
    BY <1>2 DEF Pcs, Evaluating
  <2> QED
    BY <1>1, <2>1, Goes
<1>3. CASE proc' = [proc EXCEPT ![p] = NoProc]
  BY <1>1, <1>3, Ends
<1> QED
  BY <1>1, <1>2, <1>3

LEMMA RolloutPolicyProc ==
    ASSUME TypeInv, NEW p \in Slots, RolloutPolicy(p)
    PROVE  /\ proc' \in [Slots -> ProcType]
           /\ proc[p].pc = "eroll" /\ proc'[p].pc = "epublish"
           /\ Keeps(p)
           /\ OthersStay(p)
  BY Goes DEF RolloutPolicy, Goto, Pcs, Evaluating

\* The three ways to end.
LEMMA EndProc ==
    ASSUME TypeInv, NEW p \in Slots, FinishManifest(p) \/ PublishReport(p) \/ Kill(p)
    PROVE  /\ proc' \in [Slots -> ProcType]
           /\ proc'[p].pc = "idle"
           /\ OthersStay(p)
  BY Ends DEF FinishManifest, PublishReport, Kill

-----------------------------------------------------------------------------
(* What a step does to the tests and their files. *)

Histories == {"overlap", "stale", "killed", "unstopped", "unmarked"}

\* Tests and files are those before the step, or of the process that took it.
TestsMove(p) ==
    /\ live' \subseteq live \cup ({proc[p].pid} \X (Owners \cup {"lost"}))
    /\ \A o \in Owners : active'[o] \in {active[o], 0, proc[p].pid}
    /\ active' \in [Owners -> Nat]
    /\ hist \subseteq hist' /\ hist' \subseteq Histories

\* No test or file is new.
Quiet == live' \subseteq live /\ \A o \in Owners : active'[o] \in {active[o], 0}

\* A step that leaves tests and files alone.
LEMMA NoTestMoves ==
    ASSUME TypeInv, NEW p \in Slots, live' = live, active' = active,
           hist \subseteq hist', hist' \subseteq Histories
    PROVE  TestsMove(p) /\ Quiet
  BY DEF TypeInv, TestsMove, Quiet

\* A select adds tests and a file of its own launch only.
LEMMA SelectMoves ==
    ASSUME TypeInv, NEW p \in Slots, NEW o \in Owners, Select(p, o), hist' = hist
    PROVE  TestsMove(p) /\ faults' \in Nat
<1>1. proc[p].pid \in Nat
  BY DEF TypeInv, ProcType
<1>2. PICK lost \in LostAnswers(p) :
          /\ Fault(Cardinality(lost))
          /\ live' = live \cup lost \cup {<<proc[p].pid, o>>}
          /\ active' = [active EXCEPT ![o] = proc[p].pid]
  BY DEF Select
<1>3. lost = {} \/ lost = {<<proc[p].pid, "lost">>}
  BY DEF LostAnswers
<1>4. Cardinality(lost) \in Nat
  BY <1>3, FS_EmptySet, FS_Singleton
<1>5. faults' \in Nat
  BY <1>2, <1>4 DEF Fault, TypeInv
<1> QED
  BY <1>1, <1>2, <1>3, <1>5 DEF TestsMove, TypeInv, Histories

\* A stop adds nothing.
LEMMA StopMoves ==
    ASSUME TypeInv, NEW p \in Slots, NEW o \in Owners, Stop(p, o)
    PROVE  TestsMove(p) /\ Quiet /\ faults' \in Nat
<1>1. hist' = hist \/ hist' = hist \cup {"unstopped"}
  BY DEF Stop
<1>2. faults' \in Nat
  BY DEF Stop, Fault, TypeInv
<1>3. live' \subseteq live /\ active' \in [Owners -> Nat]
  BY DEF Stop, TypeInv
<1>4. \A x \in Owners : active'[x] \in {active[x], 0}
  BY DEF Stop, TypeInv
<1> QED
  BY <1>1, <1>2, <1>3, <1>4 DEF TestsMove, Quiet, TypeInv, Histories

\* There are finitely many owners, so the failures of a clean-up can be counted.
LEMMA OwnersFinite == IsFiniteSet(Owners)
<1>1. Owners = {"forecast"} \cup {"env"} \cup {"week"} \cup {"final"}
  BY DEF Owners
<1> QED
  BY <1>1, FS_Singleton, FS_Union

\* A clean-up adds nothing.
LEMMA CleanupMoves ==
    ASSUME TypeInv, NEW p \in Slots, NEW force \in BOOLEAN, NEW before,
           hist \subseteq before, before \subseteq Histories, Cleanup(force, before)
    PROVE  TestsMove(p) /\ Quiet /\ faults' \in Nat
<1>1. PICK failed \in SUBSET Stale(force) :
          /\ Fault(Cardinality(failed))
          /\ live' = live \ { <<active[o], o>> : o \in Stale(force) \ failed }
          /\ active' = [o \in Owners |-> IF o \in Stale(force) \ failed THEN 0 ELSE active[o]]
          /\ hist' = before \cup (IF failed = {} THEN {} ELSE {"unstopped"})
  BY DEF Cleanup
<1>2. Stale(force) \subseteq Owners
  BY DEF Stale
<1>3. Cardinality(failed) \in Nat
  BY <1>2, OwnersFinite, FS_Subset, FS_CardinalityType
<1>4. faults' \in Nat
  BY <1>1, <1>3 DEF Fault, TypeInv
<1>5. active' \in [Owners -> Nat] /\ \A o \in Owners : active'[o] \in {active[o], 0}
  BY <1>1 DEF TypeInv
<1>6. hist \subseteq hist' /\ hist' \subseteq Histories
  BY <1>1 DEF Histories
<1>7. live' \subseteq live
  BY <1>1
<1> QED
  BY <1>4, <1>5, <1>6, <1>7 DEF TestsMove, Quiet

\* Without a failure a clean-up leaves no stale file, and stops exactly the tests they name.
LEMMA CleanupWhole ==
    ASSUME NEW force \in BOOLEAN, NEW before, Cleanup(force, before), "unstopped" \notin hist'
    PROVE  /\ live' = live \ { <<active[o], o>> : o \in Stale(force) }
           /\ active' = [o \in Owners |-> IF o \in Stale(force) THEN 0 ELSE active[o]]
           /\ hist' = before
  BY DEF Cleanup

-----------------------------------------------------------------------------
(* Types, pids and the lock, for any step. *)

\* What a step leaves well typed besides processes, tests and histories.
OtherTypes ==
    /\ latest \in Pointers /\ best \in Pointers /\ report \in Pointers
    /\ bundles \in [1 .. MaxEpochs -> [data : Pointers \cup {Torn}, manifest : Pointers]]
    /\ manifest \in [status : Statuses, epochs : 0 .. MaxEpochs]
    /\ lock \in Nat
    /\ launches \in Nat /\ kills \in Nat /\ faults \in Nat

\* A step keeps the types if it keeps those it does not share with all steps.
LEMMA TypesKept ==
    ASSUME TypeInv, NEW p \in Slots, TestsMove(p), proc' \in [Slots -> ProcType], OtherTypes'
    PROVE  TypeInv'
<1>1. proc[p].pid \in Nat
  BY DEF TypeInv, ProcType
<1>2. live' \in SUBSET (Nat \X (Owners \cup {"lost"}))
  BY <1>1 DEF TypeInv, TestsMove
<1> QED
  BY <1>2 DEF TypeInv, TestsMove, OtherTypes, Histories

\* A step keeps the stages if it keeps that of its own launch.
LEMMA StagesKept ==
    ASSUME StageInv, NEW p \in Slots, OthersStay(p), StageOf(p)'
    PROVE  StageInv'
  BY DEF StageInv, StageOf, OthersStay

\* A step of a launch that is not its first keeps the pids apart.
LEMMA PidsKept ==
    ASSUME TypeInv, PidInv, NEW p \in Slots, proc[p].pc # "idle",
           TestsMove(p), OthersStay(p), launches' = launches,
           proc'[p].pc = "idle" \/ proc'[p].pid = proc[p].pid,
           Untested(p)' => Untested(p) /\ Quiet
    PROVE  PidInv'
<1> DEFINE me == proc[p].pid
<1>1. me \in 1 .. launches /\ launches \in Nat
  BY DEF PidInv, TypeInv
<1>2. ASSUME NEW q \in Slots, proc'[q].pc # "idle"
      PROVE  proc[q].pc # "idle" /\ proc'[q].pid = proc[q].pid
  BY <1>2 DEF OthersStay
<1>3. \A t \in live' : t[1] \in 1 .. launches
  BY <1>1 DEF TestsMove, PidInv
<1>4. \A o \in Owners : active'[o] \in 0 .. launches
  BY <1>1 DEF TestsMove, PidInv
<1>5. ASSUME NEW q \in Slots, Untested(q)'
      PROVE  /\ \A t \in live' : t[1] # proc'[q].pid
             /\ \A o \in Owners : active'[o] # proc'[q].pid
  <2>1. proc'[q].pc # "idle"
    BY <1>5 DEF Untested
  <2>2. proc'[q].pid = proc[q].pid /\ proc[q].pid \in 1 .. launches
    BY <1>2, <2>1 DEF PidInv
  <2>3. CASE q = p
    BY <1>5, <2>2, <2>3 DEF Quiet, PidInv
  <2>4. CASE q # p
    <3>1. Untested(q)
      BY <1>5, <2>4 DEF Untested, OthersStay
    <3>2. me # proc[q].pid
      BY <1>2, <2>1, <2>4 DEF PidInv
    <3> QED
      BY <1>1, <2>2, <3>1, <3>2 DEF TestsMove, PidInv
  <2> QED
    BY <2>3, <2>4
<1> HIDE DEF me
<1> QED
  BY <1>2, <1>3, <1>4, <1>5 DEF PidInv

\* A step that leaves the lock alone and begins no work keeps one launch at work.
LEMMA LocksKept ==
    ASSUME LockInv, NEW p \in Slots, OthersStay(p), hist \subseteq hist', lock' = lock,
           Busy(p)' => Busy(p),
           proc'[p].pc \in Training => proc[p].pc \in Training /\ proc'[p].pid = proc[p].pid
    PROVE  LockInv'
<1> SUFFICES ASSUME "overlap" \notin hist'
             PROVE  /\ \A q \in Slots : proc'[q].pc \in Training => lock' = proc'[q].pid
                    /\ \A q, s \in Slots : Busy(q)' /\ Busy(s)' => q = s
  BY DEF LockInv
<1>1. "overlap" \notin hist
  OBVIOUS
<1>2. \A q \in Slots : Busy(q)' => Busy(q)
  BY DEF OthersStay, Busy
<1>3. \A q \in Slots : proc'[q].pc \in Training => lock' = proc'[q].pid
  BY <1>1 DEF OthersStay, LockInv
<1> QED
  BY <1>1, <1>2, <1>3 DEF LockInv

-----------------------------------------------------------------------------
(* The tests of the launch at work. *)

\* Without an overlap the launch at work is the only one.
LEMMA WorksAlone ==
    ASSUME TypeInv, PidInv, LockInv, NEW p \in Slots, Busy(p), "overlap" \notin hist
    PROVE  /\ \A q \in Slots : q # p => ~Busy(q)
           /\ \A q \in Slots : q # p /\ proc[q].pc # "idle" => proc[q].pid # proc[p].pid
           /\ proc[p].pid \in 1 .. launches
           /\ proc[p].pc # "idle"
<1>1. proc[p].pc # "idle"
  BY DEF Busy, Training, Evaluating, Closing
<1> QED
  BY <1>1 DEF LockInv, PidInv

\* A launch that evaluates is at work; one that is not at work has no tests to account for.
LEMMA EvaluatingBusy ==
    ASSUME NEW p \in Slots, proc[p].pc \in Evaluating
    PROVE  Busy(p)
  BY DEF Busy

\* A step does not change whether other launches are at work.
LEMMA OthersBusy ==
    ASSUME NEW p \in Slots, OthersStay(p)
    PROVE  \A q \in Slots : q # p => (Busy(q)' <=> Busy(q)) /\ proc'[q].pid = proc[q].pid
  BY DEF OthersStay, Busy

\* A step without tests keeps what is known of them.
LEMMA NoTestsKept ==
    ASSUME TypeInv, PidInv, TestInv, NEW p \in Slots, OthersStay(p), proc[p].pc # "idle",
           live' = live, active' = active, hist \subseteq hist',
           \/ proc'[p].pc = "idle" /\ ~Busy(p)
           \/ /\ proc'[p].pc # "idle" /\ proc'[p].pid = proc[p].pid
              /\ Busy(p)' <=> Busy(p),
           proc'[p].pc \notin Evaluating
    PROVE  TestInv'
<1> SUFFICES ASSUME Defended'
             PROVE  FilesKnown' /\ TestsKnown' /\ \A q \in Slots : EvaluationTests(q)'
  BY DEF TestInv
<1>1. FilesKnown /\ TestsKnown /\ \A q \in Slots : EvaluationTests(q)
  BY DEF TestInv, Defended
<1>2. \A q \in Slots : Busy(q)' => Busy(q) /\ proc'[q].pid = proc[q].pid
  BY OthersBusy DEF Busy, Training, Closing, Evaluating
<1>3. \A q \in Slots : Busy(q) => Busy(q)' /\ proc'[q].pid = proc[q].pid
  BY OthersBusy
<1>4. FilesKnown'
  BY <1>1, <1>2, <1>3 DEF FilesKnown, OthersStay
<1>5. TestsKnown'
  BY <1>1, <1>3 DEF TestsKnown
<1>6. \A q \in Slots : EvaluationTests(q)'
  BY <1>1 DEF EvaluationTests, OthersStay
<1> QED
  BY <1>4, <1>5, <1>6

\* A select of the launch at work keeps what is known of the tests.
LEMMA SelectTests ==
    ASSUME TypeInv, PidInv, LockInv, TestInv, NEW p \in Slots, NEW o \in Owners,
           Select(p, o), hist' = hist, OthersStay(p), Busy(p), Busy(p)',
           proc'[p].pid = proc[p].pid,
           proc'[p].pc \in Evaluating =>
               \/ proc[p].pc = "eforecast" /\ proc'[p].pc = "eload" /\ o = "forecast"
               \/ proc[p].pc = "eroll" /\ proc'[p].pc = "epublish" /\ o = "final"
    PROVE  TestInv'
<1> SUFFICES ASSUME Defended'
             PROVE  FilesKnown' /\ TestsKnown' /\ \A q \in Slots : EvaluationTests(q)'
  BY DEF TestInv
<1> DEFINE me == proc[p].pid
<1>1. /\ FilesKnown /\ TestsKnown /\ \A q \in Slots : EvaluationTests(q)
      /\ "overlap" \notin hist
  BY DEF TestInv, Defended
<1>2. /\ \A q \in Slots : q # p => ~Busy(q)
      /\ \A q \in Slots : q # p /\ proc[q].pc # "idle" => proc[q].pid # me
      /\ me \in 1 .. launches
  BY <1>1, WorksAlone
<1>3. /\ \A t \in live' : t \in live \/ t = <<me, "lost">> \/ t = <<me, o>>
      /\ active' = [active EXCEPT ![o] = me]
  BY DEF Select, LostAnswers
<1>4. \A q \in Slots : q # p => ~Busy(q)' /\ proc'[q] = proc[q]
  BY <1>2, OthersBusy DEF OthersStay
<1>5. \A x \in Owners : active'[x] \in {0, me} /\ active[x] \in {0, me} /\ active'[o] = me
  BY <1>1, <1>3 DEF FilesKnown, TypeInv
<1>6. FilesKnown'
  <2>1. ASSUME NEW q \in Slots, proc'[q].pc # "idle", ~Busy(q)', NEW x \in Owners
        PROVE  active'[x] # proc'[q].pid
    <3>1. q # p
      BY <2>1
    <3>2. proc[q].pid # me /\ proc[q].pid \in 1 .. launches /\ proc'[q] = proc[q]
      BY <1>2, <1>4, <2>1, <3>1 DEF PidInv
    <3> QED
      BY <1>5, <3>2
  <2> QED
    BY <1>4, <1>5, <2>1 DEF FilesKnown
<1>7. ASSUME NEW t \in live'
      PROVE  t[2] = "lost" \/ (active'[t[2]] = t[1] /\ (t \in live \/ t[1] = me))
  <2>1. CASE t \in live
    <3>1. t[2] \in Owners \cup {"lost"} /\ t[1] \in Nat \ {0}
      BY <2>1 DEF TypeInv, PidInv
    <3>2. t[2] = "lost" \/ active[t[2]] = t[1]
      BY <1>1, <2>1 DEF TestsKnown
    <3>3. t[2] = "lost" \/ (t[1] = me /\ active[t[2]] = me)
      BY <1>5, <3>1, <3>2
    <3> QED
      BY <1>3, <2>1, <3>1, <3>3 DEF TypeInv
  <2>2. CASE t = <<me, "lost">>
    BY <2>2
  <2>3. CASE t = <<me, o>>
    BY <1>5, <2>3
  <2> QED
    BY <1>3, <2>1, <2>2, <2>3
<1>8. TestsKnown'
  <2>1. ASSUME "killed" \notin hist', NEW t \in live'
        PROVE  t[2] = "lost" \/ \E q \in Slots : Busy(q)' /\ proc'[q].pid = t[1]
    <3>1. CASE t \in live
      BY <1>1, <1>2, <2>1, <3>1 DEF TestsKnown
    <3>2. CASE t \notin live
      BY <1>7, <3>2
    <3> QED
      BY <3>1, <3>2
  <2> QED
    BY <1>7, <2>1 DEF TestsKnown
<1>9. ASSUME NEW q \in Slots PROVE EvaluationTests(q)'
  <2>1. CASE q # p
    BY <1>4, <2>1, EvaluatingBusy DEF EvaluationTests, Busy
  <2>2. CASE q = p
    <3> SUFFICES ASSUME proc'[p].pc \in Evaluating, NEW t \in live', t[1] = me
                 PROVE  \/ t[2] = "lost"
                        \/ proc'[p].pc = "eload" /\ t[2] = "forecast"
                        \/ proc'[p].pc = "epublish" /\ t[2] = "final"
      BY <2>2 DEF EvaluationTests
    <3>1. CASE t \in live
      BY <1>1, <3>1 DEF EvaluationTests, Evaluating
    <3>2. CASE t \notin live
      BY <1>3, <3>2
    <3> QED
      BY <3>1, <3>2
  <2> QED
    BY <2>1, <2>2
<1> QED
  BY <1>6, <1>8, <1>9

\* A stop of the launch at work keeps what is known of the tests.
LEMMA StopTests ==
    ASSUME TypeInv, PidInv, LockInv, TestInv, NEW p \in Slots, NEW o \in Owners,
           Stop(p, o), OthersStay(p), Busy(p),
           \/ Busy(p)' /\ proc'[p].pid = proc[p].pid
           \/ /\ proc'[p].pc = "idle"
              /\ \/ proc[p].pc = "eload" /\ o = "forecast"
                 \/ proc[p].pc = "epublish" /\ o = "final",
           proc'[p].pc \in Evaluating =>
               proc[p].pc = "eload" /\ proc'[p].pc = "eroll" /\ o = "forecast"
    PROVE  TestInv'
<1> SUFFICES ASSUME Defended'
             PROVE  FilesKnown' /\ TestsKnown' /\ \A q \in Slots : EvaluationTests(q)'
  BY DEF TestInv
<1> DEFINE me == proc[p].pid
<1>1. /\ live' = live \ {<<me, o>>}
      /\ active' = [active EXCEPT ![o] = 0]
      /\ hist' = hist
  BY DEF Stop, Defended
<1>2. /\ FilesKnown /\ TestsKnown /\ \A q \in Slots : EvaluationTests(q)
      /\ "overlap" \notin hist
  BY <1>1 DEF TestInv, Defended
<1>3. /\ \A q \in Slots : q # p => ~Busy(q)
      /\ \A q \in Slots : q # p /\ proc[q].pc # "idle" => proc[q].pid # me
      /\ me \in 1 .. launches
  BY <1>2, WorksAlone
<1>4. \A q \in Slots : q # p => ~Busy(q)' /\ proc'[q] = proc[q]
  BY <1>3, OthersBusy DEF OthersStay
<1>5. \A x \in Owners : active'[x] \in {0, me} /\ active[x] \in {0, me}
  BY <1>1, <1>2 DEF FilesKnown, TypeInv
<1>6. FilesKnown'
  <2>1. ASSUME NEW q \in Slots, Busy(q)', NEW x \in Owners
        PROVE  active'[x] \in {0, proc'[q].pid}
    BY <1>4, <1>5, <2>1 DEF Busy, Training, Closing, Evaluating
  <2>2. ASSUME NEW q \in Slots, proc'[q].pc # "idle", ~Busy(q)', NEW x \in Owners
        PROVE  active'[x] # proc'[q].pid
    <3>1. q # p
      BY <2>2
    <3>2. proc[q].pid # me /\ proc[q].pid \in 1 .. launches /\ proc'[q] = proc[q]
      BY <1>3, <1>4, <2>2, <3>1 DEF PidInv
    <3> QED
      BY <1>5, <3>2
  <2> QED
    BY <2>1, <2>2 DEF FilesKnown
<1>7. ASSUME NEW t \in live', t[2] # "lost"
      PROVE  active'[t[2]] = t[1] /\ t[1] = me
  <2>1. t \in live /\ t # <<me, o>> /\ t[2] \in Owners /\ t[1] \in Nat \ {0} /\ t = <<t[1], t[2]>>
    BY <1>1, <1>7 DEF TypeInv, PidInv
  <2>2. active[t[2]] = t[1] /\ t[1] = me
    BY <1>2, <1>5, <1>7, <2>1 DEF TestsKnown
  <2>3. t[2] # o
    BY <2>1, <2>2
  <2> QED
    BY <1>1, <2>1, <2>2, <2>3 DEF TypeInv
<1>8. TestsKnown'
  <2>1. ASSUME NEW t \in live', t[2] # "lost"
        PROVE  \E q \in Slots : Busy(q)' /\ proc'[q].pid = t[1]
    <3>1. CASE Busy(p)' /\ proc'[p].pid = proc[p].pid
      BY <1>7, <2>1, <3>1
    <3>2. CASE \/ proc[p].pc = "eload" /\ o = "forecast"
               \/ proc[p].pc = "epublish" /\ o = "final"
      <4>1. t \in live /\ t[1] = me /\ t[2] # o
        <5>1. t \in live /\ t # <<me, o>> /\ t = <<t[1], t[2]>>
          BY <1>1 DEF TypeInv
        <5> QED
          BY <1>7, <2>1, <5>1
      <4> QED
        BY <1>2, <2>1, <3>2, <4>1 DEF EvaluationTests, Evaluating
    <3> QED
      BY <3>1, <3>2
  <2> QED
    BY <1>7, <2>1 DEF TestsKnown
<1>9. ASSUME NEW q \in Slots PROVE EvaluationTests(q)'
  <2>1. CASE q # p
    BY <1>4, <2>1, EvaluatingBusy DEF EvaluationTests, Busy
  <2>2. CASE q = p
    <3> SUFFICES ASSUME proc'[p].pc \in Evaluating, NEW t \in live', t[1] = proc'[p].pid
                 PROVE  t[2] = "lost"
      BY <2>2 DEF EvaluationTests
    <3>1. t \in live /\ t # <<me, o>> /\ t = <<t[1], t[2]>> /\ t[1] = me
      <4>1. proc'[p].pid = me
        BY DEF Evaluating
      <4> QED
        BY <1>1, <4>1 DEF TypeInv
    <3> QED
      BY <1>2, <3>1 DEF EvaluationTests, Evaluating
  <2> QED
    BY <2>1, <2>2
<1> QED
  BY <1>6, <1>8, <1>9

\* The file of a live launch is not stale.
LEMMA LiveAreRunning ==
    ASSUME NEW p \in Slots, proc[p].pc # "idle", NEW o \in Owners, active[o] = proc[p].pid
    PROVE  o \notin Stale(FALSE)
  BY DEF Stale, PidIsAlive, Runs

\* The clean-up of stale files beside a launch at work, by one that is not.
LEMMA CleanupTests ==
    ASSUME TypeInv, PidInv, TestInv, NEW p \in Slots, NEW before, hist \subseteq before,
           Cleanup(FALSE, before), OthersStay(p), ~Busy(p), ~Busy(p)',
           proc'[p].pc = "idle" \/ \A o \in Owners : active[o] # proc'[p].pid,
           proc'[p].pc = "idle" \/ proc'[p].pid \in Nat \ {0}
    PROVE  TestInv'
<1> SUFFICES ASSUME Defended'
             PROVE  FilesKnown' /\ TestsKnown' /\ \A q \in Slots : EvaluationTests(q)'
  BY DEF TestInv
<1>1. /\ live' = live \ { <<active[o], o>> : o \in Stale(FALSE) }
      /\ active' = [o \in Owners |-> IF o \in Stale(FALSE) THEN 0 ELSE active[o]]
      /\ hist' = before
  BY CleanupWhole DEF Defended
<1>2. FilesKnown /\ TestsKnown /\ \A q \in Slots : EvaluationTests(q)
  BY <1>1 DEF TestInv, Defended
<1>3. \A q \in Slots : q # p => (Busy(q)' <=> Busy(q)) /\ proc'[q] = proc[q]
  BY OthersBusy DEF OthersStay
<1>4. \A x \in Owners : active'[x] \in {0, active[x]}
  BY <1>1
<1>5. FilesKnown'
  <2>1. ASSUME NEW q \in Slots, Busy(q)', NEW x \in Owners
        PROVE  active'[x] \in {0, proc'[q].pid}
    BY <1>2, <1>3, <1>4, <2>1 DEF FilesKnown
  <2>2. ASSUME NEW q \in Slots, proc'[q].pc # "idle", ~Busy(q)', NEW x \in Owners
        PROVE  active'[x] # proc'[q].pid
    <3>1. CASE q = p
      BY <1>4, <2>2, <3>1
    <3>2. CASE q # p
      <4>1. proc[q].pid \in 1 .. launches /\ active[x] # proc[q].pid /\ proc'[q] = proc[q]
        BY <1>2, <1>3, <2>2, <3>2 DEF PidInv, FilesKnown
      <4> QED
        BY <1>4, <4>1
    <3> QED
      BY <3>1, <3>2
  <2> QED
    BY <2>1, <2>2 DEF FilesKnown
<1>6. ASSUME NEW t \in live'
      PROVE  t \in live /\ (t[2] = "lost" \/ active'[t[2]] = t[1])
  <2>1. t \in live /\ t[2] \in Owners \cup {"lost"} /\ t = <<t[1], t[2]>>
    BY <1>1 DEF TypeInv
  <2>2. CASE t[2] # "lost"
    <3>1. active[t[2]] = t[1] /\ t[2] \in Owners
      BY <1>2, <2>1, <2>2 DEF TestsKnown
    <3>2. t[2] \notin Stale(FALSE)
      BY <1>1, <2>1, <3>1
    <3> QED
      BY <1>1, <2>1, <3>1, <3>2
  <2> QED
    BY <2>1, <2>2
<1>7. TestsKnown'
  BY <1>1, <1>2, <1>3, <1>6, ZenonT(60) DEF TestsKnown
<1>8. \A q \in Slots : EvaluationTests(q)'
  BY <1>2, <1>3, <1>6, EvaluatingBusy DEF EvaluationTests, Busy
<1> QED
  BY <1>5, <1>7, <1>8

\* An evaluation begins where no file names a live launch.
LEMMA BeginTests ==
    ASSUME TypeInv, PidInv, TestInv, NEW p \in Slots, NEW before, hist \subseteq before,
           Cleanup(FALSE, before), OthersStay(p), Untested(p), LiveOwners = {},
           proc'[p].pc = "eforecast", proc'[p].pid = proc[p].pid
    PROVE  TestInv'
<1> SUFFICES ASSUME Defended'
             PROVE  FilesKnown' /\ TestsKnown' /\ \A q \in Slots : EvaluationTests(q)'
  BY DEF TestInv
<1>1. /\ live' = live \ { <<active[o], o>> : o \in Stale(FALSE) }
      /\ active' = [o \in Owners |-> IF o \in Stale(FALSE) THEN 0 ELSE active[o]]
      /\ hist' = before
  BY CleanupWhole DEF Defended
<1>2. FilesKnown /\ TestsKnown /\ \A q \in Slots : EvaluationTests(q)
  BY <1>1 DEF TestInv, Defended
<1>3. \A q \in Slots : q # p => (Busy(q)' <=> Busy(q)) /\ proc'[q] = proc[q]
  BY OthersBusy DEF OthersStay
<1>4. \A x \in Owners : active'[x] = 0
  BY <1>1 DEF LiveOwners, Stale
<1>5. \A q \in Slots : proc'[q].pc # "idle" => proc'[q].pid \in 1 .. launches
  BY <1>3 DEF PidInv, Untested
<1>6. FilesKnown'
  BY <1>4, <1>5 DEF FilesKnown
<1>7. ASSUME NEW t \in live'
      PROVE  t[2] = "lost"
  <2>1. t \in live /\ t[2] \in Owners \cup {"lost"} /\ t[1] \in Nat \ {0} /\ t = <<t[1], t[2]>>
    BY <1>1 DEF TypeInv, PidInv
  <2>2. ASSUME t[2] # "lost"
        PROVE  FALSE
    <3>1. active[t[2]] = t[1] /\ t[2] \in Owners
      BY <1>2, <2>1, <2>2 DEF TestsKnown
    <3>2. t[2] \in Stale(FALSE)
      BY <2>1, <3>1 DEF LiveOwners, Stale
    <3> QED
      BY <1>1, <2>1, <3>1, <3>2
  <2> QED
    BY <2>2
<1>8. TestsKnown' /\ \A q \in Slots : EvaluationTests(q)'
  BY <1>7 DEF TestsKnown, EvaluationTests
<1> QED
  BY <1>6, <1>8

\* The forced clean-up at the end of a launch that had begun its work.
LEMMA ForcedTests ==
    ASSUME TypeInv, PidInv, LockInv, TestInv, NEW p \in Slots, Busy(p),
           Cleanup(TRUE, hist), OthersStay(p), proc'[p].pc = "final",
           proc'[p].pid = proc[p].pid
    PROVE  TestInv'
<1> SUFFICES ASSUME Defended'
             PROVE  FilesKnown' /\ TestsKnown' /\ \A q \in Slots : EvaluationTests(q)'
  BY DEF TestInv
<1>1. /\ live' = live \ { <<active[o], o>> : o \in Stale(TRUE) }
      /\ active' = [o \in Owners |-> IF o \in Stale(TRUE) THEN 0 ELSE active[o]]
      /\ hist' = hist
  BY CleanupWhole DEF Defended
<1>2. FilesKnown /\ TestsKnown
  BY <1>1 DEF TestInv, Defended
<1>3. \A x \in Owners : active'[x] = 0
  BY <1>1 DEF Stale
<1>4. proc[p].pc # "idle"
  BY DEF Busy, Training, Closing, Evaluating
<1>5. \A q \in Slots : proc'[q].pc # "idle" => proc'[q].pid \in 1 .. launches
  BY <1>4 DEF PidInv, OthersStay
<1>6. FilesKnown'
  BY <1>3, <1>5 DEF FilesKnown
<1>7. ASSUME NEW t \in live'
      PROVE  t[2] = "lost"
  <2>1. t \in live /\ t[2] \in Owners \cup {"lost"} /\ t[1] \in Nat \ {0} /\ t = <<t[1], t[2]>>
    BY <1>1 DEF TypeInv, PidInv
  <2>2. ASSUME t[2] # "lost"
        PROVE  FALSE
    <3>1. active[t[2]] = t[1] /\ t[2] \in Owners
      BY <1>2, <2>1, <2>2 DEF TestsKnown
    <3>2. t[2] \in Stale(TRUE)
      BY <2>1, <3>1 DEF Stale
    <3> QED
      BY <1>1, <2>1, <3>1, <3>2
  <2> QED
    BY <2>2
<1>8. TestsKnown' /\ \A q \in Slots : EvaluationTests(q)'
  BY <1>7 DEF TestsKnown, EvaluationTests
<1> QED
  BY <1>6, <1>8

\* A launch that fails or is interrupted stops the test it was using.
LEMMA LeaveEarlyTests ==
    ASSUME TypeInv, PidInv, LockInv, TestInv, NEW p \in Slots, LeaveEarly(p)
    PROVE  TestInv'
<1> SUFFICES ASSUME Defended'
             PROVE  FilesKnown' /\ TestsKnown' /\ \A q \in Slots : EvaluationTests(q)'
  BY DEF TestInv
<1> DEFINE me == proc[p].pid
           gone(o) == <<me, o>> \in live /\ o \in {"forecast", "week"}
<1>1. /\ live' = live \ { <<me, o>> : o \in {"forecast", "week"} }
      /\ active' = [o \in Owners |-> IF gone(o) THEN 0 ELSE active[o]]
      /\ hist \subseteq hist'
  BY DEF LeaveEarly
<1>2. /\ FilesKnown /\ TestsKnown /\ \A q \in Slots : EvaluationTests(q)
      /\ "overlap" \notin hist
  BY <1>1 DEF TestInv, Defended
<1>3. /\ proc[p].pc \in Training /\ proc'[p].pc = "leave"
      /\ proc'[p].pid = me /\ OthersStay(p)
  BY LeaveEarlyProc DEF Keeps
<1>4. Busy(p) /\ Busy(p)'
  BY <1>3 DEF Busy, Training
<1>5. /\ \A q \in Slots : q # p => ~Busy(q)
      /\ \A q \in Slots : q # p /\ proc[q].pc # "idle" => proc[q].pid # me
      /\ me \in 1 .. launches
  BY <1>2, <1>4, WorksAlone
<1>6. \A q \in Slots : q # p => ~Busy(q)' /\ proc'[q] = proc[q]
  BY <1>3, <1>5, OthersBusy DEF OthersStay
<1>7. \A x \in Owners : active'[x] \in {0, me} /\ active[x] \in {0, me}
  BY <1>1, <1>2, <1>4 DEF FilesKnown
<1>8. FilesKnown'
  <2>1. ASSUME NEW q \in Slots, proc'[q].pc # "idle", ~Busy(q)', NEW x \in Owners
        PROVE  active'[x] # proc'[q].pid
    <3>1. q # p
      BY <1>4, <2>1
    <3>2. proc[q].pid # me /\ proc[q].pid \in 1 .. launches /\ proc'[q] = proc[q]
      BY <1>5, <1>6, <2>1, <3>1 DEF PidInv
    <3> QED
      BY <1>7, <3>2
  <2> QED
    BY <1>3, <1>6, <1>7, <2>1 DEF FilesKnown
<1>9. ASSUME NEW t \in live', t[2] # "lost"
      PROVE  active'[t[2]] = t[1] /\ t[1] = me
  <2>1. t \in live /\ t[2] \in Owners /\ t[1] \in Nat \ {0} /\ t = <<t[1], t[2]>>
    BY <1>1, <1>9 DEF TypeInv, PidInv
  <2>2. active[t[2]] = t[1] /\ t[1] = me
    BY <1>2, <1>7, <1>9, <2>1 DEF TestsKnown
  <2>3. ~gone(t[2])
    BY <1>1, <2>1, <2>2
  <2> HIDE DEF gone
  <2> QED
    BY <1>1, <2>1, <2>2, <2>3
<1>10. TestsKnown'
  BY <1>3, <1>4, <1>9 DEF TestsKnown
<1>11. \A q \in Slots : EvaluationTests(q)'
  BY <1>3, <1>6, EvaluatingBusy DEF EvaluationTests, Busy, Evaluating
<1> QED
  BY <1>8, <1>10, <1>11

\* A kill leaves tests and files, and is recorded.
LEMMA KillTests ==
    ASSUME TypeInv, PidInv, TestInv, NEW p \in Slots, Kill(p)
    PROVE  TestInv'
<1> SUFFICES ASSUME Defended'
             PROVE  FilesKnown' /\ TestsKnown' /\ \A q \in Slots : EvaluationTests(q)'
  BY DEF TestInv
<1>1. /\ \A t \in live' : t \in live \/ t = <<proc[p].pid, "lost">>
      /\ active' = active
      /\ hist \subseteq hist' /\ "killed" \in hist'
      /\ proc[p].pc # "idle"
  <2>1. /\ active' = active /\ proc[p].pc # "idle"
        /\ live' \in { live, live \cup { <<proc[p].pid, "lost">> : x \in {proc[p].pc} \cap Selecting } }
        /\ hist' = hist \cup {"killed"} \cup (IF proc[p].pc = "mark" THEN {"unmarked"} ELSE {})
    BY DEF Kill
  <2> QED
    BY <2>1
<1>2. FilesKnown /\ TestsKnown /\ \A q \in Slots : EvaluationTests(q)
  BY <1>1 DEF TestInv, Defended
<1>3. proc'[p].pc = "idle" /\ OthersStay(p)
  BY EndProc
<1>4. \A q \in Slots : q # p => (Busy(q)' <=> Busy(q)) /\ proc'[q] = proc[q]
  BY <1>3, OthersBusy DEF OthersStay
<1>5. ~Busy(p)'
  BY <1>3 DEF Busy, Training, Closing, Evaluating
<1>6. FilesKnown'
  BY <1>1, <1>2, <1>3, <1>4, <1>5 DEF FilesKnown
<1>7. TestsKnown'
  BY <1>1, <1>2 DEF TestsKnown
<1>8. ASSUME NEW q \in Slots PROVE EvaluationTests(q)'
  BY <1>1, <1>2, <1>3, <1>4 DEF EvaluationTests, Evaluating
<1> QED
  BY <1>6, <1>7, <1>8

\* Who takes the lock unrecorded as an overlap finds nobody at work.
LEMMA TakeLockAlone ==
    ASSUME TypeInv, StageInv, LockInv, NEW p \in Slots, TakeLock(p), "overlap" \notin hist'
    PROVE  \A q \in Slots : q # p => ~Busy(q)
<1>1. "overlap" \notin hist /\ ~Undefended(p)
  BY DEF TakeLock
<1>2. proc[p].sawFree
  BY DEF TakeLock, StageInv, StageOf
<1> QED
  BY <1>1, <1>2 DEF Undefended, LockInv

\* Who takes the lock finds no file, unless the tests of a dead launch were overwritten.
LEMMA TakeLockTests ==
    ASSUME TypeInv, PidInv, StageInv, LockInv, TestInv, NEW p \in Slots, TakeLock(p)
    PROVE  TestInv'
<1> SUFFICES ASSUME Defended'
             PROVE  FilesKnown' /\ TestsKnown' /\ \A q \in Slots : EvaluationTests(q)'
  BY DEF TestInv
<1>1. /\ live' = live /\ active' = active /\ hist \subseteq hist'
      /\ \A o \in Owners : active[o] = 0 \/ Runs(active[o])
  BY DEF TakeLock, Defended
<1>2. FilesKnown /\ TestsKnown
  BY <1>1 DEF TestInv, Defended
<1>3. \A q \in Slots : q # p => ~Busy(q)
  BY TakeLockAlone DEF Defended
<1>4. /\ proc[p].pc = "take" /\ proc'[p].pc = "forecast"
      /\ proc'[p].pid = proc[p].pid /\ OthersStay(p)
  BY TakeLockProc
<1>5. \A q \in Slots : ~Busy(q)
  BY <1>3, <1>4 DEF Busy, Training, Closing, Evaluating
<1>6. \A o \in Owners : active[o] = 0
  BY <1>1, <1>2, <1>5 DEF Runs, FilesKnown
<1>7. \A q \in Slots : proc'[q].pc # "idle" => proc'[q].pid \in 1 .. launches
  BY <1>4 DEF PidInv, OthersStay
<1>8. FilesKnown'
  BY <1>1, <1>6, <1>7 DEF FilesKnown
<1>9. \A t \in live : t[2] = "lost"
  <2>1. \A t \in live : t[2] \in Owners \cup {"lost"} /\ t[1] \in Nat \ {0}
    BY DEF TypeInv, PidInv
  <2> QED
    BY <1>2, <1>6, <2>1 DEF TestsKnown
<1>10. TestsKnown' /\ \A q \in Slots : EvaluationTests(q)'
  BY <1>1, <1>9 DEF TestsKnown, EvaluationTests
<1> QED
  BY <1>8, <1>10

-----------------------------------------------------------------------------
(* The bundles and their pointers. *)

\* A step that leaves bundles and pointers alone keeps them loadable.
LEMMA DiskKept ==
    ASSUME DiskInv, NEW p \in Slots, OthersStay(p),
           latest' = latest, best' = best, bundles' = bundles, hist \subseteq hist',
           Alone' => (DiskStage(p) => DiskStage(p)')
    PROVE  DiskInv'
<1> SUFFICES ASSUME Alone'
             PROVE  PointersLoad' /\ \A q \in Slots : DiskStage(q)'
  BY DEF DiskInv
<1>1. PointersLoad /\ \A q \in Slots : DiskStage(q)
  BY DEF DiskInv, Alone
<1>2. PointersLoad'
  BY <1>1 DEF PointersLoad, Loads
<1>3. \A q \in Slots : q # p => DiskStage(q)'
  BY <1>1 DEF DiskStage, Bundle, OthersStay
<1> QED
  BY <1>1, <1>2, <1>3

\* The launch that writes the disk is the only one that trains.
LEMMA DiskBy ==
    ASSUME TypeInv, PidInv, LockInv, NEW p \in Slots, Busy(p), OthersStay(p), hist' = hist,
           Alone => PointersLoad' /\ DiskStage(p)'
    PROVE  DiskInv'
<1> SUFFICES ASSUME Alone, NEW q \in Slots, q # p
             PROVE  DiskStage(q)'
  BY DEF DiskInv, Alone
<1>1. ~Busy(q) /\ proc'[q] = proc[q]
  BY WorksAlone DEF Alone, OthersStay
<1> QED
  BY <1>1 DEF DiskStage, Busy, Training

\* A pointer is none exactly when its epoch is 0.
LEMMA PointerEpoch ==
    ASSUME NEW l \in Pointers
    PROVE  /\ l # None <=> l.epoch # 0
           /\ l # None => l \in Bundles /\ l.epoch \in 1 .. MaxEpochs
           /\ l.epoch \in 0 .. MaxEpochs
  BY LegacyTrainingAssumption DEF Pointers, Bundles, None, LegacyTrainingAssumption

\* What a launch saves is a bundle of the epoch it has reached.
LEMMA BundleType ==
    ASSUME TypeInv, StageInv, NEW p \in Slots, proc[p].pc \in {"files", "bundle", "pointer", "mark"}
    PROVE  /\ proc[p].st.epoch \in 1 .. MaxEpochs
           /\ Bundle(p) \in Bundles /\ Bundle(p).epoch = proc[p].st.epoch
           /\ Bundle(p) # None
<1>1. /\ proc[p].st \in States /\ proc[p].pid \in Nat /\ proc[p].st.epoch > 0
  BY DEF TypeInv, ProcType, StageInv, StageOf
<1>2. proc[p].st.epoch \in 1 .. MaxEpochs
  BY <1>1, LegacyTrainingAssumption DEF States, LegacyTrainingAssumption
<1>3. Bundle(p) \in Bundles /\ Bundle(p).epoch = proc[p].st.epoch
  BY <1>1, <1>2 DEF Bundle, Bundles, States
<1> QED
  BY <1>2, <1>3, PointerEpoch DEF Pointers

\* The bundle of a launch is the same until its training state changes.
LEMMA BundleStays ==
    ASSUME NEW p \in Slots, Keeps(p), proc'[p].st = proc[p].st
    PROVE  Bundle(p)' = Bundle(p)
  BY DEF Keeps, Bundle

\* Pruning leaves the files of both pointers alone.
LEMMA PruneKeeps ==
    ASSUME TypeInv, NEW l, NEW b, NEW ord, Prune(bundles, l, b, ord)
    PROVE  /\ bundles' \in [1 .. MaxEpochs -> [data : Pointers \cup {Torn}, manifest : Pointers]]
           /\ \A e \in 1 .. MaxEpochs : e = l.epoch \/ e = b.epoch => bundles'[e] = bundles[e]
<1> DEFINE kept == Pinned(l, b, ord)
<1>1. bundles' = [e \in 1 .. MaxEpochs |->
                     IF e \notin kept /\ bundles[e].manifest # None THEN NoFiles ELSE bundles[e]]
  BY DEF Prune, TypeInv
<1>2. l.epoch \in kept /\ b.epoch \in kept
  BY DEF Pinned
<1>3. NoFiles \in [data : Pointers \cup {Torn}, manifest : Pointers]
  BY DEF NoFiles, Pointers
<1> HIDE DEF kept
<1> QED
  BY <1>1, <1>2, <1>3 DEF TypeInv

\* The first files of a bundle are those of an epoch no pointer names yet.
LEMMA WriteFilesDisk ==
    ASSUME TypeInv, PidInv, StageInv, LockInv, DiskInv, NEW p \in Slots, WriteFiles(p)
    PROVE  /\ bundles' \in [1 .. MaxEpochs -> [data : Pointers \cup {Torn}, manifest : Pointers]]
           /\ DiskInv'
<1> DEFINE e == proc[p].st.epoch
           torn == [data |-> Torn, manifest |-> bundles[e].manifest]
<1>1. /\ proc[p].pc = "files" /\ proc'[p].pc = "bundle"
      /\ Keeps(p) /\ proc'[p].st = proc[p].st /\ OthersStay(p)
  BY WriteFilesProc
<1>2. e \in 1 .. MaxEpochs
  BY <1>1, BundleType
<1>3. bundles[e] \in [data : Pointers \cup {Torn}, manifest : Pointers]
  BY <1>2 DEF TypeInv
<1>4. torn \in [data : Pointers \cup {Torn}, manifest : Pointers]
  BY <1>3
<1>5. bundles' = [bundles EXCEPT ![e] = torn]
  <2>1. bundles' = [bundles EXCEPT ![e] = [bundles[e] EXCEPT !.data = Torn]]
    BY DEF WriteFiles
  <2>2. [bundles[e] EXCEPT !.data = Torn] = torn
    BY <1>3
  <2> QED
    BY <2>1, <2>2
<1> HIDE DEF torn, e
<1>6. /\ bundles' \in [1 .. MaxEpochs -> [data : Pointers \cup {Torn}, manifest : Pointers]]
      /\ \A x \in 1 .. MaxEpochs : x # e => bundles'[x] = bundles[x]
  BY <1>2, <1>4, <1>5 DEF TypeInv
<1>7. latest' = latest /\ best' = best /\ hist' = hist /\ Busy(p)
  BY <1>1 DEF WriteFiles, disk, counters, Busy, Training
<1>8. ASSUME Alone
      PROVE  PointersLoad' /\ DiskStage(p)'
  <2>1. PointersLoad /\ e = latest.epoch + 1
    BY <1>1, <1>8 DEF DiskInv, DiskStage, e
  <2>2. /\ latest.epoch \in Nat /\ best.epoch \in Nat
        /\ latest # None => latest.epoch \in 1 .. MaxEpochs
        /\ best # None => best.epoch \in 1 .. MaxEpochs
    BY PointerEpoch, LegacyTrainingAssumption DEF TypeInv, LegacyTrainingAssumption
  <2>3. latest # None => bundles'[latest.epoch] = bundles[latest.epoch]
    BY <1>6, <2>1, <2>2
  <2>4. best # None => bundles'[best.epoch] = bundles[best.epoch]
    BY <1>6, <2>1, <2>2 DEF PointersLoad
  <2>5. PointersLoad'
    BY <1>7, <2>1, <2>3, <2>4 DEF PointersLoad, Loads
  <2>6. DiskStage(p)'
    BY <1>1, <1>7, <2>1 DEF DiskStage, e
  <2> QED
    BY <2>5, <2>6
<1> QED
  BY <1>1, <1>6, <1>7, <1>8, DiskBy

\* The bundle is whole before a pointer names it.
LEMMA CommitBundleDisk ==
    ASSUME TypeInv, PidInv, StageInv, LockInv, DiskInv, NEW p \in Slots, CommitBundle(p)
    PROVE  /\ bundles' \in [1 .. MaxEpochs -> [data : Pointers \cup {Torn}, manifest : Pointers]]
           /\ DiskInv'
<1> DEFINE e == proc[p].st.epoch
           whole == [data |-> Bundle(p), manifest |-> Bundle(p)]
<1>1. /\ proc[p].pc = "bundle" /\ proc'[p].pc = "pointer"
      /\ Keeps(p) /\ proc'[p].st = proc[p].st /\ OthersStay(p)
  BY CommitBundleProc
<1>2. e \in 1 .. MaxEpochs /\ Bundle(p) \in Bundles
  BY <1>1, BundleType
<1>3. whole \in [data : Pointers \cup {Torn}, manifest : Pointers]
  BY <1>2 DEF Pointers
<1>4. bundles' = [bundles EXCEPT ![e] = whole]
  BY DEF CommitBundle
<1>5. whole' = whole /\ e' = e
  BY <1>1, BundleStays
<1> HIDE DEF whole, e
<1>6. /\ bundles' \in [1 .. MaxEpochs -> [data : Pointers \cup {Torn}, manifest : Pointers]]
      /\ \A x \in 1 .. MaxEpochs : x # e => bundles'[x] = bundles[x]
      /\ bundles'[e] = whole
  BY <1>2, <1>3, <1>4 DEF TypeInv
<1>7. latest' = latest /\ best' = best /\ hist' = hist /\ Busy(p)
  BY <1>1 DEF CommitBundle, counters, Busy, Training
<1>8. ASSUME Alone
      PROVE  PointersLoad' /\ DiskStage(p)'
  <2>1. PointersLoad /\ e = latest.epoch + 1
    BY <1>1, <1>8 DEF DiskInv, DiskStage, e
  <2>2. /\ latest.epoch \in Nat /\ best.epoch \in Nat
        /\ latest # None => latest.epoch \in 1 .. MaxEpochs
        /\ best # None => best.epoch \in 1 .. MaxEpochs
    BY PointerEpoch, LegacyTrainingAssumption DEF TypeInv, LegacyTrainingAssumption
  <2>3. latest # None => bundles'[latest.epoch] = bundles[latest.epoch]
    BY <1>6, <2>1, <2>2
  <2>4. best # None => bundles'[best.epoch] = bundles[best.epoch]
    BY <1>6, <2>1, <2>2 DEF PointersLoad
  <2>5. PointersLoad'
    BY <1>7, <2>1, <2>3, <2>4 DEF PointersLoad, Loads
  <2>6. bundles'[proc'[p].st.epoch] = [data |-> Bundle(p)', manifest |-> Bundle(p)']
    BY <1>5, <1>6 DEF whole, e
  <2>7. DiskStage(p)'
    BY <1>1, <1>7, <2>1, <2>6 DEF DiskStage, e
  <2> QED
    BY <2>5, <2>7
<1> QED
  BY <1>1, <1>6, <1>7, <1>8, DiskBy

\* latest.json moves to a whole bundle, and best.json keeps its own.
LEMMA MovePointerDisk ==
    ASSUME TypeInv, PidInv, StageInv, LockInv, DiskInv, NEW p \in Slots, MovePointer(p)
    PROVE  /\ bundles' \in [1 .. MaxEpochs -> [data : Pointers \cup {Torn}, manifest : Pointers]]
           /\ latest' \in Pointers
           /\ DiskInv'
<1> DEFINE l == Bundle(p)
<1>1. /\ proc[p].pc = "pointer" /\ proc'[p].pc \in {"mark", "trained", "rollout"}
      /\ Keeps(p) /\ proc'[p].st = proc[p].st /\ OthersStay(p)
  BY MovePointerProc
<1>2. /\ l \in Bundles /\ l # None /\ l.epoch = proc[p].st.epoch
      /\ l.epoch \in 1 .. MaxEpochs
  BY <1>1, BundleType
<1>3. /\ latest' = l /\ best' = best /\ hist' = hist
      /\ Prune(bundles, l, best, order)
  BY DEF MovePointer, counters
<1>4. /\ bundles' \in [1 .. MaxEpochs -> [data : Pointers \cup {Torn}, manifest : Pointers]]
      /\ \A e \in 1 .. MaxEpochs : e = l.epoch \/ e = best.epoch => bundles'[e] = bundles[e]
  BY <1>3, PruneKeeps
<1>5. Busy(p)
  BY <1>1 DEF Busy, Training
<1>6. ASSUME Alone
      PROVE  PointersLoad' /\ DiskStage(p)'
  <2>1. /\ PointersLoad /\ l.epoch = latest.epoch + 1
        /\ bundles[l.epoch] = [data |-> l, manifest |-> l]
    BY <1>1, <1>2, <1>6 DEF DiskInv, DiskStage
  <2>2. /\ latest.epoch \in Nat /\ best.epoch \in Nat
        /\ best # None => best.epoch \in 1 .. MaxEpochs
    BY PointerEpoch, LegacyTrainingAssumption DEF TypeInv, LegacyTrainingAssumption
  <2> HIDE DEF l
  <2>3. latest' # None /\ Loads(latest)'
    BY <1>2, <1>3, <1>4, <2>1 DEF Loads
  <2>4. best' # None => Loads(best)' /\ best'.epoch <= latest'.epoch
    <3> SUFFICES ASSUME best # None
                 PROVE  Loads(best)' /\ best'.epoch <= latest'.epoch
      BY <1>3
    <3>1. Loads(best) /\ best.epoch <= latest.epoch
      BY <2>1 DEF PointersLoad
    <3>2. Loads(best)'
      BY <1>3, <1>4, <2>2, <3>1 DEF Loads
    <3>3. best.epoch <= l.epoch
      BY <2>1, <2>2, <3>1
    <3> QED
      BY <1>3, <3>2, <3>3
  <2>5. DiskStage(p)'
    BY <1>1, <1>2, <1>3 DEF DiskStage
  <2> QED
    BY <2>3, <2>4, <2>5 DEF PointersLoad
<1> QED
  BY <1>1, <1>2, <1>3, <1>4, <1>5, <1>6, DiskBy DEF Pointers

\* best.json is set to what latest.json names.
LEMMA MarkBestDisk ==
    ASSUME TypeInv, PidInv, StageInv, LockInv, DiskInv, NEW p \in Slots, MarkBest(p)
    PROVE  /\ bundles' \in [1 .. MaxEpochs -> [data : Pointers \cup {Torn}, manifest : Pointers]]
           /\ best' \in Pointers
           /\ DiskInv'
<1> DEFINE e == proc[p].st.epoch
<1>1. /\ proc[p].pc = "mark" /\ proc'[p].pc \in {"trained", "rollout"}
      /\ Keeps(p) /\ proc'[p].st = proc[p].st /\ OthersStay(p)
  BY MarkBestProc
<1>2. e \in 1 .. MaxEpochs
  BY <1>1, BundleType
<1>3. /\ latest' = latest /\ best' = bundles[e].manifest /\ hist' = hist
      /\ Prune(bundles, latest, best', order)
  BY DEF MarkBest, counters
<1>4. best' \in Pointers
  BY <1>2, <1>3 DEF TypeInv
<1>5. /\ bundles' \in [1 .. MaxEpochs -> [data : Pointers \cup {Torn}, manifest : Pointers]]
      /\ \A x \in 1 .. MaxEpochs : x = latest.epoch => bundles'[x] = bundles[x]
  BY <1>3, PruneKeeps
<1>6. Busy(p)
  BY <1>1 DEF Busy, Training
<1>7. ASSUME Alone
      PROVE  PointersLoad' /\ DiskStage(p)'
  <2>1. /\ PointersLoad /\ latest # None /\ e = latest.epoch
    BY <1>1, <1>7 DEF DiskInv, DiskStage
  <2>2. bundles[e] = [data |-> latest, manifest |-> latest]
    BY <2>1 DEF PointersLoad, Loads
  <2>3. best' = latest
    BY <1>3, <2>2
  <2>4. bundles'[e] = bundles[e]
    BY <1>2, <1>5, <2>1
  <2>5. Loads(latest)' /\ Loads(best)'
    BY <1>3, <2>1, <2>2, <2>3, <2>4 DEF Loads
  <2>6. best'.epoch <= latest'.epoch
    BY <1>2, <1>3, <2>1, <2>3
  <2>7. DiskStage(p)'
    BY <1>1, <1>3, <2>1 DEF DiskStage
  <2> QED
    BY <1>3, <2>1, <2>5, <2>6, <2>7 DEF PointersLoad
<1> QED
  BY <1>1, <1>3, <1>4, <1>5, <1>6, <1>7, DiskBy

-----------------------------------------------------------------------------
(* Every step keeps the invariant. *)

LEMMA LaunchKeeps ==
    ASSUME Inv, NEW p \in Slots, NEW first \in {"read", "ebest"}, Launch(p, first)
    PROVE  Inv'
<1>0. TypeInv /\ PidInv /\ StageInv /\ LockInv /\ TestInv /\ DiskInv
  BY DEF Inv
<1>1. /\ proc' \in [Slots -> ProcType]
      /\ proc[p].pc = "idle" /\ proc'[p].pc = first
      /\ proc'[p].pid = launches + 1 /\ ~proc'[p].online
      /\ OthersStay(p)
  BY <1>0, LaunchProc
<1>2. Cleanup(FALSE, hist) /\ launches' = launches + 1 /\ launches \in Nat
  BY <1>0 DEF Launch, TypeInv
<1>3. TestsMove(p) /\ Quiet /\ faults' \in Nat
  BY <1>0, <1>2, CleanupMoves DEF TypeInv, Histories
<1>4. TypeInv'
  <2>1. OtherTypes'
    BY <1>0, <1>2, <1>3 DEF Launch, disk, TypeInv, OtherTypes
  <2> QED
    BY <1>0, <1>1, <1>3, <2>1, TypesKept
<1>5. PidInv'
  <2>1. ASSUME NEW q \in Slots, q # p
        PROVE  proc'[q] = proc[q]
    BY <1>1, <2>1 DEF OthersStay
  <2>2. ASSUME NEW q \in Slots, proc[q].pc # "idle"
        PROVE  proc[q].pid \in 1 .. launches
    BY <1>0, <2>2 DEF PidInv
  <2>3. \A q \in Slots : proc'[q].pc # "idle" => proc'[q].pid \in 1 .. launches'
    BY <1>1, <1>2, <2>1, <2>2
  <2>4. \A q, s \in Slots : q # s /\ proc'[q].pc # "idle" /\ proc'[s].pc # "idle"
            => proc'[q].pid # proc'[s].pid
    BY <1>0, <1>1, <1>2, <2>1, <2>2 DEF PidInv
  <2>5. \A t \in live' : t[1] \in 1 .. launches
    BY <1>0, <1>3 DEF Quiet, PidInv
  <2>6. \A o \in Owners : active'[o] \in 0 .. launches
    BY <1>0, <1>2, <1>3 DEF Quiet, PidInv
  <2>7. ASSUME NEW q \in Slots, Untested(q)'
        PROVE  /\ \A t \in live' : t[1] # proc'[q].pid
               /\ \A o \in Owners : active'[o] # proc'[q].pid
    <3>1. CASE q = p
      BY <1>1, <1>2, <2>5, <2>6, <3>1
    <3>2. CASE q # p
      <4>1. Untested(q) /\ proc[q].pc # "idle"
        BY <2>1, <2>7, <3>2 DEF Untested
      <4>2. proc'[q].pid = proc[q].pid /\ proc[q].pid \in 1 .. launches
        BY <2>1, <2>2, <3>2, <4>1
      <4> QED
        BY <1>0, <1>3, <4>1, <4>2 DEF Quiet, PidInv
    <3> QED
      BY <3>1, <3>2
  <2> QED
    BY <1>2, <2>3, <2>4, <2>5, <2>6, <2>7 DEF PidInv
<1>6. StageInv'
  BY <1>0, <1>1, StagesKept DEF StageOf, Training
<1>7. ~Busy(p) /\ ~Busy(p)'
  BY <1>1 DEF Busy, Training, Closing, Evaluating
<1>8. LockInv'
  BY <1>0, <1>1, <1>3, <1>7, LocksKept DEF Launch, TestsMove, Training
<1>9. TestInv'
  <2>1. \A o \in Owners : active[o] # proc'[p].pid
    BY <1>0, <1>1, <1>2 DEF PidInv
  <2>2. proc'[p].pid \in Nat \ {0} /\ hist \subseteq hist
    BY <1>1, <1>2
  <2>3. ~Busy(p) /\ ~Busy(p)' /\ Cleanup(FALSE, hist) /\ OthersStay(p)
    BY <1>1, <1>2, <1>7
  <2> QED
    BY <1>0, <2>1, <2>2, <2>3, CleanupTests
<1>10. DiskInv'
  BY <1>0, <1>1, <1>3, DiskKept DEF Launch, disk, TestsMove, DiskStage
<1> QED
  BY <1>4, <1>5, <1>6, <1>8, <1>9, <1>10 DEF Inv

LEMMA FetchForecastKeeps ==
    ASSUME Inv, NEW p \in Slots, FetchForecast(p)
    PROVE  Inv'
<1>0. TypeInv /\ PidInv /\ StageInv /\ LockInv /\ TestInv /\ DiskInv
  BY DEF Inv
<1>1. /\ proc' \in [Slots -> ProcType]
      /\ proc[p].pc = "fetch" /\ proc'[p].pc = "build"
      /\ Keeps(p) /\ proc'[p].st = proc[p].st
      /\ OthersStay(p)
  BY <1>0, FetchForecastProc
<1>2. TestsMove(p) /\ Quiet /\ faults' \in Nat /\ Stop(p, "forecast")
  <2>1. Stop(p, "forecast")
    BY DEF FetchForecast, disk, counters
  <2> QED
    BY <1>0, <2>1, StopMoves DEF Owners
<1>4. TypeInv'
  <2>1. OtherTypes'
    BY <1>0, <1>1, <1>2 DEF FetchForecast, disk, counters, TypeInv, OtherTypes, Fault
  <2> QED
    BY <1>0, <1>1, <1>2, <2>1, TypesKept
<1>5. StageInv'
  BY <1>0, <1>1, StagesKept DEF StageInv, StageOf, Keeps, Training
<1>6. PidInv'
  BY <1>0, <1>1, <1>2, PidsKept DEF FetchForecast, counters, Untested, Keeps, Training
<1>7. Busy(p) /\ Busy(p)'
  BY <1>0, <1>1 DEF Busy, Keeps, Training, Closing, Evaluating, StageInv, StageOf
<1>8. LockInv'
  BY <1>0, <1>1, <1>2, <1>7, LocksKept
     DEF FetchForecast, disk, counters, TestsMove, Keeps, Training
<1>9. TestInv'
  BY <1>0, <1>1, <1>2, <1>7, StopTests DEF Owners, Keeps, Evaluating
<1>10. DiskInv'
  BY <1>0, <1>1, <1>2, DiskKept DEF FetchForecast, disk, counters, TestsMove, DiskStage
<1> QED
  BY <1>4, <1>5, <1>6, <1>8, <1>9, <1>10 DEF Inv

LEMMA FingerprintChangedKeeps ==
    ASSUME Inv, NEW p \in Slots, FingerprintChanged(p)
    PROVE  Inv'
<1>0. TypeInv /\ PidInv /\ StageInv /\ LockInv /\ TestInv /\ DiskInv
  BY DEF Inv
<1>1. /\ proc' \in [Slots -> ProcType]
      /\ proc[p].pc = "build" /\ proc'[p].pc = "leave"
      /\ Keeps(p) /\ proc'[p].st = proc[p].st
      /\ OthersStay(p)
  BY <1>0, FingerprintChangedProc
<1>2. TestsMove(p) /\ Quiet
  BY <1>0, NoTestMoves DEF FingerprintChanged, disk, counters, TypeInv, Histories
<1>4. TypeInv'
  <2>1. OtherTypes'
    BY <1>0, <1>1, <1>2
       DEF FingerprintChanged, disk, counters, TypeInv, OtherTypes, Fault
  <2> QED
    BY <1>0, <1>1, <1>2, <2>1, TypesKept
<1>5. StageInv'
  BY <1>0, <1>1, StagesKept DEF StageInv, StageOf, Keeps, Training
<1>6. PidInv'
  BY <1>0, <1>1, <1>2, PidsKept
     DEF FingerprintChanged, counters, Untested, Keeps, Training
<1>7. Busy(p) /\ Busy(p)'
  BY <1>0, <1>1 DEF Busy, Keeps, Training, Closing, Evaluating, StageInv, StageOf
<1>8. LockInv'
  BY <1>0, <1>1, <1>2, <1>7, LocksKept
     DEF FingerprintChanged, disk, counters, TestsMove, Keeps, Training
<1>9. TestInv'
  BY <1>0, <1>1, <1>2, <1>7, NoTestsKept
     DEF FingerprintChanged, disk, counters, TestsMove, Keeps, Training, Evaluating
<1>10. DiskInv'
  BY <1>0, <1>1, <1>2, DiskKept
     DEF FingerprintChanged, disk, counters, TestsMove, DiskStage
<1> QED
  BY <1>4, <1>5, <1>6, <1>8, <1>9, <1>10 DEF Inv

LEMMA BuildKeeps ==
    ASSUME Inv, NEW p \in Slots, Build(p)
    PROVE  Inv'
<1>0. TypeInv /\ PidInv /\ StageInv /\ LockInv /\ TestInv /\ DiskInv
  BY DEF Inv
<1>1. /\ proc' \in [Slots -> ProcType]
      /\ proc[p].pc = "build" /\ proc'[p].pc \in {"rollout", "leave"}
      /\ Keeps(p) /\ proc'[p].st = proc[p].st
      /\ OthersStay(p)
  BY <1>0, BuildProc
<1>2. TestsMove(p) /\ faults' \in Nat /\ hist' = hist /\ Select(p, "env")
  <2>1. Select(p, "env") /\ hist' = hist
    BY DEF Build, disk, counters
  <2> QED
    BY <1>0, <2>1, SelectMoves DEF Owners
<1>4. TypeInv'
  <2>1. OtherTypes'
    BY <1>0, <1>1, <1>2 DEF Build, disk, counters, TypeInv, OtherTypes, Fault
  <2> QED
    BY <1>0, <1>1, <1>2, <2>1, TypesKept
<1>5. StageInv'
  BY <1>0, <1>1, StagesKept DEF StageInv, StageOf, Keeps, Training
<1>6. PidInv'
  BY <1>0, <1>1, <1>2, PidsKept DEF Build, counters, Untested, Keeps, Training
<1>7. Busy(p) /\ Busy(p)'
  BY <1>0, <1>1 DEF Busy, Keeps, Training, Closing, Evaluating, StageInv, StageOf
<1>8. LockInv'
  BY <1>0, <1>1, <1>2, <1>7, LocksKept
     DEF Build, disk, counters, TestsMove, Keeps, Training
<1>9. TestInv'
  BY <1>0, <1>1, <1>2, <1>7, SelectTests DEF Owners, Keeps, Evaluating
<1>10. DiskInv'
  BY <1>0, <1>1, <1>2, DiskKept DEF Build, disk, counters, TestsMove, DiskStage
<1> QED
  BY <1>4, <1>5, <1>6, <1>8, <1>9, <1>10 DEF Inv

LEMMA RolloutKeeps ==
    ASSUME Inv, NEW p \in Slots, Rollout(p)
    PROVE  Inv'
<1>0. TypeInv /\ PidInv /\ StageInv /\ LockInv /\ TestInv /\ DiskInv
  BY DEF Inv
<1>1. /\ proc' \in [Slots -> ProcType]
      /\ proc[p].pc = "rollout" /\ proc'[p].pc = "week"
      /\ Keeps(p) /\ proc'[p].st = proc[p].st
      /\ OthersStay(p)
  BY <1>0, RolloutProc
<1>2. /\ TestsMove(p) /\ faults' \in Nat
      /\ \/ Select(p, "week") /\ hist' = hist
         \/ live' = live /\ active' = active /\ hist' = hist /\ faults' = faults
  <2>1. \/ Select(p, "week") /\ hist' = hist
        \/ live' = live /\ active' = active /\ hist' = hist /\ faults' = faults
    BY DEF Rollout, disk, counters
  <2>2. CASE Select(p, "week") /\ hist' = hist
    BY <1>0, <2>2, SelectMoves DEF Owners
  <2>3. CASE live' = live /\ active' = active /\ hist' = hist /\ faults' = faults
    <3>1. hist \subseteq hist' /\ hist' \subseteq Histories /\ faults' \in Nat
      BY <1>0, <2>3 DEF TypeInv, Histories
    <3> QED
      BY <1>0, <2>3, <3>1, NoTestMoves
  <2> QED
    BY <2>1, <2>2, <2>3
<1>4. TypeInv'
  <2>1. OtherTypes'
    BY <1>0, <1>1, <1>2 DEF Rollout, disk, counters, TypeInv, OtherTypes
  <2> QED
    BY <1>0, <1>1, <1>2, <2>1, TypesKept
<1>5. StageInv'
  BY <1>0, <1>1, StagesKept DEF StageInv, StageOf, Keeps, Training
<1>6. PidInv'
  BY <1>0, <1>1, <1>2, PidsKept
     DEF Rollout, counters, StageInv, StageOf, Untested, Keeps, Training
<1>7. Busy(p) /\ Busy(p)'
  BY <1>0, <1>1 DEF Busy, Keeps, Training, Closing, Evaluating, StageInv, StageOf
<1>8. LockInv'
  BY <1>0, <1>1, <1>2, <1>7, LocksKept
     DEF Rollout, disk, counters, TestsMove, Keeps, Training
<1>9. TestInv'
  <2>1. CASE Select(p, "week") /\ hist' = hist
    BY <1>0, <1>1, <1>7, <2>1, SelectTests DEF Owners, Keeps, Evaluating
  <2>2. CASE live' = live /\ active' = active /\ hist' = hist /\ faults' = faults
    BY <1>0, <1>1, <1>7, <2>2, NoTestsKept DEF Keeps, Training, Closing, Evaluating
  <2> QED
    BY <1>2, <2>1, <2>2
<1>10. DiskInv'
  BY <1>0, <1>1, <1>2, DiskKept DEF Rollout, disk, counters, TestsMove, DiskStage
<1> QED
  BY <1>4, <1>5, <1>6, <1>8, <1>9, <1>10 DEF Inv

LEMMA PostUpdateKeeps ==
    ASSUME Inv, NEW p \in Slots, PostUpdate(p)
    PROVE  Inv'
<1>0. TypeInv /\ PidInv /\ StageInv /\ LockInv /\ TestInv /\ DiskInv
  BY DEF Inv
<1>1. /\ proc' \in [Slots -> ProcType]
      /\ proc[p].pc = "week" /\ proc'[p].pc = "files"
      /\ Keeps(p) /\ proc'[p].st.epoch = proc[p].st.epoch + 1
      /\ OthersStay(p)
  BY <1>0, PostUpdateProc
<1>2. /\ TestsMove(p) /\ Quiet /\ faults' \in Nat
      /\ \/ Stop(p, "week")
         \/ live' = live /\ active' = active /\ hist' = hist /\ faults' = faults
  <2>1. \/ Stop(p, "week")
        \/ live' = live /\ active' = active /\ hist' = hist /\ faults' = faults
    BY DEF PostUpdate, disk, counters
  <2>2. CASE Stop(p, "week")
    BY <1>0, <2>2, StopMoves DEF Owners
  <2>3. CASE live' = live /\ active' = active /\ hist' = hist /\ faults' = faults
    <3>1. hist \subseteq hist' /\ hist' \subseteq Histories /\ faults' \in Nat
      BY <1>0, <2>3 DEF TypeInv, Histories
    <3> QED
      BY <1>0, <2>3, <3>1, NoTestMoves
  <2> QED
    BY <2>1, <2>2, <2>3
<1>3. proc[p].st.epoch \in Nat
  BY <1>0 DEF TypeInv, ProcType, States
<1>4. TypeInv'
  <2>1. OtherTypes'
    BY <1>0, <1>1, <1>2 DEF PostUpdate, disk, counters, TypeInv, OtherTypes
  <2> QED
    BY <1>0, <1>1, <1>2, <2>1, TypesKept
<1>5. StageInv'
  BY <1>0, <1>1, <1>3, StagesKept DEF StageInv, StageOf, Keeps, Training
<1>6. PidInv'
  BY <1>0, <1>1, <1>2, PidsKept
     DEF PostUpdate, counters, StageInv, StageOf, Untested, Keeps, Training
<1>7. Busy(p) /\ Busy(p)'
  BY <1>0, <1>1 DEF Busy, Keeps, Training, Closing, Evaluating, StageInv, StageOf
<1>8. LockInv'
  BY <1>0, <1>1, <1>2, <1>7, LocksKept
     DEF PostUpdate, disk, counters, TestsMove, Keeps, Training
<1>9. TestInv'
  <2>1. CASE Stop(p, "week")
    BY <1>0, <1>1, <1>7, <2>1, StopTests DEF Owners, Keeps, Evaluating
  <2>2. CASE live' = live /\ active' = active /\ hist' = hist /\ faults' = faults
    BY <1>0, <1>1, <1>7, <2>2, NoTestsKept DEF Keeps, Training, Closing, Evaluating
  <2> QED
    BY <1>2, <2>1, <2>2
<1>10. DiskInv'
  BY <1>0, <1>1, <1>2, DiskKept DEF PostUpdate, disk, counters, TestsMove, DiskStage
<1> QED
  BY <1>4, <1>5, <1>6, <1>8, <1>9, <1>10 DEF Inv

LEMMA CloseEnvironmentsKeeps ==
    ASSUME Inv, NEW p \in Slots, CloseEnvironments(p)
    PROVE  Inv'
<1>0. TypeInv /\ PidInv /\ StageInv /\ LockInv /\ TestInv /\ DiskInv
  BY DEF Inv
<1>1. /\ proc' \in [Slots -> ProcType]
      /\ proc[p].pc = "close" /\ proc'[p].pc = "cleanup"
      /\ Keeps(p)
      /\ OthersStay(p)
  BY <1>0, CloseEnvironmentsProc
<1>2. /\ TestsMove(p) /\ Quiet /\ faults' \in Nat
      /\ \/ Stop(p, "env")
         \/ live' = live /\ active' = active /\ hist' = hist /\ faults' = faults
  <2>1. \/ Stop(p, "env")
        \/ live' = live /\ active' = active /\ hist' = hist /\ faults' = faults
    BY DEF CloseEnvironments, disk, counters
  <2>2. CASE Stop(p, "env")
    BY <1>0, <2>2, StopMoves DEF Owners
  <2>3. CASE live' = live /\ active' = active /\ hist' = hist /\ faults' = faults
    <3>1. hist \subseteq hist' /\ hist' \subseteq Histories /\ faults' \in Nat
      BY <1>0, <2>3 DEF TypeInv, Histories
    <3> QED
      BY <1>0, <2>3, <3>1, NoTestMoves
  <2> QED
    BY <2>1, <2>2, <2>3
<1>4. TypeInv'
  <2>1. OtherTypes'
    BY <1>0, <1>1, <1>2 DEF CloseEnvironments, disk, counters, TypeInv, OtherTypes
  <2> QED
    BY <1>0, <1>1, <1>2, <2>1, TypesKept
<1>5. StageInv'
  BY <1>0, <1>1, StagesKept DEF StageInv, StageOf, Keeps, Training
<1>6. PidInv'
  BY <1>0, <1>1, <1>2, PidsKept
     DEF CloseEnvironments, counters, StageInv, StageOf, Untested, Keeps, Training
<1>7. Busy(p) /\ Busy(p)'
  BY <1>0, <1>1 DEF Busy, Keeps, Training, Closing, Evaluating, StageInv, StageOf
<1>8. LockInv'
  BY <1>0, <1>1, <1>2, <1>7, LocksKept
     DEF CloseEnvironments, disk, counters, TestsMove, Keeps, Training
<1>9. TestInv'
  <2>1. CASE Stop(p, "env")
    BY <1>0, <1>1, <1>7, <2>1, StopTests DEF Owners, Keeps, Evaluating
  <2>2. CASE live' = live /\ active' = active /\ hist' = hist /\ faults' = faults
    BY <1>0, <1>1, <1>7, <2>2, NoTestsKept DEF Keeps, Training, Closing, Evaluating
  <2> QED
    BY <1>2, <2>1, <2>2
<1>10. DiskInv'
  BY <1>0, <1>1, <1>2, DiskKept
     DEF CloseEnvironments, disk, counters, TestsMove, DiskStage
<1> QED
  BY <1>4, <1>5, <1>6, <1>8, <1>9, <1>10 DEF Inv

LEMMA RolloutPolicyKeeps ==
    ASSUME Inv, NEW p \in Slots, RolloutPolicy(p)
    PROVE  Inv'
<1>0. TypeInv /\ PidInv /\ StageInv /\ LockInv /\ TestInv /\ DiskInv
  BY DEF Inv
<1>1. /\ proc' \in [Slots -> ProcType]
      /\ proc[p].pc = "eroll" /\ proc'[p].pc = "epublish"
      /\ Keeps(p)
      /\ OthersStay(p)
  BY <1>0, RolloutPolicyProc
<1>2. TestsMove(p) /\ faults' \in Nat /\ hist' = hist /\ Select(p, "final")
  <2>1. Select(p, "final") /\ hist' = hist
    BY DEF RolloutPolicy, disk, counters
  <2> QED
    BY <1>0, <2>1, SelectMoves DEF Owners
<1>4. TypeInv'
  <2>1. OtherTypes'
    BY <1>0, <1>1, <1>2 DEF RolloutPolicy, disk, counters, TypeInv, OtherTypes, Fault
  <2> QED
    BY <1>0, <1>1, <1>2, <2>1, TypesKept
<1>5. StageInv'
  BY <1>0, <1>1, StagesKept DEF StageInv, StageOf, Keeps, Training
<1>6. PidInv'
  BY <1>0, <1>1, <1>2, PidsKept DEF RolloutPolicy, counters, Untested, Keeps, Training
<1>7. Busy(p) /\ Busy(p)'
  BY <1>0, <1>1 DEF Busy, Keeps, Training, Closing, Evaluating, StageInv, StageOf
<1>8. LockInv'
  BY <1>0, <1>1, <1>2, <1>7, LocksKept
     DEF RolloutPolicy, disk, counters, TestsMove, Keeps, Training
<1>9. TestInv'
  BY <1>0, <1>1, <1>2, <1>7, SelectTests DEF Owners, Keeps, Evaluating
<1>10. DiskInv'
  BY <1>0, <1>1, <1>2, DiskKept DEF RolloutPolicy, disk, counters, TestsMove, DiskStage
<1> QED
  BY <1>4, <1>5, <1>6, <1>8, <1>9, <1>10 DEF Inv

LEMMA SaveFailsKeeps ==
    ASSUME Inv, NEW p \in Slots, SaveFails(p)
    PROVE  Inv'
<1>0. TypeInv /\ PidInv /\ StageInv /\ LockInv /\ TestInv /\ DiskInv
  BY DEF Inv
<1>1. /\ proc' \in [Slots -> ProcType]
      /\ proc[p].pc \in {"files", "bundle", "pointer"} /\ proc'[p].pc \in {"files", "leave"}
      /\ Keeps(p) /\ proc'[p].st = proc[p].st
      /\ OthersStay(p)
  BY <1>0, SaveFailsProc
<1>2. TestsMove(p) /\ Quiet
  BY <1>0, NoTestMoves DEF SaveFails, disk, counters, TypeInv, Histories
<1>4. TypeInv'
  <2>1. OtherTypes'
    BY <1>0, <1>1, <1>2 DEF SaveFails, disk, counters, TypeInv, OtherTypes, Fault
  <2> QED
    BY <1>0, <1>1, <1>2, <2>1, TypesKept
<1>5. StageInv'
  BY <1>0, <1>1, StagesKept DEF StageInv, StageOf, Keeps, Training
<1>6. PidInv'
  BY <1>0, <1>1, <1>2, PidsKept DEF SaveFails, counters, Untested, Keeps, Training
<1>7. Busy(p) /\ Busy(p)'
  BY <1>0, <1>1 DEF Busy, Keeps, Training, Closing, Evaluating, StageInv, StageOf
<1>8. LockInv'
  BY <1>0, <1>1, <1>2, <1>7, LocksKept
     DEF SaveFails, disk, counters, TestsMove, Keeps, Training
<1>9. TestInv'
  BY <1>0, <1>1, <1>2, <1>7, NoTestsKept
     DEF SaveFails, disk, counters, TestsMove, Keeps, Training, Evaluating
<1>10. DiskInv'
  BY <1>0, <1>1, <1>2, DiskKept DEF SaveFails, disk, counters, TestsMove, DiskStage
<1> QED
  BY <1>4, <1>5, <1>6, <1>8, <1>9, <1>10 DEF Inv

LEMMA WriteFilesKeeps ==
    ASSUME Inv, NEW p \in Slots, WriteFiles(p)
    PROVE  Inv'
<1>0. TypeInv /\ PidInv /\ StageInv /\ LockInv /\ TestInv /\ DiskInv
  BY DEF Inv
<1>1. /\ proc' \in [Slots -> ProcType]
      /\ proc[p].pc = "files" /\ proc'[p].pc = "bundle"
      /\ Keeps(p) /\ proc'[p].st = proc[p].st
      /\ OthersStay(p)
  BY <1>0, WriteFilesProc
<1>2. TestsMove(p) /\ Quiet
  BY <1>0, NoTestMoves DEF WriteFiles, disk, counters, TypeInv, Histories
<1>3. /\ bundles' \in [1 .. MaxEpochs -> [data : Pointers \cup {Torn}, manifest : Pointers]]
      /\ DiskInv'
  BY <1>0, WriteFilesDisk
<1>4. TypeInv'
  <2>1. OtherTypes'
    BY <1>0, <1>1, <1>2, <1>3 DEF WriteFiles, disk, counters, TypeInv, OtherTypes
  <2> QED
    BY <1>0, <1>1, <1>2, <2>1, TypesKept
<1>5. StageInv'
  BY <1>0, <1>1, StagesKept DEF StageInv, StageOf, Keeps, Training
<1>6. PidInv'
  BY <1>0, <1>1, <1>2, PidsKept DEF WriteFiles, counters, Untested, Keeps, Training
<1>7. Busy(p) /\ Busy(p)'
  BY <1>1 DEF Busy, Training
<1>8. LockInv'
  BY <1>0, <1>1, <1>2, <1>7, LocksKept
     DEF WriteFiles, disk, counters, TestsMove, Keeps, Training
<1>9. TestInv'
  BY <1>0, <1>1, <1>2, <1>7, NoTestsKept
     DEF WriteFiles, disk, counters, TestsMove, Keeps, Training, Evaluating
<1>10. DiskInv'
  BY <1>3
<1> QED
  BY <1>4, <1>5, <1>6, <1>8, <1>9, <1>10 DEF Inv

LEMMA CommitBundleKeeps ==
    ASSUME Inv, NEW p \in Slots, CommitBundle(p)
    PROVE  Inv'
<1>0. TypeInv /\ PidInv /\ StageInv /\ LockInv /\ TestInv /\ DiskInv
  BY DEF Inv
<1>1. /\ proc' \in [Slots -> ProcType]
      /\ proc[p].pc = "bundle" /\ proc'[p].pc = "pointer"
      /\ Keeps(p) /\ proc'[p].st = proc[p].st
      /\ OthersStay(p)
  BY <1>0, CommitBundleProc
<1>2. TestsMove(p) /\ Quiet
  BY <1>0, NoTestMoves DEF CommitBundle, disk, counters, TypeInv, Histories
<1>3. /\ bundles' \in [1 .. MaxEpochs -> [data : Pointers \cup {Torn}, manifest : Pointers]]
      /\ DiskInv'
  BY <1>0, CommitBundleDisk
<1>4. TypeInv'
  <2>1. OtherTypes'
    BY <1>0, <1>1, <1>2, <1>3 DEF CommitBundle, disk, counters, TypeInv, OtherTypes
  <2> QED
    BY <1>0, <1>1, <1>2, <2>1, TypesKept
<1>5. StageInv'
  BY <1>0, <1>1, StagesKept DEF StageInv, StageOf, Keeps, Training
<1>6. PidInv'
  BY <1>0, <1>1, <1>2, PidsKept DEF CommitBundle, counters, Untested, Keeps, Training
<1>7. Busy(p) /\ Busy(p)'
  BY <1>1 DEF Busy, Training
<1>8. LockInv'
  BY <1>0, <1>1, <1>2, <1>7, LocksKept
     DEF CommitBundle, disk, counters, TestsMove, Keeps, Training
<1>9. TestInv'
  BY <1>0, <1>1, <1>2, <1>7, NoTestsKept
     DEF CommitBundle, disk, counters, TestsMove, Keeps, Training, Evaluating
<1>10. DiskInv'
  BY <1>3
<1> QED
  BY <1>4, <1>5, <1>6, <1>8, <1>9, <1>10 DEF Inv

LEMMA MovePointerKeeps ==
    ASSUME Inv, NEW p \in Slots, MovePointer(p)
    PROVE  Inv'
<1>0. TypeInv /\ PidInv /\ StageInv /\ LockInv /\ TestInv /\ DiskInv
  BY DEF Inv
<1>1. /\ proc' \in [Slots -> ProcType]
      /\ proc[p].pc = "pointer" /\ proc'[p].pc \in {"mark", "trained", "rollout"}
      /\ proc'[p].pc = "rollout" => proc[p].st.epoch < MaxEpochs
      /\ Keeps(p) /\ proc'[p].st = proc[p].st
      /\ OthersStay(p)
  BY <1>0, MovePointerProc
<1>2. TestsMove(p) /\ Quiet
  BY <1>0, NoTestMoves DEF MovePointer, disk, counters, TypeInv, Histories
<1>3. /\ bundles' \in [1 .. MaxEpochs -> [data : Pointers \cup {Torn}, manifest : Pointers]]
      /\ latest' \in Pointers
      /\ DiskInv'
  BY <1>0, MovePointerDisk
<1>4. TypeInv'
  <2>1. OtherTypes'
    BY <1>0, <1>1, <1>2, <1>3 DEF MovePointer, disk, counters, TypeInv, OtherTypes
  <2> QED
    BY <1>0, <1>1, <1>2, <2>1, TypesKept
<1>5. StageInv'
  BY <1>0, <1>1, StagesKept DEF StageInv, StageOf, Keeps, Training
<1>6. PidInv'
  BY <1>0, <1>1, <1>2, PidsKept DEF MovePointer, counters, Untested, Keeps, Training
<1>7. Busy(p) /\ Busy(p)'
  BY <1>1 DEF Busy, Training
<1>8. LockInv'
  BY <1>0, <1>1, <1>2, <1>7, LocksKept
     DEF MovePointer, disk, counters, TestsMove, Keeps, Training
<1>9. TestInv'
  BY <1>0, <1>1, <1>2, <1>7, NoTestsKept
     DEF MovePointer, disk, counters, TestsMove, Keeps, Training, Evaluating
<1>10. DiskInv'
  BY <1>3
<1> QED
  BY <1>4, <1>5, <1>6, <1>8, <1>9, <1>10 DEF Inv

LEMMA MarkBestKeeps ==
    ASSUME Inv, NEW p \in Slots, MarkBest(p)
    PROVE  Inv'
<1>0. TypeInv /\ PidInv /\ StageInv /\ LockInv /\ TestInv /\ DiskInv
  BY DEF Inv
<1>1. /\ proc' \in [Slots -> ProcType]
      /\ proc[p].pc = "mark" /\ proc'[p].pc \in {"trained", "rollout"}
      /\ proc'[p].pc = "rollout" => proc[p].st.epoch < MaxEpochs
      /\ Keeps(p) /\ proc'[p].st = proc[p].st
      /\ OthersStay(p)
  BY <1>0, MarkBestProc
<1>2. TestsMove(p) /\ Quiet
  BY <1>0, NoTestMoves DEF MarkBest, disk, counters, TypeInv, Histories
<1>3. /\ bundles' \in [1 .. MaxEpochs -> [data : Pointers \cup {Torn}, manifest : Pointers]]
      /\ best' \in Pointers
      /\ DiskInv'
  BY <1>0, MarkBestDisk
<1>4. TypeInv'
  <2>1. OtherTypes'
    BY <1>0, <1>1, <1>2, <1>3 DEF MarkBest, disk, counters, TypeInv, OtherTypes
  <2> QED
    BY <1>0, <1>1, <1>2, <2>1, TypesKept
<1>5. StageInv'
  BY <1>0, <1>1, StagesKept DEF StageInv, StageOf, Keeps, Training
<1>6. PidInv'
  BY <1>0, <1>1, <1>2, PidsKept DEF MarkBest, counters, Untested, Keeps, Training
<1>7. Busy(p) /\ Busy(p)'
  BY <1>1 DEF Busy, Training
<1>8. LockInv'
  BY <1>0, <1>1, <1>2, <1>7, LocksKept
     DEF MarkBest, disk, counters, TestsMove, Keeps, Training
<1>9. TestInv'
  BY <1>0, <1>1, <1>2, <1>7, NoTestsKept
     DEF MarkBest, disk, counters, TestsMove, Keeps, Training, Evaluating
<1>10. DiskInv'
  BY <1>3
<1> QED
  BY <1>4, <1>5, <1>6, <1>8, <1>9, <1>10 DEF Inv

LEMMA FetchBeginsKeeps ==
    ASSUME Inv, NEW p \in Slots, proc[p].pc = "forecast", SelectForecast(p, "fetch")
    PROVE  Inv'
<1>0. TypeInv /\ PidInv /\ StageInv /\ LockInv /\ TestInv /\ DiskInv
  BY DEF Inv
<1>1. /\ proc' \in [Slots -> ProcType]
      /\ proc'[p].pc = "fetch"
      /\ Keeps(p) /\ proc'[p].st = proc[p].st
      /\ OthersStay(p)
  BY <1>0, SelectForecastProc
<1>2. TestsMove(p) /\ faults' \in Nat /\ hist' = hist /\ Select(p, "forecast")
  <2>1. Select(p, "forecast") /\ hist' = hist
    BY DEF SelectForecast, disk, counters
  <2> QED
    BY <1>0, <2>1, SelectMoves DEF Owners
<1>4. TypeInv'
  <2>1. OtherTypes'
    BY <1>0, <1>1, <1>2 DEF SelectForecast, disk, counters, TypeInv, OtherTypes
  <2> QED
    BY <1>0, <1>1, <1>2, <2>1, TypesKept
<1>5. StageInv'
  BY <1>0, <1>1, StagesKept DEF StageInv, StageOf, Keeps, Training
<1>6. PidInv'
  BY <1>0, <1>1, <1>2, PidsKept DEF SelectForecast, counters, Untested, Keeps, Training
<1>7. Busy(p) /\ Busy(p)'
  BY <1>1 DEF Busy, Training, Evaluating
<1>8. LockInv'
  BY <1>0, <1>1, <1>2, <1>7, LocksKept
     DEF SelectForecast, disk, counters, TestsMove, Keeps, Training
<1>9. TestInv'
  BY <1>0, <1>1, <1>2, <1>7, SelectTests DEF Owners, Keeps, Evaluating
<1>10. DiskInv'
  BY <1>0, <1>1, <1>2, DiskKept DEF SelectForecast, disk, counters, TestsMove, DiskStage
<1> QED
  BY <1>4, <1>5, <1>6, <1>8, <1>9, <1>10 DEF Inv

LEMMA EvaluationFetchBeginsKeeps ==
    ASSUME Inv, NEW p \in Slots, proc[p].pc = "eforecast", SelectForecast(p, "eload")
    PROVE  Inv'
<1>0. TypeInv /\ PidInv /\ StageInv /\ LockInv /\ TestInv /\ DiskInv
  BY DEF Inv
<1>1. /\ proc' \in [Slots -> ProcType]
      /\ proc'[p].pc = "eload"
      /\ Keeps(p) /\ proc'[p].st = proc[p].st
      /\ OthersStay(p)
  BY <1>0, SelectForecastProc
<1>2. TestsMove(p) /\ faults' \in Nat /\ hist' = hist /\ Select(p, "forecast")
  <2>1. Select(p, "forecast") /\ hist' = hist
    BY DEF SelectForecast, disk, counters
  <2> QED
    BY <1>0, <2>1, SelectMoves DEF Owners
<1>4. TypeInv'
  <2>1. OtherTypes'
    BY <1>0, <1>1, <1>2 DEF SelectForecast, disk, counters, TypeInv, OtherTypes
  <2> QED
    BY <1>0, <1>1, <1>2, <2>1, TypesKept
<1>5. StageInv'
  BY <1>0, <1>1, StagesKept DEF StageInv, StageOf, Keeps, Training
<1>6. PidInv'
  BY <1>0, <1>1, <1>2, PidsKept DEF SelectForecast, counters, Untested, Keeps, Training
<1>7. Busy(p) /\ Busy(p)'
  BY <1>1 DEF Busy, Training, Evaluating
<1>8. LockInv'
  BY <1>0, <1>1, <1>2, <1>7, LocksKept
     DEF SelectForecast, disk, counters, TestsMove, Keeps, Training
<1>9. TestInv'
  BY <1>0, <1>1, <1>2, <1>7, SelectTests DEF Owners, Keeps, Evaluating
<1>10. DiskInv'
  BY <1>0, <1>1, <1>2, DiskKept DEF SelectForecast, disk, counters, TestsMove, DiskStage
<1> QED
  BY <1>4, <1>5, <1>6, <1>8, <1>9, <1>10 DEF Inv

LEMMA LoadBestKeeps ==
    ASSUME Inv, NEW p \in Slots, LoadBest(p)
    PROVE  Inv'
<1>0. TypeInv /\ PidInv /\ StageInv /\ LockInv /\ TestInv /\ DiskInv
  BY DEF Inv
<1>1. /\ proc' \in [Slots -> ProcType]
      /\ proc[p].pc = "eload"
      /\ proc'[p].pc = "idle" \/ (proc'[p].pc = "eroll" /\ Keeps(p))
      /\ OthersStay(p)
  BY <1>0, LoadBestProc
<1>2. TestsMove(p) /\ Quiet /\ faults' \in Nat /\ Stop(p, "forecast")
  <2>1. Stop(p, "forecast")
    BY DEF LoadBest, disk, counters
  <2> QED
    BY <1>0, <2>1, StopMoves DEF Owners
<1>4. TypeInv'
  <2>1. OtherTypes'
    BY <1>0, <1>1, <1>2 DEF LoadBest, disk, counters, TypeInv, OtherTypes
  <2> QED
    BY <1>0, <1>1, <1>2, <2>1, TypesKept
<1>5. StageInv'
  BY <1>0, <1>1, StagesKept DEF StageInv, StageOf, Keeps, Training
<1>6. PidInv'
  BY <1>0, <1>1, <1>2, PidsKept DEF LoadBest, counters, Untested, Keeps, Training
<1>7. Busy(p) /\ (proc'[p].pc = "idle" \/ (Busy(p)' /\ proc'[p].pid = proc[p].pid))
  BY <1>1 DEF Busy, Keeps, Evaluating
<1>8. LockInv'
  BY <1>0, <1>1, <1>2, <1>7, LocksKept DEF LoadBest, disk, counters, TestsMove, Training
<1>9. TestInv'
  BY <1>0, <1>1, <1>2, <1>7, StopTests DEF Owners, Evaluating
<1>10. DiskInv'
  BY <1>0, <1>1, <1>2, DiskKept DEF LoadBest, disk, counters, TestsMove, DiskStage
<1> QED
  BY <1>4, <1>5, <1>6, <1>8, <1>9, <1>10 DEF Inv

LEMMA PublishReportKeeps ==
    ASSUME Inv, NEW p \in Slots, PublishReport(p)
    PROVE  Inv'
<1>0. TypeInv /\ PidInv /\ StageInv /\ LockInv /\ TestInv /\ DiskInv
  BY DEF Inv
<1>1. /\ proc' \in [Slots -> ProcType]
      /\ proc'[p].pc = "idle"
      /\ OthersStay(p)
  BY <1>0, EndProc
<1>2. TestsMove(p) /\ Quiet /\ faults' \in Nat /\ Stop(p, "final")
  <2>1. Stop(p, "final")
    BY DEF PublishReport, disk, counters
  <2> QED
    BY <1>0, <2>1, StopMoves DEF Owners
<1>3. proc[p].pc = "epublish" /\ report' \in Pointers
  BY <1>0 DEF PublishReport, TypeInv, ProcType
<1>4. TypeInv'
  <2>1. OtherTypes'
    BY <1>0, <1>1, <1>2, <1>3 DEF PublishReport, disk, counters, TypeInv, OtherTypes
  <2> QED
    BY <1>0, <1>1, <1>2, <2>1, TypesKept
<1>5. StageInv'
  BY <1>0, <1>1, StagesKept DEF StageInv, StageOf, Keeps, Training
<1>6. PidInv'
  BY <1>0, <1>1, <1>2, PidsKept, <1>3
     DEF PublishReport, counters, Untested, Keeps, Training
<1>7. Busy(p) /\ proc[p].pc # "idle"
  BY <1>3 DEF Busy, Evaluating
<1>8. LockInv'
  BY <1>0, <1>1, <1>2, <1>7, LocksKept
     DEF PublishReport, disk, counters, TestsMove, Training
<1>9. TestInv'
  BY <1>0, <1>1, <1>2, <1>3, <1>7, StopTests DEF Owners, Evaluating
<1>10. DiskInv'
  BY <1>0, <1>1, <1>2, DiskKept DEF PublishReport, disk, counters, TestsMove, DiskStage
<1> QED
  BY <1>4, <1>5, <1>6, <1>8, <1>9, <1>10 DEF Inv

LEMMA KillKeeps ==
    ASSUME Inv, NEW p \in Slots, Kill(p)
    PROVE  Inv'
<1>0. TypeInv /\ PidInv /\ StageInv /\ LockInv /\ TestInv /\ DiskInv
  BY DEF Inv
<1>1. /\ proc' \in [Slots -> ProcType]
      /\ proc'[p].pc = "idle"
      /\ OthersStay(p)
  BY <1>0, EndProc
<1>2. TestsMove(p) /\ proc[p].pc # "idle" /\ kills' \in Nat
  <2>1. /\ live' \in { live, live \cup { <<proc[p].pid, "lost">> : x \in {proc[p].pc} \cap Selecting } }
        /\ active' = active /\ kills' = kills + 1 /\ proc[p].pc # "idle"
        /\ hist' = hist \cup {"killed"} \cup (IF proc[p].pc = "mark" THEN {"unmarked"} ELSE {})
    BY DEF Kill, disk, counters
  <2>2. live' \subseteq live \cup ({proc[p].pid} \X (Owners \cup {"lost"}))
    BY <2>1
  <2>3. hist \subseteq hist' /\ hist' \subseteq Histories
    BY <1>0, <2>1 DEF TypeInv, Histories
  <2> QED
    BY <1>0, <2>1, <2>2, <2>3 DEF TestsMove, TypeInv
<1>4. TypeInv'
  <2>1. OtherTypes'
    BY <1>0, <1>1, <1>2 DEF Kill, disk, counters, TypeInv, OtherTypes
  <2> QED
    BY <1>0, <1>1, <1>2, <2>1, TypesKept
<1>5. StageInv'
  BY <1>0, <1>1, StagesKept DEF StageInv, StageOf, Keeps, Training
<1>6. PidInv'
  BY <1>0, <1>1, <1>2, PidsKept DEF Kill, counters, Untested, Keeps, Training
<1>7. ~Busy(p)'
  BY <1>1 DEF Busy, Training, Closing, Evaluating
<1>8. LockInv'
  BY <1>0, <1>1, <1>2, <1>7, LocksKept DEF Kill, disk, counters, TestsMove, Training
<1>9. TestInv'
  BY <1>0, KillTests
<1>10. DiskInv'
  BY <1>0, <1>1, <1>2, DiskKept DEF Kill, disk, counters, TestsMove, DiskStage
<1> QED
  BY <1>4, <1>5, <1>6, <1>8, <1>9, <1>10 DEF Inv

LEMMA ReadLatestKeeps ==
    ASSUME Inv, NEW p \in Slots, ReadLatest(p)
    PROVE  Inv'
<1>0. TypeInv /\ PidInv /\ StageInv /\ LockInv /\ TestInv /\ DiskInv
  BY DEF Inv
<1>1. /\ proc' \in [Slots -> ProcType]
      /\ proc[p].pc = "read"
      /\ OthersStay(p)
      /\ \/ proc'[p].pc = "idle"
         \/ /\ proc'[p].pc = "check"
            /\ proc'[p].pid = proc[p].pid /\ proc'[p].online = proc[p].online
            /\ proc'[p].base = latest /\ proc'[p].st.epoch = latest.epoch
            /\ latest.epoch < MaxEpochs
  BY <1>0, ReadLatestProc
<1>2. TestsMove(p) /\ Quiet
  BY <1>0, NoTestMoves DEF ReadLatest, disk, counters, TypeInv, Histories
<1>3. manifest' \in [status : Statuses, epochs : 0 .. MaxEpochs]
  BY <1>0, LegacyTrainingAssumption
     DEF ReadLatest, TypeInv, Statuses, LegacyTrainingAssumption
<1>4. TypeInv'
  <2>1. OtherTypes'
    BY <1>0, <1>1, <1>2, <1>3 DEF ReadLatest, disk, counters, TypeInv, OtherTypes
  <2> QED
    BY <1>0, <1>1, <1>2, <2>1, TypesKept
<1>5. StageInv'
  BY <1>0, <1>1, StagesKept DEF StageInv, StageOf, Keeps, Training
<1>6. PidInv'
  BY <1>0, <1>1, <1>2, PidsKept DEF ReadLatest, counters, Untested, Keeps, Training
<1>7. proc[p].pc # "idle" /\ ~Busy(p) /\ ~Busy(p)'
  BY <1>0, <1>1 DEF Busy, Training, Closing, Evaluating, StageInv, StageOf
<1>8. LockInv'
  BY <1>0, <1>1, <1>2, <1>7, LocksKept
     DEF ReadLatest, disk, counters, TestsMove, Training
<1>9. TestInv'
  BY <1>0, <1>1, <1>2, <1>7, NoTestsKept
     DEF ReadLatest, disk, counters, Training, Evaluating
<1>10. DiskInv'
  BY <1>0, <1>1, <1>2, DiskKept DEF ReadLatest, disk, counters, TestsMove, DiskStage
<1> QED
  BY <1>4, <1>5, <1>6, <1>8, <1>9, <1>10 DEF Inv

LEMMA CheckLockKeeps ==
    ASSUME Inv, NEW p \in Slots, CheckLock(p)
    PROVE  Inv'
<1>0. TypeInv /\ PidInv /\ StageInv /\ LockInv /\ TestInv /\ DiskInv
  BY DEF Inv
<1>1. /\ proc' \in [Slots -> ProcType]
      /\ proc[p].pc = "check"
      /\ OthersStay(p)
      /\ proc'[p].pid = proc[p].pid /\ proc'[p].base = proc[p].base
      /\ proc'[p].online = proc[p].online /\ proc'[p].st = proc[p].st
      /\ \/ proc'[p].pc = "cleanup"
         \/ /\ proc'[p].pc = "take"
            /\ proc'[p].sawFree = ~Runs(lock)
            /\ lock = 0 \/ ~Runs(lock)
  BY <1>0, CheckLockProc
<1>2. TestsMove(p) /\ Quiet
  BY <1>0, NoTestMoves DEF CheckLock, disk, counters, TypeInv, Histories
<1>3. ~Runs(0)
  BY <1>0 DEF Runs, PidInv
<1>4. TypeInv'
  <2>1. OtherTypes'
    BY <1>0, <1>1, <1>2 DEF CheckLock, disk, counters, TypeInv, OtherTypes
  <2> QED
    BY <1>0, <1>1, <1>2, <2>1, TypesKept
<1>5. StageInv'
  BY <1>0, <1>1, <1>3, StagesKept DEF StageInv, StageOf, Keeps, Training
<1>6. PidInv'
  BY <1>0, <1>1, <1>2, PidsKept DEF CheckLock, counters, Untested, Keeps, Training
<1>7. proc[p].pc # "idle" /\ ~Busy(p) /\ ~Busy(p)'
  BY <1>0, <1>1 DEF Busy, Training, Closing, Evaluating, StageInv, StageOf
<1>8. LockInv'
  BY <1>0, <1>1, <1>2, <1>7, LocksKept
     DEF CheckLock, disk, counters, TestsMove, Training
<1>9. TestInv'
  BY <1>0, <1>1, <1>2, <1>7, NoTestsKept
     DEF CheckLock, disk, counters, Training, Evaluating
<1>10. DiskInv'
  BY <1>0, <1>1, <1>2, DiskKept DEF CheckLock, disk, counters, TestsMove, DiskStage
<1> QED
  BY <1>4, <1>5, <1>6, <1>8, <1>9, <1>10 DEF Inv

LEMMA ReadBestKeeps ==
    ASSUME Inv, NEW p \in Slots, ReadBest(p)
    PROVE  Inv'
<1>0. TypeInv /\ PidInv /\ StageInv /\ LockInv /\ TestInv /\ DiskInv
  BY DEF Inv
<1>1. /\ proc' \in [Slots -> ProcType]
      /\ proc[p].pc = "ebest"
      /\ OthersStay(p)
      /\ \/ proc'[p].pc = "idle"
         \/ /\ proc'[p].pc = "echeck" /\ proc'[p].pid = proc[p].pid
            /\ proc'[p].online = proc[p].online
  BY <1>0, ReadBestProc
<1>2. TestsMove(p) /\ Quiet
  BY <1>0, NoTestMoves DEF ReadBest, disk, counters, TypeInv, Histories
<1>4. TypeInv'
  <2>1. OtherTypes'
    BY <1>0, <1>1, <1>2 DEF ReadBest, disk, counters, TypeInv, OtherTypes
  <2> QED
    BY <1>0, <1>1, <1>2, <2>1, TypesKept
<1>5. StageInv'
  BY <1>0, <1>1, StagesKept DEF StageInv, StageOf, Keeps, Training
<1>6. PidInv'
  BY <1>0, <1>1, <1>2, PidsKept DEF ReadBest, counters, Untested, Keeps, Training
<1>7. proc[p].pc # "idle" /\ ~Busy(p) /\ ~Busy(p)'
  BY <1>0, <1>1 DEF Busy, Training, Closing, Evaluating, StageInv, StageOf
<1>8. LockInv'
  BY <1>0, <1>1, <1>2, <1>7, LocksKept DEF ReadBest, disk, counters, TestsMove, Training
<1>9. TestInv'
  BY <1>0, <1>1, <1>2, <1>7, NoTestsKept
     DEF ReadBest, disk, counters, Training, Evaluating
<1>10. DiskInv'
  BY <1>0, <1>1, <1>2, DiskKept DEF ReadBest, disk, counters, TestsMove, DiskStage
<1> QED
  BY <1>4, <1>5, <1>6, <1>8, <1>9, <1>10 DEF Inv

LEMMA FinishManifestKeeps ==
    ASSUME Inv, NEW p \in Slots, FinishManifest(p)
    PROVE  Inv'
<1>0. TypeInv /\ PidInv /\ StageInv /\ LockInv /\ TestInv /\ DiskInv
  BY DEF Inv
<1>1. /\ proc' \in [Slots -> ProcType]
      /\ proc'[p].pc = "idle"
      /\ OthersStay(p)
  BY <1>0, EndProc
<1>2. TestsMove(p) /\ Quiet
  BY <1>0, NoTestMoves DEF FinishManifest, disk, counters, TypeInv, Histories
<1>3. proc[p].pc = "final" /\ manifest' \in [status : Statuses, epochs : 0 .. MaxEpochs]
  <2>1. /\ proc[p].status \in Statuses /\ manifest \in [status : Statuses, epochs : 0 .. MaxEpochs]
        /\ latest.epoch \in 0 .. MaxEpochs /\ 0 \in 0 .. MaxEpochs
    BY <1>0, PointerEpoch, LegacyTrainingAssumption
       DEF TypeInv, ProcType, LegacyTrainingAssumption
  <2>2. /\ proc[p].pc = "final"
        /\ \/ manifest' = manifest
           \/ manifest' = [status |-> proc[p].status, epochs |-> 0]
           \/ manifest' = [status |-> proc[p].status, epochs |-> latest.epoch]
    BY DEF FinishManifest
  <2> QED
    BY <2>1, <2>2
<1>4. TypeInv'
  <2>1. OtherTypes'
    BY <1>0, <1>1, <1>2, <1>3 DEF FinishManifest, disk, counters, TypeInv, OtherTypes
  <2> QED
    BY <1>0, <1>1, <1>2, <2>1, TypesKept
<1>5. StageInv'
  BY <1>0, <1>1, StagesKept DEF StageInv, StageOf, Keeps, Training
<1>6. PidInv'
  BY <1>0, <1>1, <1>2, PidsKept, <1>3
     DEF FinishManifest, counters, Untested, Keeps, Training
<1>7. proc[p].pc # "idle" /\ ~Busy(p) /\ ~Busy(p)'
  BY <1>0, <1>1, <1>3 DEF Busy, Training, Closing, Evaluating, StageInv, StageOf
<1>8. LockInv'
  BY <1>0, <1>1, <1>2, <1>7, LocksKept
     DEF FinishManifest, disk, counters, TestsMove, Training
<1>9. TestInv'
  BY <1>0, <1>1, <1>2, <1>7, NoTestsKept
     DEF FinishManifest, disk, counters, Training, Evaluating
<1>10. DiskInv'
  BY <1>0, <1>1, <1>2, DiskKept DEF FinishManifest, disk, counters, TestsMove, DiskStage
<1> QED
  BY <1>4, <1>5, <1>6, <1>8, <1>9, <1>10 DEF Inv

LEMMA TakeLockKeeps ==
    ASSUME Inv, NEW p \in Slots, TakeLock(p)
    PROVE  Inv'
<1>0. TypeInv /\ PidInv /\ StageInv /\ LockInv /\ TestInv /\ DiskInv
  BY DEF Inv
<1>1. /\ proc' \in [Slots -> ProcType]
      /\ proc[p].pc = "take" /\ proc'[p].pc = "forecast"
      /\ OthersStay(p)
      /\ proc'[p].pid = proc[p].pid /\ proc'[p].base = proc[p].base
      /\ proc'[p].online /\ proc'[p].st = proc[p].st
  BY <1>0, TakeLockProc
<1>2. TestsMove(p) /\ Quiet
  BY <1>0, NoTestMoves DEF TakeLock, disk, counters, TypeInv, Histories
<1>3. lock' = proc[p].pid /\ lock' \in Nat
  BY <1>0 DEF TakeLock, TypeInv, ProcType
<1>4. TypeInv'
  <2>1. OtherTypes'
    BY <1>0, <1>1, <1>2, <1>3 DEF TakeLock, disk, counters, TypeInv, OtherTypes
  <2> QED
    BY <1>0, <1>1, <1>2, <2>1, TypesKept
<1>5. StageInv'
  BY <1>0, <1>1, StagesKept DEF StageInv, StageOf, Keeps, Training
<1>6. PidInv'
  BY <1>0, <1>1, <1>2, PidsKept DEF TakeLock, counters, Untested, Keeps, Training
<1>8. LockInv'
  <2> SUFFICES ASSUME "overlap" \notin hist'
               PROVE  /\ \A q \in Slots : proc'[q].pc \in Training => lock' = proc'[q].pid
                      /\ \A q, s \in Slots : Busy(q)' /\ Busy(s)' => q = s
    BY DEF LockInv
  <2>1. \A q \in Slots : q # p => ~Busy(q)' /\ proc'[q].pc \notin Training
    BY <1>0, <1>1, TakeLockAlone, OthersBusy DEF Busy, OthersStay
  <2> QED
    BY <1>1, <1>3, <2>1
<1>9. TestInv'
  BY <1>0, TakeLockTests
<1>10. DiskInv'
  <2>1. Alone' => proc[p].base = latest
    BY DEF Alone, TakeLock
  <2>2. proc[p].st.epoch = proc[p].base.epoch
    BY <1>0, <1>1 DEF StageInv, StageOf
  <2>3. Alone' => DiskStage(p)'
    BY <1>1, <2>1, <2>2 DEF DiskStage, TakeLock, disk
  <2> QED
    BY <1>0, <1>1, <1>2, <2>3, DiskKept DEF TakeLock, disk, TestsMove
<1> QED
  BY <1>4, <1>5, <1>6, <1>8, <1>9, <1>10 DEF Inv

LEMMA LeaveEarlyKeeps ==
    ASSUME Inv, NEW p \in Slots, LeaveEarly(p)
    PROVE  Inv'
<1>0. TypeInv /\ PidInv /\ StageInv /\ LockInv /\ TestInv /\ DiskInv
  BY DEF Inv
<1>1. /\ proc' \in [Slots -> ProcType]
      /\ proc[p].pc \in Training /\ proc'[p].pc = "leave"
      /\ Keeps(p) /\ proc'[p].st = proc[p].st
      /\ OthersStay(p)
  BY <1>0, LeaveEarlyProc
<1>2. TestsMove(p) /\ Quiet /\ faults' \in Nat
  <2>1. /\ live' = live \ { <<proc[p].pid, o>> : o \in {"forecast", "week"} }
        /\ active' = [o \in Owners |->
               IF <<proc[p].pid, o>> \in live /\ o \in {"forecast", "week"} THEN 0 ELSE active[o]]
        /\ hist' = hist \cup (IF proc[p].pc = "mark" THEN {"unmarked"} ELSE {})
        /\ faults' = faults + 1
    BY DEF LeaveEarly, Fault
  <2>2. active' \in [Owners -> Nat] /\ \A o \in Owners : active'[o] \in {active[o], 0}
    BY <1>0, <2>1 DEF TypeInv
  <2>3. hist \subseteq hist' /\ hist' \subseteq Histories
    BY <1>0, <2>1 DEF TypeInv, Histories
  <2>4. live' \subseteq live /\ faults' \in Nat
    BY <1>0, <2>1 DEF TypeInv
  <2> QED
    BY <2>2, <2>3, <2>4 DEF TestsMove, Quiet
<1>4. TypeInv'
  <2>1. OtherTypes'
    BY <1>0, <1>1, <1>2 DEF LeaveEarly, disk, counters, TypeInv, OtherTypes
  <2> QED
    BY <1>0, <1>1, <1>2, <2>1, TypesKept
<1>5. StageInv'
  BY <1>0, <1>1, StagesKept DEF StageInv, StageOf, Keeps, Training
<1>6. PidInv'
  BY <1>0, <1>1, <1>2, PidsKept DEF LeaveEarly, counters, Untested, Keeps, Training
<1>7. Busy(p) /\ Busy(p)'
  BY <1>1 DEF Busy, Training
<1>8. LockInv'
  BY <1>0, <1>1, <1>2, <1>7, LocksKept
     DEF LeaveEarly, disk, counters, TestsMove, Keeps, Training
<1>9. TestInv'
  BY <1>0, LeaveEarlyTests
<1>10. DiskInv'
  BY <1>0, <1>1, <1>2, DiskKept DEF LeaveEarly, disk, counters, TestsMove, DiskStage
<1> QED
  BY <1>4, <1>5, <1>6, <1>8, <1>9, <1>10 DEF Inv

LEMMA LeaveLockKeeps ==
    ASSUME Inv, NEW p \in Slots, LeaveLock(p)
    PROVE  Inv'
<1>0. TypeInv /\ PidInv /\ StageInv /\ LockInv /\ TestInv /\ DiskInv
  BY DEF Inv
<1>1. /\ proc' \in [Slots -> ProcType]
      /\ proc[p].pc \in {"trained", "leave"} /\ proc'[p].pc = "close"
      /\ proc'[p].pid = proc[p].pid /\ proc'[p].online = proc[p].online
      /\ OthersStay(p)
  BY <1>0, LeaveLockProc
<1>2. TestsMove(p) /\ Quiet /\ hist' = hist
  BY <1>0, NoTestMoves DEF LeaveLock, disk, counters, TypeInv, Histories
<1>4. TypeInv'
  <2>1. OtherTypes'
    BY <1>0, <1>1, <1>2 DEF LeaveLock, disk, counters, TypeInv, OtherTypes
  <2> QED
    BY <1>0, <1>1, <1>2, <2>1, TypesKept
<1>5. StageInv'
  BY <1>0, <1>1, StagesKept DEF StageInv, StageOf, Keeps, Training
<1>6. PidInv'
  BY <1>0, <1>1, <1>2, PidsKept DEF LeaveLock, counters, Untested, Keeps, Training
<1>7. Busy(p) /\ Busy(p)'
  BY <1>0, <1>1 DEF Busy, Training, Closing, StageInv, StageOf
<1>8. LockInv'
  <2> SUFFICES ASSUME "overlap" \notin hist
               PROVE  /\ \A q \in Slots : proc'[q].pc \in Training => lock' = proc'[q].pid
                      /\ \A q, s \in Slots : Busy(q)' /\ Busy(s)' => q = s
    BY <1>2 DEF LockInv
  <2>1. \A q \in Slots : q # p => ~Busy(q)
    BY <1>0, <1>7, WorksAlone
  <2>2. \A q \in Slots : q # p => ~Busy(q)' /\ proc'[q].pc \notin Training
    BY <1>1, <2>1, OthersBusy DEF Busy, OthersStay
  <2>3. proc'[p].pc \notin Training
    BY <1>1 DEF Training
  <2> QED
    BY <2>2, <2>3
<1>9. TestInv'
  BY <1>0, <1>1, <1>2, <1>7, NoTestsKept
     DEF LeaveLock, disk, counters, Training, Evaluating
<1>10. DiskInv'
  BY <1>0, <1>1, <1>2, DiskKept DEF LeaveLock, disk, counters, TestsMove, DiskStage
<1> QED
  BY <1>4, <1>5, <1>6, <1>8, <1>9, <1>10 DEF Inv

LEMMA CleanUpKeeps ==
    ASSUME Inv, NEW p \in Slots, CleanUp(p)
    PROVE  Inv'
<1>0. TypeInv /\ PidInv /\ StageInv /\ LockInv /\ TestInv /\ DiskInv
  BY DEF Inv
<1>1. /\ proc' \in [Slots -> ProcType]
      /\ proc[p].pc = "cleanup" /\ proc'[p].pc = "final"
      /\ Keeps(p)
      /\ OthersStay(p)
  BY <1>0, CleanUpProc
<1>2. TestsMove(p) /\ Quiet /\ faults' \in Nat /\ Cleanup(proc[p].online, hist)
  <2>1. Cleanup(proc[p].online, hist) /\ proc[p].online \in BOOLEAN
    BY <1>0 DEF CleanUp, TypeInv, ProcType
  <2>2. hist \subseteq hist /\ hist \subseteq Histories
    BY <1>0 DEF TypeInv, Histories
  <2> QED
    BY <1>0, <2>1, <2>2, CleanupMoves
<1>4. TypeInv'
  <2>1. OtherTypes'
    BY <1>0, <1>1, <1>2 DEF CleanUp, disk, counters, TypeInv, OtherTypes
  <2> QED
    BY <1>0, <1>1, <1>2, <2>1, TypesKept
<1>5. StageInv'
  BY <1>0, <1>1, StagesKept DEF StageInv, StageOf, Keeps, Training
<1>6. PidInv'
  BY <1>0, <1>1, <1>2, PidsKept DEF CleanUp, counters, Untested, Keeps, Training
<1>7. ~Busy(p)'
  BY <1>1 DEF Busy, Training, Closing, Evaluating
<1>8. LockInv'
  BY <1>0, <1>1, <1>2, <1>7, LocksKept DEF CleanUp, disk, counters, TestsMove, Training
<1>9. TestInv'
  <2>1. CASE proc[p].online
    <3>1. Busy(p) /\ Cleanup(TRUE, hist) /\ proc'[p].pid = proc[p].pid
      BY <1>1, <1>2, <2>1 DEF Busy, Closing, Keeps
    <3> QED
      BY <1>0, <1>1, <3>1, ForcedTests
  <2>2. CASE ~proc[p].online
    <3>1. ~Busy(p) /\ Untested(p)
      BY <1>1, <2>2 DEF Busy, Training, Evaluating, Untested
    <3>2. proc'[p].pid = proc[p].pid /\ proc[p].pid \in Nat \ {0}
      BY <1>0, <1>1 DEF Keeps, PidInv, TypeInv
    <3>3. \A o \in Owners : active[o] # proc'[p].pid
      BY <1>0, <3>1, <3>2 DEF PidInv
    <3>4. Cleanup(FALSE, hist) /\ hist \subseteq hist
      BY <1>0, <1>2, <2>2 DEF TypeInv, ProcType
    <3> QED
      BY <1>0, <1>1, <1>7, <3>1, <3>2, <3>3, <3>4, CleanupTests
  <2> QED
    BY <2>1, <2>2
<1>10. DiskInv'
  BY <1>0, <1>1, <1>2, DiskKept DEF CleanUp, disk, counters, TestsMove, DiskStage
<1> QED
  BY <1>4, <1>5, <1>6, <1>8, <1>9, <1>10 DEF Inv

LEMMA CheckOwnersKeeps ==
    ASSUME Inv, NEW p \in Slots, CheckOwners(p)
    PROVE  Inv'
<1>0. TypeInv /\ PidInv /\ StageInv /\ LockInv /\ TestInv /\ DiskInv
  BY DEF Inv
<1>1. /\ proc' \in [Slots -> ProcType]
      /\ proc[p].pc = "echeck"
      /\ OthersStay(p)
      /\ \/ proc'[p].pc = "idle"
         \/ proc'[p].pc = "eforecast" /\ Keeps(p) /\ LiveOwners = {}
  BY <1>0, CheckOwnersProc
<1> DEFINE before == IF \E q \in Slots \ {p} : Busy(q) THEN hist \cup {"overlap"} ELSE hist
<1>3. hist \subseteq before /\ before \subseteq Histories /\ Cleanup(FALSE, before)
  BY <1>0 DEF CheckOwners, TypeInv, Histories
<1> HIDE DEF before
<1>2. TestsMove(p) /\ Quiet /\ faults' \in Nat
  BY <1>0, <1>3, CleanupMoves
<1>4. TypeInv'
  <2>1. OtherTypes'
    BY <1>0, <1>1, <1>2 DEF CheckOwners, disk, counters, TypeInv, OtherTypes
  <2> QED
    BY <1>0, <1>1, <1>2, <2>1, TypesKept
<1>5. StageInv'
  BY <1>0, <1>1, StagesKept DEF StageInv, StageOf, Keeps, Training
<1>6. PidInv'
  BY <1>0, <1>1, <1>2, PidsKept DEF CheckOwners, counters, Untested, Keeps, Training
<1>7. ~Busy(p) /\ proc[p].pc # "idle" /\ Untested(p)
  BY <1>1 DEF Busy, Training, Closing, Evaluating, Untested
<1>8. LockInv'
  <2> SUFFICES ASSUME "overlap" \notin hist'
               PROVE  /\ \A q \in Slots : proc'[q].pc \in Training => lock' = proc'[q].pid
                      /\ \A q, s \in Slots : Busy(q)' /\ Busy(s)' => q = s
    BY DEF LockInv
  <2>1. \A q \in Slots : q # p => ~Busy(q)
    BY <1>3, <1>7 DEF Cleanup, before
  <2>2. \A q \in Slots : q # p => ~Busy(q)' /\ proc'[q].pc \notin Training
    BY <1>1, <2>1, OthersBusy DEF Busy, OthersStay
  <2>3. proc'[p].pc \notin Training
    BY <1>1 DEF Training
  <2> QED
    BY <2>2, <2>3
<1>9. TestInv'
  <2>1. CASE proc'[p].pc = "idle"
    <3>1. ~Busy(p)'
      BY <2>1 DEF Busy, Training, Closing, Evaluating
    <3> QED
      BY <1>0, <1>1, <1>3, <1>7, <2>1, <3>1, CleanupTests
  <2>2. CASE proc'[p].pc = "eforecast" /\ Keeps(p) /\ LiveOwners = {}
    BY <1>0, <1>1, <1>3, <1>7, <2>2, BeginTests DEF Keeps
  <2> QED
    BY <1>1, <2>1, <2>2
<1>10. DiskInv'
  BY <1>0, <1>1, <1>2, DiskKept DEF CheckOwners, disk, counters, TestsMove, DiskStage
<1> QED
  BY <1>4, <1>5, <1>6, <1>8, <1>9, <1>10 DEF Inv

\* Every action keeps the invariant.
LEMMA StepKeeps ==
    ASSUME Inv, NEW p \in Slots, Step(p) \/ Kill(p)
    PROVE  Inv'
<1>1. ASSUME NEW first \in {"read", "ebest"}, Launch(p, first)
      PROVE  Inv'
  BY <1>1, LaunchKeeps
<1>2. CASE \/ Launch(p, "read") \/ ReadLatest(p) \/ CheckLock(p) \/ TakeLock(p)
           \/ proc[p].pc = "forecast" /\ SelectForecast(p, "fetch")
           \/ FetchForecast(p) \/ FingerprintChanged(p) \/ Build(p)
           \/ Rollout(p) \/ PostUpdate(p)
  BY <1>1, <1>2, ReadLatestKeeps, CheckLockKeeps, TakeLockKeeps, FetchBeginsKeeps,
     FetchForecastKeeps, FingerprintChangedKeeps, BuildKeeps, RolloutKeeps, PostUpdateKeeps
<1>3. CASE \/ WriteFiles(p) \/ CommitBundle(p) \/ MovePointer(p) \/ MarkBest(p) \/ SaveFails(p)
           \/ LeaveEarly(p) \/ LeaveLock(p) \/ CloseEnvironments(p) \/ CleanUp(p)
           \/ FinishManifest(p)
  BY <1>3, WriteFilesKeeps, CommitBundleKeeps, MovePointerKeeps, MarkBestKeeps,
     SaveFailsKeeps,
     LeaveEarlyKeeps, LeaveLockKeeps, CloseEnvironmentsKeeps, CleanUpKeeps, FinishManifestKeeps
<1>4. CASE \/ Launch(p, "ebest") \/ ReadBest(p) \/ CheckOwners(p)
           \/ proc[p].pc = "eforecast" /\ SelectForecast(p, "eload")
           \/ LoadBest(p) \/ RolloutPolicy(p) \/ PublishReport(p)
  BY <1>1, <1>4, ReadBestKeeps, CheckOwnersKeeps, EvaluationFetchBeginsKeeps,
     LoadBestKeeps,
     RolloutPolicyKeeps, PublishReportKeeps
<1>5. CASE Kill(p)
  BY <1>5, KillKeeps
<1> QED
  BY <1>2, <1>3, <1>4, <1>5 DEF Step

\* So does a step that changes nothing.
LEMMA StutterKeeps ==
    ASSUME Inv, UNCHANGED vars
    PROVE  Inv'
<1>1. /\ latest' = latest /\ best' = best /\ bundles' = bundles /\ manifest' = manifest
      /\ report' = report /\ lock' = lock /\ active' = active /\ live' = live /\ proc' = proc
      /\ launches' = launches /\ kills' = kills /\ faults' = faults /\ hist' = hist
  BY DEF vars, disk, counters
<1>2. TypeInv' /\ PidInv' /\ StageInv' /\ LockInv'
  BY <1>1 DEF Inv, TypeInv, PidInv, Untested, StageInv, StageOf, LockInv, Busy
<1>3. TestInv'
  BY <1>1 DEF Inv, TestInv, Defended, FilesKnown, TestsKnown, EvaluationTests, Busy
<1>4. DiskInv'
  BY <1>1 DEF Inv, DiskInv, Alone, PointersLoad, Loads, DiskStage, Bundle
<1> QED
  BY <1>2, <1>3, <1>4 DEF Inv

\* The invariant is inductive.
LEMMA NextKeeps ==
    ASSUME Inv, [Next]_vars
    PROVE  Inv'
  BY StepKeeps, StutterKeeps DEF Next

\* The invariant holds of an empty run directory.
LEMMA InitInv == Init => Inv
<1> SUFFICES ASSUME Init
             PROVE  Inv
  OBVIOUS
<1>1. /\ \A p \in Slots : proc[p] = NoProc
      /\ \A p \in Slots : proc[p].pc = "idle"
  BY DEF Init, NoProc
<1>2. TypeInv
  <2>1. /\ NoFiles \in [data : Pointers \cup {Torn}, manifest : Pointers]
        /\ None \in Pointers /\ 0 \in 0 .. MaxEpochs /\ "none" \in Statuses
    BY LegacyTrainingAssumption
       DEF NoFiles, Pointers, Statuses, LegacyTrainingAssumption
  <2>2. proc \in [Slots -> ProcType]
    BY NoProcType DEF Init
  <2>3. bundles \in [1 .. MaxEpochs -> [data : Pointers \cup {Torn}, manifest : Pointers]]
    BY <2>1 DEF Init
  <2>4. manifest \in [status : Statuses, epochs : 0 .. MaxEpochs]
    BY <2>1 DEF Init
  <2> QED
    BY <2>1, <2>2, <2>3, <2>4 DEF Init, TypeInv
<1>3. /\ \A p \in Slots : ~Untested(p) /\ ~Busy(p)
      /\ \A p \in Slots : proc[p].pc \notin Training \cup Evaluating
  BY <1>1 DEF Untested, Busy, Training, Closing, Evaluating
<1>4. PidInv
  BY <1>1, <1>3 DEF Init, PidInv
<1>5. StageInv /\ LockInv
  BY <1>1, <1>3 DEF StageInv, StageOf, LockInv, Training
<1>6. TestInv
  BY <1>1, <1>3 DEF Init, TestInv, FilesKnown, TestsKnown, EvaluationTests
<1>7. DiskInv
  BY <1>1 DEF Init, DiskInv, PointersLoad, DiskStage
<1> QED
  BY <1>2, <1>4, <1>5, <1>6, <1>7 DEF Inv

-----------------------------------------------------------------------------
(* The theorems. *)

\* What the run directory holds, whatever launches are begun, killed or fail in it.
THEOREM LegacyInvariance == Spec => []Inv
<1>1. Inv /\ [Next]_vars => Inv'
  BY NextKeeps
<1> QED
  BY InitInv, <1>1, PTL DEF Spec

\* The types of the run directory and of its launches.
THEOREM LegacyTypeCorrect == Spec => []TypeInv
<1>1. Inv => TypeInv
  BY DEF Inv
<1> QED
  BY <1>1, LegacyInvariance, PTL

\* latest.json and best.json can be loaded with all their checksums wherever a launch
\* is killed, fails or prunes, unless launches worked on the directory together.
THEOREM AlwaysRecoverable == Spec => []Recoverable
<1>1. Inv => Recoverable
  BY DEF Inv, DiskInv, PointersLoad, Recoverable
<1> QED
  BY <1>1, LegacyInvariance, PTL

\* While stops succeed, every test the launches know of is named by its owner's file,
\* and none is left when nothing runs and no launch was killed.
THEOREM NoTestAlwaysLeft == Spec => []NoTestLeft
<1>1. Inv => NoTestLeft
  <2> SUFFICES ASSUME Inv, Defended
               PROVE  /\ \A t \in live : t[2] = "lost" \/ active[t[2]] = t[1]
                      /\ "killed" \notin hist /\ (\A p \in Slots : proc[p].pc = "idle")
                             => \A t \in live : t[2] = "lost"
    BY DEF NoTestLeft, Defended
  <2>1. TestsKnown
    BY DEF Inv, TestInv
  <2>2. ASSUME NEW p \in Slots, proc[p].pc = "idle"
        PROVE  ~Busy(p)
    BY <2>2 DEF Busy, Training, Closing, Evaluating
  <2> QED
    BY <2>1, <2>2 DEF TestsKnown
<1> QED
  BY <1>1, LegacyInvariance, PTL

\* A step that ends a test ends one of its own launch or of one that runs no more, or
\* is the forced clean-up of a launch at work; and it moves its launch on.
LEMMA Losses ==
    ASSUME TypeInv, StageInv, NEW q \in Slots, Step(q) \/ Kill(q), NEW t \in live \ live'
    PROVE  /\ \/ t[1] = proc[q].pid
              \/ ~Runs(t[1])
              \/ proc[q].pc = "cleanup" /\ proc[q].online
           /\ proc'[q].pc # proc[q].pc
<1>1. ASSUME NEW o \in Owners, Stop(q, o)
      PROVE  t[1] = proc[q].pid
  BY <1>1 DEF Stop
<1>2. ASSUME NEW before, Cleanup(FALSE, before)
      PROVE  ~Runs(t[1])
  <2>1. PICK o \in Stale(FALSE) : t = <<active[o], o>>
    BY <1>2 DEF Cleanup
  <2> QED
    BY <2>1 DEF Stale, PidIsAlive
<1>3. ASSUME NEW o \in Owners, Select(q, o)
      PROVE  FALSE
  BY <1>3 DEF Select
<1>4. CASE \/ ReadLatest(q) \/ CheckLock(q) \/ TakeLock(q) \/ FingerprintChanged(q)
           \/ WriteFiles(q) \/ CommitBundle(q) \/ MovePointer(q) \/ MarkBest(q)
           \/ SaveFails(q) \/ LeaveLock(q) \/ FinishManifest(q) \/ ReadBest(q)
  BY <1>4
     DEF ReadLatest, CheckLock, TakeLock, FingerprintChanged, WriteFiles,
         CommitBundle,
     MovePointer, MarkBest, SaveFails, LeaveLock, FinishManifest, ReadBest
<1>5. CASE \/ SelectForecast(q, "fetch") \/ SelectForecast(q, "eload")
           \/ Build(q) \/ RolloutPolicy(q)
  BY <1>3, <1>5 DEF SelectForecast, Build, RolloutPolicy, Owners
<1>6. CASE Rollout(q)
  BY <1>3, <1>6 DEF Rollout, Owners
<1>7. CASE Kill(q)
  BY <1>7 DEF Kill
<1>8. CASE FetchForecast(q)
  BY <1>1, <1>8, FetchForecastProc DEF FetchForecast, Owners
<1>9. CASE PostUpdate(q)
  BY <1>1, <1>9, PostUpdateProc DEF PostUpdate, Owners
<1>10. CASE CloseEnvironments(q)
  BY <1>1, <1>10, CloseEnvironmentsProc DEF CloseEnvironments, Owners
<1>11. CASE LoadBest(q)
  BY <1>1, <1>11, LoadBestProc DEF LoadBest, Owners
<1>12. CASE PublishReport(q)
  <2>1. Stop(q, "final") /\ proc[q].pc = "epublish" /\ proc'[q].pc = "idle"
    BY <1>12, EndProc DEF PublishReport
  <2> QED
    BY <1>1, <2>1 DEF Owners
<1>13. CASE LeaveEarly(q)
  <2>1. proc[q].pc # "leave" /\ proc'[q].pc = "leave"
    BY <1>13, LeaveEarlyProc DEF LeaveEarly
  <2>2. live' = live \ { <<proc[q].pid, o>> : o \in {"forecast", "week"} }
    BY <1>13 DEF LeaveEarly
  <2> QED
    BY <2>1, <2>2
<1>14. ASSUME NEW first \in {"read", "ebest"}, Launch(q, first)
       PROVE  ~Runs(t[1]) /\ proc'[q].pc # proc[q].pc
  BY <1>2, <1>14, LaunchProc DEF Launch
<1>15. CASE CheckOwners(q)
  <2>1. proc'[q].pc # proc[q].pc
    BY <1>15, CheckOwnersProc
  <2>2. \E before : Cleanup(FALSE, before)
    BY <1>15 DEF CheckOwners
  <2> QED
    BY <1>2, <2>1, <2>2
<1>16. CASE CleanUp(q)
  <2>1. proc[q].pc = "cleanup" /\ proc'[q].pc = "final"
    BY <1>16, CleanUpProc
  <2>2. proc[q].online \/ Cleanup(FALSE, hist)
    BY <1>16 DEF CleanUp, TypeInv, ProcType
  <2> QED
    BY <1>2, <2>1, <2>2
<1> QED
  BY <1>4, <1>5, <1>6, <1>7, <1>8, <1>9, <1>10, <1>11, <1>12, <1>13, <1>14, <1>15, <1>16
     DEF Step

\* A launch never loses a test to another launch before it has ended its own clean-up,
\* unless they overlapped where the lock does not keep them apart.
THEOREM TestsAlwaysSpared == Spec => TestsSpared
<1> DEFINE Spared ==
        \A p \in Slots : \A t \in live \ live' :
            /\ proc[p].pc \notin {"idle", "final"} /\ proc[p].pid = t[1]
            /\ "overlap" \notin hist
            => proc'[p] # proc[p]
<1>1. Inv /\ [Next]_vars => [Spared]_vars
  <2> SUFFICES ASSUME Inv, Next,
                      NEW p \in Slots, NEW t \in live \ live',
                      proc[p].pc \notin {"idle", "final"}, proc[p].pid = t[1],
                      "overlap" \notin hist
               PROVE  proc'[p] # proc[p]
    OBVIOUS
  <2>1. PICK q \in Slots : Step(q) \/ Kill(q)
    BY DEF Next
  <2>2. /\ \/ t[1] = proc[q].pid
           \/ ~Runs(t[1])
           \/ proc[q].pc = "cleanup" /\ proc[q].online
        /\ proc'[q].pc # proc[q].pc
    BY <2>1, Losses DEF Inv
  <2>3. CASE q = p
    BY <2>2, <2>3
  <2>4. CASE q # p
    <3>1. Runs(t[1])
      BY DEF Runs
    <3>2. CASE proc[q].pc = "cleanup" /\ proc[q].online
      <4>1. Busy(q)
        BY <3>2 DEF Busy, Closing
      <4>2. ~Busy(p)
        BY <2>4, <4>1 DEF Inv, LockInv
      <4>3. Untested(p)
        <5>1. proc[p].pc \in Pcs /\ (proc[p].pc = "close" => proc[p].online)
          BY DEF Inv, TypeInv, ProcType, StageInv, StageOf
        <5> QED
          BY <4>2, <5>1 DEF Busy, Untested, Pcs, Closing
      <4> QED
        BY <4>3 DEF Inv, PidInv
    <3>3. CASE t[1] = proc[q].pid
      <4>1. CASE proc[q].pc = "idle"
        <5>1. PICK first \in {"read", "ebest"} : Launch(q, first)
          BY <2>1, <4>1 DEF Step, ReadLatest, CheckLock, TakeLock, FetchForecast,
             FingerprintChanged, Build, Rollout, PostUpdate, WriteFiles, CommitBundle,
             MovePointer, MarkBest, SaveFails, LeaveEarly, Training, LeaveLock,
             CloseEnvironments, CleanUp, FinishManifest, ReadBest, CheckOwners, LoadBest,
             RolloutPolicy, PublishReport, Kill
        <5>2. PICK failed \in SUBSET Stale(FALSE) :
                  live' = live \ { <<active[o], o>> : o \in Stale(FALSE) \ failed }
          BY <5>1 DEF Launch, Cleanup
        <5>3. PICK o \in Stale(FALSE) : t = <<active[o], o>>
          BY <5>2
        <5> QED
          BY <3>1, <5>3, SMTT(30) DEF Stale, PidIsAlive
      <4>2. CASE proc[q].pc # "idle"
        BY <2>4, <3>3, <4>2 DEF Inv, PidInv
      <4> QED
        BY <4>1, <4>2
    <3> QED
      BY <2>2, <3>1, <3>2, <3>3
  <2> QED
    BY <2>3, <2>4
<1> QED
  BY <1>1, LegacyInvariance, PTL DEF Spec, TestsSpared

-----------------------------------------------------------------------------
(***************************************************************************)
(* The chain of trainings and evaluations: types.                          *)
(***************************************************************************)
ChainStates ==
    [epoch : Nat, best : Nat, bestEpoch : Nat, conv : BOOLEAN, stop : BOOLEAN,
     from : {"scratch", "best", "latest"}]
ChainStatuses == {"none", "training", "complete", "failed", "interrupted"}
RunFiles ==
    [latest : ChainStates, best : ChainStates, rows : Nat,
     manifest : [status : ChainStatuses, epoch : Nat, conv : BOOLEAN]]

ImportPcs == {"import", "importMark", "importLatest"}
EpochPcs == {"epoch", "mark", "rows"}
EvaluationPcs == {"methods", "progress", "copy", "sign"}

ChainTypes ==
    /\ dir \in [ChainRuns -> RunFiles]
    /\ DOMAIN final = Suites
    /\ \A s \in Suites : DOMAIN final[s] = {"sig", "done", "ended", "report"}
    /\ DOMAIN delivery = {"signed", "copied"}
    /\ DOMAIN op = {"pc", "what", "st", "newBest", "status", "sig"}
    /\ op.st \in ChainStates
    /\ op.status \in ChainStatuses
    /\ op.pc \in {"idle", "finish"} \cup ImportPcs \cup EpochPcs \cup EvaluationPcs

\* Which command is at which step.
OpInv ==
    /\ op.pc = "idle" => op.what = "none"
    /\ op.pc \in EpochPcs \cup {"finish"} => op.what \in ChainRuns
    /\ op.pc \in ImportPcs => op.what \in {"cppo", "cmappo"}
    /\ op.pc = "importLatest" => op.what = "cmappo"
    /\ op.pc \in EvaluationPcs => op.what \in Suites
    /\ op.pc \in {"copy", "sign"} => op.what = "c7"

(***************************************************************************)
(* What a training command knows, and from where it continued.             *)
(***************************************************************************)
\* A command that trains is at the state it saved last, and trains on only where its run
\* is not complete; an import takes what the preflight looked at.
TrainerInv ==
    /\ op.pc \in EpochPcs => op.st = dir[op.what].latest
    /\ op.pc = "epoch" => ~Complete(op.what, op.st)
    /\ op.pc \in EpochPcs /\ op.what \in {"cppo", "cmappo"} => dir[op.what].latest # NoState
    /\ op.pc \in ImportPcs /\ op.what = "cppo" => PpoFits
    /\ op.pc \in ImportPcs /\ op.what = "cmappo" => MappoFits
    /\ op.pc = "importMark" /\ op.what = "cppo" => op.st = dir["cppo"].latest

EpochInv == \A r \in ChainRuns : dir[r].latest.epoch <= Cap(r)

\* A continuation stands at its parent's last epoch or beyond, or the command that imports
\* the MAPPO has so far saved only its best.
OriginInv ==
    /\ dir["cppo"].latest # NoState => dir["cppo"].latest.from = "latest"
    /\ op.pc = "importMark" /\ op.what = "cppo" => dir["cppo"].latest.epoch = Parent
    /\ "halfImport" \notin history =>
          \/ dir["cmappo"].latest = NoState
          \/ dir["cmappo"].latest.from = "latest"
          \/ /\ op.what = "cmappo" /\ op.pc \in {"importMark", "importLatest"}
             /\ dir["cmappo"].latest.epoch = ParentBest

(***************************************************************************)
(* What an evaluation is about.                                            *)
(***************************************************************************)
\* Nothing writes the checkpoints of this run any more.
Settled(r) == RunFinished(r) /\ HasBest(r) /\ op.what # r

\* The metrics are those of the checkpoints that stand now.
Measured(s, metrics) ==
    \A m \in metrics : m.policy \in Methods(s) /\ m.model = dir[m.policy].best

SuiteInv(s) ==
    /\ final[s].sig = NoModels => final[s].report = NoModels
    /\ final[s].sig # NoModels =>
          /\ \A r \in Methods(s) : Settled(r)
          /\ final[s].sig = Signature(s)
          /\ Measured(s, final[s].done)
    /\ final[s].report # NoModels =>
          /\ final[s].report.sig = Signature(s)
          /\ Measured(s, final[s].report.metrics)
    /\ op.what = s => final[s].sig # NoModels
    /\ op.pc \in {"methods", "progress"} /\ op.what = s => op.sig = Signature(s)
    /\ op.pc \in EvaluationPcs \ {"methods"} /\ op.what = s => final[s].report # NoModels

DeliveryInv ==
    /\ op.pc = "sign" => delivery.copied = Signature("c7")
    /\ delivery.signed # NoModels =>
          /\ final["c7"].report # NoModels
          /\ delivery.signed = Signature("c7")
          /\ delivery.copied = Signature("c7")

ChainInv ==
    /\ ChainTypes /\ OpInv /\ TrainerInv /\ EpochInv /\ OriginInv
    /\ \A s \in Suites : SuiteInv(s)
    /\ DeliveryInv

-----------------------------------------------------------------------------
LEMMA ChainNames ==
    /\ \A s \in Suites : /\ Methods(s) \subseteq ChainRuns
                         /\ Own(s) \subseteq Methods(s)
                         /\ s \notin ChainRuns /\ s # "none"
    /\ "none" \notin ChainRuns
    /\ Own("c7") = {"cppo", "cmappo"}
    /\ \A r \in ChainRuns : SuiteOf(r) = "c7" <=> r \in {"cppo", "cmappo"}
<1>1. \A s \in Suites : Methods(s) \subseteq ChainRuns /\ s \notin ChainRuns /\ s # "none"
  BY DEF Suites, Methods, ChainRuns
<1>2. \A s \in Suites : Own(s) \subseteq Methods(s)
  BY DEF Own
<1>3. \A r \in ChainRuns : SuiteOf(r) = "c7" <=> r \in {"cppo", "cmappo"}
  BY DEF SuiteOf, ChainRuns
<1>4. Own("c7") = {"cppo", "cmappo"}
  BY DEF Own, Methods, SuiteOf
<1> QED
  BY <1>1, <1>2, <1>3, <1>4 DEF ChainRuns

\* The missing models are no signature.
LEMMA SignatureIsSome ==
    ASSUME NEW s \in Suites
    PROVE  Signature(s) # NoModels
<1>1. \E r \in Own(s) : r \in ChainRuns
  BY DEF Own, Methods, SuiteOf, Suites, ChainRuns
<1>2. DOMAIN Signature(s) = Own(s)
  BY DEF Signature
<1>3. DOMAIN NoModels = {"none"}
  BY DEF NoModels
<1> QED
  BY <1>1, <1>2, <1>3, ChainNames

LEMMA ReportIsSome ==
    ASSUME NEW g, NEW ms
    PROVE  [sig |-> g, metrics |-> ms] # NoModels
<1>1. DOMAIN [sig |-> g, metrics |-> ms] = {"sig", "metrics"}
  OBVIOUS
<1>2. DOMAIN NoModels = {"none"}
  BY DEF NoModels
<1> QED
  BY <1>1, <1>2

LEMMA NoStateType == NoState \in ChainStates /\ NoState.epoch = 0
BY DEF NoState, ChainStates

LEMMA IdleFacts ==
    /\ DOMAIN Idle = {"pc", "what", "st", "newBest", "status", "sig"}
    /\ Idle.pc = "idle" /\ Idle.what = "none" /\ Idle.st = NoState /\ Idle.status = "complete"
BY DEF Idle

\* A run that is not complete is before its cap.
LEMMA BeforeCap ==
    ASSUME NEW r \in ChainRuns, NEW st \in ChainStates, ~Complete(r, st)
    PROVE  st.epoch + 1 <= Cap(r)
<1>1. st.epoch \in Nat /\ Parent \in Nat /\ Target \in Nat
  BY LegacyCampaignAssumption DEF ChainStates
<1>2. SuiteOf(r) \in {"v3", "w2", "c7"}
  BY DEF SuiteOf
<1>3. CASE SuiteOf(r) = "v3"
  BY <1>1, <1>3 DEF Complete, Cap, V3Complete
<1>4. CASE SuiteOf(r) = "w2"
  BY <1>1, <1>4 DEF Complete, Cap, W2Complete
<1>5. CASE SuiteOf(r) = "c7"
  BY <1>1, <1>5 DEF Complete, Cap, C7Complete
<1> QED
  BY <1>2, <1>3, <1>4, <1>5

\* What the preflight of the continuation admits is settled.
LEMMA ParentsSettled ==
    ASSUME ChainTypes, OpInv
    PROVE  /\ MappoFits => RunFinished("v3mappo") /\ HasBest("v3mappo")
           /\ PpoFits => RunFinished("w2ppo") /\ HasBest("w2ppo")
<1>1. Parent \in Nat \ {0} /\ ParentBest \in Nat \ {0}
  BY LegacyCampaignAssumption
<1>2. SuiteOf("v3mappo") = "v3" /\ SuiteOf("w2ppo") = "w2"
  BY DEF SuiteOf
<1>3. "v3mappo" \in ChainRuns /\ "w2ppo" \in ChainRuns
  BY DEF ChainRuns
<1>4. ASSUME MappoFits  PROVE RunFinished("v3mappo") /\ HasBest("v3mappo")
  <2>1. dir["v3mappo"].latest.epoch = Parent /\ dir["v3mappo"].best.epoch = ParentBest
    BY <1>4 DEF MappoFits
  <2>2. V3Complete(dir["v3mappo"].latest)
    BY <1>1, <2>1 DEF V3Complete
  <2>3. Complete("v3mappo", dir["v3mappo"].latest)
    BY <1>2, <2>2 DEF Complete
  <2> QED
    BY <1>1, <2>1, <2>3, NoStateType DEF RunFinished, HasBest
<1>5. ASSUME PpoFits  PROVE RunFinished("w2ppo") /\ HasBest("w2ppo")
  <2>1. dir["w2ppo"].latest.epoch = Parent /\ dir["w2ppo"].best.epoch = Parent
    BY <1>5 DEF PpoFits
  <2>2. W2Complete(dir["w2ppo"].latest)
    BY <1>1, <2>1 DEF W2Complete
  <2>3. Complete("w2ppo", dir["w2ppo"].latest)
    BY <1>2, <2>2 DEF Complete
  <2> QED
    BY <1>1, <2>1, <2>3, NoStateType DEF RunFinished, HasBest
<1> QED
  BY <1>4, <1>5

-----------------------------------------------------------------------------
(* Two kinds of steps: of a training command, which leave the evaluations   *)
(* alone, and of an evaluation, which leave the checkpoints alone.          *)
TrainsOnly(r) ==
    /\ final' = final /\ delivery' = delivery
    /\ \A q \in ChainRuns : q # r => dir'[q] = dir[q]
    /\ ~Settled(r) \/ dir'[r] = dir[r]
    /\ op'.what = "none" \/ (op'.what = r /\ ~Settled(r))
    /\ op'.pc \notin EvaluationPcs

LEMMA SettledStays ==
    ASSUME NEW r \in ChainRuns, TrainsOnly(r), NEW q \in ChainRuns, Settled(q)
    PROVE  dir'[q] = dir[q] /\ Settled(q)'
<1>1. dir'[q] = dir[q]
  BY DEF TrainsOnly
<1>2. op'.what # q
  BY ChainNames DEF TrainsOnly
<1> QED
  BY <1>1, <1>2 DEF Settled, RunFinished, HasBest

LEMMA EvaluationsStay ==
    ASSUME ChainInv, NEW r \in ChainRuns, TrainsOnly(r)
    PROVE  (\A s \in Suites : SuiteInv(s)') /\ DeliveryInv'
<1>1. ASSUME NEW s \in Suites, final[s].sig # NoModels
      PROVE  /\ \A q \in Methods(s) : Settled(q)' /\ dir'[q] = dir[q]
             /\ Signature(s)' = Signature(s)
  <2>1. \A q \in Methods(s) : Settled(q) /\ q \in ChainRuns
    BY <1>1, ChainNames DEF ChainInv, SuiteInv
  <2>2. \A q \in Methods(s) : Settled(q)' /\ dir'[q] = dir[q]
    BY <2>1, SettledStays
  <2>3. \A q \in Own(s) : dir'[q] = dir[q]
    BY <2>2, ChainNames
  <2> QED
    BY <2>2, <2>3 DEF Signature
<1>2. ASSUME NEW s \in Suites  PROVE SuiteInv(s)'
  <2>1. SuiteInv(s) /\ final'[s] = final[s]
    BY DEF ChainInv, TrainsOnly
  <2>2. op'.what # s /\ op'.pc \notin EvaluationPcs
    BY ChainNames DEF TrainsOnly
  <2>3. CASE final[s].sig = NoModels
    BY <2>1, <2>2, <2>3 DEF SuiteInv
  <2>4. CASE final[s].sig # NoModels
    <3>1. \A metrics : Measured(s, metrics) => Measured(s, metrics)'
      BY <1>1, <2>4 DEF Measured
    <3>2. Measured(s, final[s].done) => Measured(s, final[s].done)'
      BY <2>1, <3>1
    <3>3. final[s].report # NoModels =>
             (Measured(s, final[s].report.metrics) => Measured(s, final[s].report.metrics)')
      BY <2>1, <3>1
    <3> QED
      BY <1>1, <2>1, <2>2, <2>4, <3>2, <3>3 DEF SuiteInv
  <2> QED
    BY <2>3, <2>4
<1>3. DeliveryInv'
  <2>1. op'.pc # "sign" /\ delivery' = delivery /\ final' = final
    BY DEF TrainsOnly, EvaluationPcs
  <2>2. "c7" \in Suites
    BY DEF Suites
  <2>3. delivery.signed # NoModels => final["c7"].sig # NoModels
    BY <2>2 DEF ChainInv, DeliveryInv, SuiteInv
  <2> QED
    BY <1>1, <2>1, <2>2, <2>3 DEF ChainInv, DeliveryInv
<1> QED
  BY <1>2, <1>3

\* Nothing but the history, an inventory or the audit changes.
LEMMA ChainStutters ==
    ASSUME ChainInv, UNCHANGED <<dir, final, delivery, op>>, history \subseteq history'
    PROVE  ChainInv'
<1>1. ChainTypes' /\ OpInv' /\ TrainerInv' /\ EpochInv' /\ DeliveryInv'
  BY DEF ChainInv, ChainTypes, OpInv, TrainerInv, EpochInv, DeliveryInv, Signature, PpoFits,
         MappoFits
<1>2. OriginInv'
  BY DEF ChainInv, OriginInv
<1>3. \A s \in Suites : SuiteInv(s)'
  BY DEF ChainInv, SuiteInv, Signature, Measured, Settled, RunFinished, HasBest
<1> QED
  BY <1>1, <1>2, <1>3 DEF ChainInv

-----------------------------------------------------------------------------
(* Training commands. *)

\* What remains to show of a step that leaves the evaluations alone.
LEMMA TrainingStep ==
    ASSUME ChainInv, NEW r \in ChainRuns, TrainsOnly(r),
           ChainTypes', OpInv', TrainerInv', EpochInv', OriginInv'
    PROVE  ChainInv'
BY EvaluationsStay DEF ChainInv

LEMMA BeginStep ==
    ASSUME ChainInv, NEW r \in ChainRuns, NEW ready, op.pc = "idle", Begin(r, ready),
           UNCHANGED <<final, delivery>>, history \subseteq history',
           ready /\ r = "cppo" => PpoFits, ready /\ r = "cmappo" => MappoFits
    PROVE  ChainInv'
<1>1. CASE UNCHANGED <<op, dir>>
  BY <1>1, ChainStutters
<1>2. CASE ready /\ ~RunFinished(r) /\ op' = Started(r)
           /\ dir' = [dir EXCEPT ![r].manifest.status = "training"]
  <2> USE <1>2
  <2>1. ChainTypes /\ OpInv /\ EpochInv /\ OriginInv
    BY DEF ChainInv
  <2>2. /\ DOMAIN op' = {"pc", "what", "st", "newBest", "status", "sig"}
        /\ op'.pc = IF dir[r].latest = NoState /\ SuiteOf(r) = "c7" THEN "import" ELSE "epoch"
        /\ op'.what = r /\ op'.st = dir[r].latest /\ op'.status = "complete"
    BY IdleFacts DEF Started
  <2>3. /\ dir' \in [ChainRuns -> RunFiles]
        /\ \A q \in ChainRuns : q # r => dir'[q] = dir[q]
        /\ \A q \in ChainRuns : dir'[q].latest = dir[q].latest /\ dir'[q].best = dir[q].best
    BY <2>1 DEF ChainTypes, RunFiles, ChainStatuses
  <2>4. op'.pc \in {"import", "epoch"}
    BY <2>2
  <2>5. dir[r].latest \in ChainStates
    BY <2>1 DEF ChainTypes, RunFiles
  <2>6. ChainTypes'
    BY <2>1, <2>2, <2>3, <2>4, <2>5
    DEF ChainTypes, ChainStatuses, ImportPcs, EpochPcs, EvaluationPcs
  <2>7. op'.pc = "import" => r \in {"cppo", "cmappo"}
    BY <2>2, ChainNames
  <2>8. OpInv'
    BY <2>2, <2>4, <2>7 DEF OpInv, ImportPcs, EpochPcs, EvaluationPcs
  <2>9. op'.pc = "epoch" => dir[r].latest = NoState \/ ~Complete(r, dir[r].latest)
    BY DEF RunFinished
  <2>10. ~Complete(r, NoState)
    <3>1. NoState.epoch = 0 /\ NoState.conv = FALSE /\ NoState.stop = FALSE
      BY DEF NoState
    <3>2. 0 < Parent /\ 0 < Target /\ Parent \in Nat /\ Target \in Nat
      BY LegacyCampaignAssumption
    <3>3. ~V3Complete(NoState) /\ ~W2Complete(NoState) /\ ~C7Complete(NoState)
      BY <3>1, <3>2 DEF V3Complete, W2Complete, C7Complete
    <3>4. SuiteOf(r) \in {"v3", "w2", "c7"}
      BY DEF SuiteOf
    <3>5. CASE SuiteOf(r) = "v3"
      BY <3>3, <3>5 DEF Complete
    <3>6. CASE SuiteOf(r) = "w2"
      BY <3>3, <3>6 DEF Complete
    <3>7. CASE SuiteOf(r) = "c7"
      BY <3>3, <3>7 DEF Complete
    <3> QED
      BY <3>4, <3>5, <3>6, <3>7
  <2>11. op'.pc = "epoch" /\ r \in {"cppo", "cmappo"} => dir[r].latest # NoState
    BY <2>2, ChainNames
  <2>12. (PpoFits => PpoFits') /\ (MappoFits => MappoFits')
    BY <2>3 DEF PpoFits, MappoFits, ChainRuns
  <2>13. TrainerInv'
    <3>1. ~Complete(r, dir[r].latest) <=> ~Complete(r, dir'[r].latest)
      BY <2>3
    <3>2. op'.pc = "epoch" => ~Complete(r, op'.st)
      BY <2>2, <2>9, <2>10
    <3> QED
      BY <2>2, <2>3, <2>4, <2>11, <2>12, <3>2 DEF TrainerInv, ImportPcs, EpochPcs
  <2>14. EpochInv'
    BY <2>1, <2>3 DEF EpochInv
  <2>15. op.what # "cmappo"
    BY <2>1 DEF OpInv
  <2>16. OriginInv'
    BY <2>1, <2>2, <2>3, <2>4, <2>15 DEF OriginInv, ChainRuns
  <2>17. TrainsOnly(r)
    BY <2>2, <2>3, <2>4 DEF TrainsOnly, Settled, EvaluationPcs
  <2> QED
    BY <2>6, <2>8, <2>13, <2>14, <2>16, <2>17, TrainingStep
<1> QED
  BY <1>1, <1>2 DEF Begin

LEMMA RegisterHistory ==
    ASSUME NEW s, NEW can, NEW sources, NEW settled, Register(s, can, sources, settled)
    PROVE  history \subseteq history'
BY DEF Register

LEMMA TrainCommandStep ==
    ASSUME ChainInv,
           TrainV3PPO \/ TrainV3MAPPO \/ TrainW2PPO \/ ContinuePPO \/ ContinueMAPPO
    PROVE  ChainInv'
<1> USE DEF Elsewhere
<1>1. \A r \in {"v3ppo", "v3mappo", "w2ppo", "cppo", "cmappo"} : r \in ChainRuns
  BY DEF ChainRuns
<1>2. CASE TrainV3PPO
  <2>1. history \subseteq history'
    BY <1>2 DEF TrainV3PPO, V3Register
  <2> QED
    BY <1>1, <1>2, <2>1, BeginStep DEF TrainV3PPO
<1>3. CASE TrainV3MAPPO
  <2>1. history \subseteq history'
    BY <1>3 DEF TrainV3MAPPO, V3Register
  <2> QED
    BY <1>1, <1>3, <2>1, BeginStep DEF TrainV3MAPPO
<1>4. CASE TrainW2PPO
  <2>1. history \subseteq history'
    BY <1>4, RegisterHistory DEF TrainW2PPO, W2Register
  <2> QED
    BY <1>1, <1>4, <2>1, BeginStep DEF TrainW2PPO
<1>5. CASE ContinuePPO
  <2>1. history \subseteq history'
    BY <1>5, RegisterHistory DEF ContinuePPO, C7Register
  <2>2. C7Passes => PpoFits
    BY DEF C7Passes
  <2> QED
    BY <1>1, <1>5, <2>1, <2>2, BeginStep DEF ContinuePPO
<1>6. CASE ContinueMAPPO
  <2>1. history \subseteq history'
    BY <1>6, RegisterHistory DEF ContinueMAPPO, C7Register
  <2>2. (C7Passes /\ RunFinished("cppo")) => MappoFits
    BY DEF C7Passes
  <2> QED
    BY <1>1, <1>6, <2>1, <2>2, BeginStep DEF ContinueMAPPO
<1> QED
  BY <1>2, <1>3, <1>4, <1>5, <1>6

\* A score of an epoch is a natural number.
LEMMA ScoreType ==
    ASSUME NEW r \in ChainRuns, NEW epoch, NEW score \in TrainWeekReturns(r, epoch)
    PROVE  score \in Nat
BY LegacyCampaignAssumption DEF TrainWeekReturns

LEMMA SaveEpochStep ==
    ASSUME ChainInv, NEW r \in ChainRuns, NEW verdicts \in SUBSET BOOLEAN,
           NEW surrenders \in SUBSET BOOLEAN, SaveEpoch(r, verdicts, surrenders)
    PROVE  ChainInv'
<1> DEFINE epoch == op.st.epoch + 1
<1>1. PICK score \in TrainWeekReturns(r, epoch), c \in verdicts, s \in surrenders :
         LET st == [Scored(Trained(op.st), score) EXCEPT !.conv = c, !.stop = s]
         IN /\ dir' = [dir EXCEPT ![r].latest = st]
            /\ op' = [op EXCEPT !.pc = IF st.bestEpoch = epoch THEN "mark" ELSE "rows",
                                !.st = st]
  BY DEF SaveEpoch
<1> DEFINE st == [Scored(Trained(op.st), score) EXCEPT !.conv = c, !.stop = s]
<1>2. op.pc = "epoch" /\ op.what = r /\ UNCHANGED <<final, delivery, history>>
  BY DEF SaveEpoch
<1>3. ChainTypes /\ OpInv /\ TrainerInv /\ EpochInv /\ OriginInv
  BY DEF ChainInv
<1>4. op.st \in ChainStates /\ op.st = dir[r].latest /\ ~Complete(r, op.st)
  BY <1>2, <1>3 DEF ChainTypes, TrainerInv, EpochPcs
<1>5. st \in ChainStates /\ st.epoch = epoch /\ st.from = op.st.from
  <2>1. score \in Nat /\ c \in BOOLEAN /\ s \in BOOLEAN
    BY ScoreType
  <2>2. /\ Trained(op.st) \in ChainStates /\ Trained(op.st).epoch = epoch
        /\ Trained(op.st).from = op.st.from
    BY <1>4 DEF Trained, ChainStates
  <2>3. /\ Scored(Trained(op.st), score) \in ChainStates
        /\ Scored(Trained(op.st), score).epoch = epoch
        /\ Scored(Trained(op.st), score).from = op.st.from
    BY <2>1, <2>2 DEF Scored, ChainStates
  <2> QED
    BY <2>1, <2>3 DEF ChainStates
<1>6. dir' = [dir EXCEPT ![r].latest = st]
  BY <1>1
<1>7. op'.pc \in {"mark", "rows"} /\ op'.what = r /\ op'.st = st /\ op'.status = op.status
      /\ DOMAIN op' = DOMAIN op
  BY <1>1, <1>2, <1>3 DEF ChainTypes
<1> HIDE DEF st, epoch
<1>8. /\ dir' \in [ChainRuns -> RunFiles] /\ dir'[r].latest = st /\ dir'[r].best = dir[r].best
      /\ \A q \in ChainRuns : q # r => dir'[q] = dir[q]
  BY <1>3, <1>5, <1>6 DEF ChainTypes, RunFiles
<1>9. ChainTypes'
  BY <1>2, <1>3, <1>5, <1>7, <1>8 DEF ChainTypes, EpochPcs
<1>10. OpInv'
  BY <1>7, ChainNames DEF OpInv, ImportPcs, EpochPcs, EvaluationPcs
<1>11. st # NoState
  BY <1>4, <1>5, NoStateType DEF epoch, ChainStates
<1>12. TrainerInv'
  BY <1>7, <1>8, <1>11 DEF TrainerInv, ImportPcs, EpochPcs
<1>13. EpochInv'
  <2>1. st.epoch <= Cap(r)
    BY <1>4, <1>5, BeforeCap DEF epoch
  <2> QED
    BY <1>3, <1>8, <2>1 DEF EpochInv
<1>14. OriginInv'
  <2>1. r \in {"cppo", "cmappo"} => dir[r].latest # NoState
    BY <1>2, <1>3 DEF TrainerInv, EpochPcs
  <2>2. op.pc \notin {"importMark", "importLatest"} /\ op'.pc \notin {"importMark", "importLatest"}
    BY <1>2, <1>7
  <2>3. "cppo" \in ChainRuns /\ "cmappo" \in ChainRuns
    BY DEF ChainRuns
  <2>4. dir'["cppo"].latest # NoState => dir'["cppo"].latest.from = "latest"
    BY <1>3, <1>4, <1>5, <1>8, <2>1, <2>3 DEF OriginInv
  <2>5. "halfImport" \notin history' =>
           dir'["cmappo"].latest = NoState \/ dir'["cmappo"].latest.from = "latest"
    BY <1>2, <1>3, <1>4, <1>5, <1>8, <2>1, <2>2, <2>3 DEF OriginInv
  <2> QED
    BY <2>2, <2>4, <2>5 DEF OriginInv
<1>15. TrainsOnly(r)
  BY <1>2, <1>7, <1>8 DEF TrainsOnly, Settled, EvaluationPcs
<1> QED
  BY <1>9, <1>10, <1>12, <1>13, <1>14, <1>15, TrainingStep

LEMMA EpochStep ==
    ASSUME ChainInv,
           \/ V3PPOEpoch \/ V3MAPPOEpoch \/ W2PPOEpoch
           \/ ContinuationPPOEpoch \/ ContinuationMAPPOEpoch
    PROVE  ChainInv'
<1>1. \A r \in {"v3ppo", "v3mappo", "w2ppo", "cppo", "cmappo"} : r \in ChainRuns
  BY DEF ChainRuns
<1>2. /\ \A epoch : Converges(epoch) \in SUBSET BOOLEAN /\ W2Converges(epoch) \in SUBSET BOOLEAN
      /\ \A epoch : GivesUp(epoch) \in SUBSET BOOLEAN
      /\ {FALSE} \in SUBSET BOOLEAN
  BY DEF Converges, W2Converges, GivesUp
<1>3. CASE V3PPOEpoch
  BY <1>1, <1>2, <1>3, SaveEpochStep DEF V3PPOEpoch
<1>4. CASE V3MAPPOEpoch
  BY <1>1, <1>2, <1>4, SaveEpochStep DEF V3MAPPOEpoch
<1>5. CASE W2PPOEpoch
  BY <1>1, <1>2, <1>5, SaveEpochStep DEF W2PPOEpoch
<1>6. CASE ContinuationPPOEpoch
  BY <1>1, <1>2, <1>6, SaveEpochStep DEF ContinuationPPOEpoch
<1>7. CASE ContinuationMAPPOEpoch
  BY <1>1, <1>2, <1>7, SaveEpochStep DEF ContinuationMAPPOEpoch
<1> QED
  BY <1>3, <1>4, <1>5, <1>6, <1>7

LEMMA MarkRunStep ==
    ASSUME ChainInv, NEW r \in ChainRuns, MarkRunBest(r)
    PROVE  ChainInv'
<1>1. /\ op.pc = "mark" /\ op.what = r /\ UNCHANGED <<final, delivery, history>>
      /\ dir' = [dir EXCEPT ![r].best = op.st] /\ op' = [op EXCEPT !.pc = "rows"]
  BY DEF MarkRunBest
<1>2. ChainTypes /\ OpInv /\ TrainerInv /\ EpochInv /\ OriginInv
  BY DEF ChainInv
<1>3. op'.pc = "rows" /\ op'.what = r /\ op'.st = op.st /\ op'.status = op.status
      /\ DOMAIN op' = DOMAIN op
  BY <1>1, <1>2 DEF ChainTypes
<1>4. /\ dir' \in [ChainRuns -> RunFiles]
      /\ \A q \in ChainRuns : q # r => dir'[q] = dir[q]
      /\ \A q \in ChainRuns : dir'[q].latest = dir[q].latest
  BY <1>1, <1>2 DEF ChainTypes, RunFiles
<1>5. ChainTypes'
  BY <1>1, <1>2, <1>3, <1>4 DEF ChainTypes, EpochPcs
<1>6. OpInv'
  BY <1>3, ChainNames DEF OpInv, ImportPcs, EpochPcs, EvaluationPcs
<1>7. TrainerInv'
  BY <1>1, <1>2, <1>3, <1>4 DEF TrainerInv, ImportPcs, EpochPcs
<1>8. EpochInv'
  BY <1>2, <1>4 DEF EpochInv
<1>9. OriginInv'
  BY <1>1, <1>2, <1>3, <1>4 DEF OriginInv, ChainRuns
<1>10. TrainsOnly(r)
  BY <1>1, <1>3, <1>4 DEF TrainsOnly, Settled, EvaluationPcs
<1> QED
  BY <1>5, <1>6, <1>7, <1>8, <1>9, <1>10, TrainingStep

LEMMA WriteRowsStep ==
    ASSUME ChainInv, NEW r \in ChainRuns, WriteRows(r)
    PROVE  ChainInv'
<1>1. /\ op.pc = "rows" /\ op.what = r /\ UNCHANGED <<final, delivery, history>>
      /\ dir' = [dir EXCEPT ![r].rows = op.st.epoch]
      /\ op' = [op EXCEPT !.pc = IF Complete(r, op.st) THEN "finish" ELSE "epoch"]
  BY DEF WriteRows
<1>2. ChainTypes /\ OpInv /\ TrainerInv /\ EpochInv /\ OriginInv
  BY DEF ChainInv
<1>3. /\ op'.pc = IF Complete(r, op.st) THEN "finish" ELSE "epoch"
      /\ op'.what = r /\ op'.st = op.st /\ op'.status = op.status /\ DOMAIN op' = DOMAIN op
  BY <1>1, <1>2 DEF ChainTypes
<1>4. op'.pc \in {"finish", "epoch"} /\ (op'.pc = "epoch" => ~Complete(r, op.st))
  BY <1>3
<1>5. op.st.epoch \in Nat
  BY <1>2 DEF ChainTypes, ChainStates
<1>6. /\ dir' \in [ChainRuns -> RunFiles]
      /\ \A q \in ChainRuns : q # r => dir'[q] = dir[q]
      /\ \A q \in ChainRuns : dir'[q].latest = dir[q].latest
  BY <1>1, <1>2, <1>5 DEF ChainTypes, RunFiles
<1>7. ChainTypes'
  BY <1>1, <1>2, <1>3, <1>4, <1>6 DEF ChainTypes, EpochPcs
<1>8. OpInv'
  BY <1>3, <1>4, ChainNames DEF OpInv, ImportPcs, EpochPcs, EvaluationPcs
<1>9. TrainerInv'
  BY <1>1, <1>2, <1>3, <1>4, <1>6 DEF TrainerInv, ImportPcs, EpochPcs
<1>10. EpochInv'
  BY <1>2, <1>6 DEF EpochInv
<1>11. OriginInv'
  BY <1>1, <1>2, <1>3, <1>4, <1>6 DEF OriginInv, ChainRuns
<1>12. TrainsOnly(r)
  BY <1>1, <1>3, <1>4, <1>6 DEF TrainsOnly, Settled, EvaluationPcs
<1> QED
  BY <1>7, <1>8, <1>9, <1>10, <1>11, <1>12, TrainingStep

LEMMA CloseManifestStep ==
    ASSUME ChainInv, NEW r \in ChainRuns, CloseManifest(r)
    PROVE  ChainInv'
<1>1. /\ op.pc = "finish" /\ op.what = r /\ UNCHANGED <<final, delivery, history>>
      /\ dir' = [dir EXCEPT ![r].manifest =
                    [status |-> op.status, epoch |-> dir[r].latest.epoch,
                     conv |-> dir[r].latest.conv]]
      /\ op' = Idle
  BY DEF CloseManifest
<1>2. ChainTypes /\ OpInv /\ TrainerInv /\ EpochInv /\ OriginInv
  BY DEF ChainInv
<1>3. /\ op.status \in ChainStatuses /\ dir[r].latest.epoch \in Nat
      /\ dir[r].latest.conv \in BOOLEAN
  BY <1>2 DEF ChainTypes, RunFiles, ChainStates
<1>4. /\ dir' \in [ChainRuns -> RunFiles]
      /\ \A q \in ChainRuns : q # r => dir'[q] = dir[q]
      /\ \A q \in ChainRuns : dir'[q].latest = dir[q].latest
  BY <1>1, <1>2, <1>3 DEF ChainTypes, RunFiles
<1>5. ChainTypes'
  BY <1>1, <1>2, <1>4, IdleFacts, NoStateType DEF ChainTypes, ChainStatuses
<1>6. OpInv' /\ TrainerInv'
  BY <1>1, IdleFacts DEF OpInv, TrainerInv, ImportPcs, EpochPcs, EvaluationPcs
<1>7. EpochInv'
  BY <1>2, <1>4 DEF EpochInv
<1>8. OriginInv'
  BY <1>1, <1>2, <1>4, IdleFacts DEF OriginInv, ChainRuns
<1>9. TrainsOnly(r)
  BY <1>1, <1>4, IdleFacts DEF TrainsOnly, Settled, EvaluationPcs
<1> QED
  BY <1>5, <1>6, <1>7, <1>8, <1>9, TrainingStep

-----------------------------------------------------------------------------
(* The imports. *)

LEMMA ImportNames ==
    /\ {"cppo", "cmappo", "w2ppo", "v3mappo"} \subseteq ChainRuns
    /\ Cap("cppo") = Target /\ Cap("cmappo") = Target
    /\ \A st : Complete("cppo", st) => C7Complete(st)
    /\ \A st : Complete("cmappo", st) => C7Complete(st)
    /\ Parent \in Nat \ {0} /\ ParentBest \in Nat \ {0} /\ Target \in Nat
    /\ ParentBest < Parent /\ Parent < Target
<1>1. SuiteOf("cppo") = "c7" /\ SuiteOf("cmappo") = "c7"
  BY DEF SuiteOf
<1>2. ASSUME NEW st PROVE Complete("cppo", st) => C7Complete(st)
  <2>1. (SuiteOf("cppo") = "c7" => C7Complete(st)) => (Complete("cppo", st) => C7Complete(st))
    BY <1>1 DEF Complete
  <2> QED
    BY <1>1, <2>1 DEF Complete
<1>3. ASSUME NEW st PROVE Complete("cmappo", st) => C7Complete(st)
  BY <1>1 DEF Complete
<1>4. Cap("cppo") = Target /\ Cap("cmappo") = Target
  BY <1>1 DEF Cap
<1> QED
  BY <1>2, <1>3, <1>4, LegacyCampaignAssumption DEF ChainRuns

LEMMA SavePpoImportStep ==
    ASSUME ChainInv, SavePpoImport
    PROVE  ChainInv'
<1>1. /\ op.pc = "import" /\ op.what = "cppo" /\ UNCHANGED <<final, delivery, history>>
      /\ dir' = [dir EXCEPT !["cppo"].latest = PpoImport]
      /\ op' = [op EXCEPT !.pc = "importMark", !.st = PpoImport]
  BY DEF SavePpoImport
<1>2. ChainTypes /\ OpInv /\ TrainerInv /\ EpochInv /\ OriginInv
  BY DEF ChainInv
<1>3. PpoFits
  BY <1>1, <1>2 DEF TrainerInv, ImportPcs
<1>4. PpoImport \in ChainStates /\ PpoImport.from = "latest" /\ PpoImport.epoch = Parent
  <2>1. dir["w2ppo"].latest \in ChainStates /\ dir["w2ppo"].latest.epoch = Parent
    BY <1>2, <1>3, ImportNames DEF ChainTypes, RunFiles, PpoFits
  <2> QED
    BY <2>1 DEF PpoImport, ChainStates
<1>5. op'.pc = "importMark" /\ op'.what = "cppo" /\ op'.st = PpoImport
      /\ op'.status = op.status /\ DOMAIN op' = DOMAIN op
  BY <1>1, <1>2 DEF ChainTypes
<1>6. /\ dir' \in [ChainRuns -> RunFiles] /\ dir'["cppo"].latest = PpoImport
      /\ \A q \in ChainRuns : q # "cppo" => dir'[q] = dir[q]
  BY <1>1, <1>2, <1>4, ImportNames DEF ChainTypes, RunFiles
<1>7. ChainTypes'
  BY <1>1, <1>2, <1>4, <1>5, <1>6 DEF ChainTypes, ImportPcs
<1>8. OpInv'
  BY <1>5, ChainNames DEF OpInv, ImportPcs, EpochPcs, EvaluationPcs
<1>9. TrainerInv'
  BY <1>3, <1>5, <1>6, ImportNames DEF TrainerInv, ImportPcs, EpochPcs, PpoFits
<1>10. EpochInv'
  BY <1>2, <1>4, <1>6, ImportNames DEF EpochInv
<1>11. OriginInv'
  BY <1>1, <1>2, <1>4, <1>5, <1>6, ImportNames DEF OriginInv
<1>12. TrainsOnly("cppo")
  BY <1>1, <1>5, <1>6 DEF TrainsOnly, Settled, EvaluationPcs
<1> QED
  BY <1>7, <1>8, <1>9, <1>10, <1>11, <1>12, TrainingStep, ImportNames

LEMMA MarkPpoImportStep ==
    ASSUME ChainInv, MarkPpoImport
    PROVE  ChainInv'
<1>1. /\ op.pc = "importMark" /\ op.what = "cppo" /\ UNCHANGED <<final, delivery, history>>
      /\ dir' = [dir EXCEPT !["cppo"].best = op.st]
      /\ op' = [op EXCEPT !.pc = "epoch"]
  BY DEF MarkPpoImport
<1>2. ChainTypes /\ OpInv /\ TrainerInv /\ EpochInv /\ OriginInv
  BY DEF ChainInv
<1>3. op.st = dir["cppo"].latest /\ op.st.epoch = Parent
  BY <1>1, <1>2 DEF TrainerInv, OriginInv
<1>4. op'.pc = "epoch" /\ op'.what = "cppo" /\ op'.st = op.st
      /\ op'.status = op.status /\ DOMAIN op' = DOMAIN op
  BY <1>1, <1>2 DEF ChainTypes
<1>5. /\ dir' \in [ChainRuns -> RunFiles]
      /\ \A q \in ChainRuns : dir'[q].latest = dir[q].latest
      /\ \A q \in ChainRuns : q # "cppo" => dir'[q] = dir[q]
  BY <1>1, <1>2, ImportNames DEF ChainTypes, RunFiles
<1>6. ChainTypes'
  BY <1>1, <1>2, <1>4, <1>5 DEF ChainTypes, EpochPcs
<1>7. OpInv'
  BY <1>4, ImportNames DEF OpInv, ImportPcs, EpochPcs, EvaluationPcs
<1>8. ~Complete("cppo", op.st)
  BY <1>3, ImportNames DEF C7Complete
<1>9. TrainerInv'
  <2>1. op.st # NoState
    BY <1>3, ImportNames, NoStateType
  <2> QED
    BY <1>3, <1>4, <1>5, <1>8, <2>1, ImportNames DEF TrainerInv, ImportPcs, EpochPcs
<1>10. EpochInv'
  BY <1>2, <1>5 DEF EpochInv
<1>11. OriginInv'
  BY <1>1, <1>2, <1>4, <1>5, ImportNames DEF OriginInv
<1>12. TrainsOnly("cppo")
  BY <1>1, <1>4, <1>5 DEF TrainsOnly, Settled, EvaluationPcs
<1> QED
  BY <1>6, <1>7, <1>9, <1>10, <1>11, <1>12, TrainingStep, ImportNames

LEMMA SaveMappoBestStep ==
    ASSUME ChainInv, SaveMappoBest
    PROVE  ChainInv'
<1> DEFINE st == [dir["v3mappo"].best EXCEPT !.from = "best"]
<1>1. /\ op.pc = "import" /\ op.what = "cmappo" /\ UNCHANGED <<final, delivery, history>>
      /\ dir' = [dir EXCEPT !["cmappo"].latest = st]
      /\ op' = [op EXCEPT !.pc = "importMark"]
  BY DEF SaveMappoBest
<1>2. ChainTypes /\ OpInv /\ TrainerInv /\ EpochInv /\ OriginInv
  BY DEF ChainInv
<1>3. MappoFits
  BY <1>1, <1>2 DEF TrainerInv, ImportPcs
<1>4. st \in ChainStates /\ st.epoch = ParentBest
  <2>1. dir["v3mappo"].best \in ChainStates /\ dir["v3mappo"].best.epoch = ParentBest
    BY <1>2, <1>3, ImportNames DEF ChainTypes, RunFiles, MappoFits
  <2> QED
    BY <2>1 DEF ChainStates
<1> HIDE DEF st
<1>5. op'.pc = "importMark" /\ op'.what = "cmappo" /\ op'.st = op.st
      /\ op'.status = op.status /\ DOMAIN op' = DOMAIN op
  BY <1>1, <1>2 DEF ChainTypes
<1>6. /\ dir' \in [ChainRuns -> RunFiles] /\ dir'["cmappo"].latest = st
      /\ \A q \in ChainRuns : q # "cmappo" => dir'[q] = dir[q]
  BY <1>1, <1>2, <1>4, ImportNames DEF ChainTypes, RunFiles
<1>7. ChainTypes'
  BY <1>1, <1>2, <1>5, <1>6 DEF ChainTypes, ImportPcs
<1>8. OpInv'
  BY <1>5, ChainNames DEF OpInv, ImportPcs, EpochPcs, EvaluationPcs
<1>9. TrainerInv'
  BY <1>3, <1>5, <1>6, ImportNames DEF TrainerInv, ImportPcs, EpochPcs, MappoFits
<1>10. EpochInv'
  BY <1>2, <1>4, <1>6, ImportNames DEF EpochInv
<1>11. OriginInv'
  BY <1>1, <1>2, <1>4, <1>5, <1>6, ImportNames DEF OriginInv
<1>12. TrainsOnly("cmappo")
  BY <1>1, <1>5, <1>6 DEF TrainsOnly, Settled, EvaluationPcs
<1> QED
  BY <1>7, <1>8, <1>9, <1>10, <1>11, <1>12, TrainingStep, ImportNames

LEMMA MarkMappoImportStep ==
    ASSUME ChainInv, MarkMappoImport
    PROVE  ChainInv'
<1>1. /\ op.pc = "importMark" /\ op.what = "cmappo" /\ UNCHANGED <<final, delivery, history>>
      /\ dir' = [dir EXCEPT !["cmappo"].best = dir["cmappo"].latest]
      /\ op' = [op EXCEPT !.pc = "importLatest"]
  BY DEF MarkMappoImport
<1>2. ChainTypes /\ OpInv /\ TrainerInv /\ EpochInv /\ OriginInv
  BY DEF ChainInv
<1>3. MappoFits
  BY <1>1, <1>2 DEF TrainerInv, ImportPcs
<1>4. op'.pc = "importLatest" /\ op'.what = "cmappo" /\ op'.st = op.st
      /\ op'.status = op.status /\ DOMAIN op' = DOMAIN op
  BY <1>1, <1>2 DEF ChainTypes
<1>5. /\ dir' \in [ChainRuns -> RunFiles]
      /\ \A q \in ChainRuns : dir'[q].latest = dir[q].latest
      /\ \A q \in ChainRuns : q # "cmappo" => dir'[q] = dir[q]
  BY <1>1, <1>2, ImportNames DEF ChainTypes, RunFiles
<1>6. ChainTypes'
  BY <1>1, <1>2, <1>4, <1>5 DEF ChainTypes, ImportPcs
<1>7. OpInv'
  BY <1>4, ChainNames DEF OpInv, ImportPcs, EpochPcs, EvaluationPcs
<1>8. TrainerInv'
  BY <1>3, <1>4, <1>5, ImportNames DEF TrainerInv, ImportPcs, EpochPcs, MappoFits
<1>9. EpochInv'
  BY <1>2, <1>5 DEF EpochInv
<1>10. OriginInv'
  BY <1>1, <1>2, <1>4, <1>5, ImportNames DEF OriginInv
<1>11. TrainsOnly("cmappo")
  BY <1>1, <1>4, <1>5 DEF TrainsOnly, Settled, EvaluationPcs
<1> QED
  BY <1>6, <1>7, <1>8, <1>9, <1>10, <1>11, TrainingStep, ImportNames

LEMMA SaveMappoLatestStep ==
    ASSUME ChainInv, SaveMappoLatest
    PROVE  ChainInv'
<1> DEFINE imported == [dir["v3mappo"].latest EXCEPT !.from = "latest"]
<1>1. /\ op.pc = "importLatest" /\ UNCHANGED <<final, delivery, history>>
      /\ dir' = [dir EXCEPT !["cmappo"].latest = imported]
      /\ op' = [op EXCEPT !.pc = "epoch", !.st = imported]
  BY DEF SaveMappoLatest
<1>2. ChainTypes /\ OpInv /\ TrainerInv /\ EpochInv /\ OriginInv
  BY DEF ChainInv
<1>3. op.what = "cmappo" /\ MappoFits
  BY <1>1, <1>2 DEF TrainerInv, ImportPcs, OpInv
<1>4. imported \in ChainStates /\ imported.epoch = Parent /\ imported.from = "latest"
  <2>1. dir["v3mappo"].latest \in ChainStates /\ dir["v3mappo"].latest.epoch = Parent
    BY <1>2, <1>3, ImportNames DEF ChainTypes, RunFiles, MappoFits
  <2> QED
    BY <2>1 DEF ChainStates
<1> HIDE DEF imported
<1>5. op'.pc = "epoch" /\ op'.what = "cmappo" /\ op'.st = imported
      /\ op'.status = op.status /\ DOMAIN op' = DOMAIN op
  BY <1>1, <1>2, <1>3 DEF ChainTypes
<1>6. /\ dir' \in [ChainRuns -> RunFiles] /\ dir'["cmappo"].latest = imported
      /\ \A q \in ChainRuns : q # "cmappo" => dir'[q] = dir[q]
  BY <1>1, <1>2, <1>4, ImportNames DEF ChainTypes, RunFiles
<1>7. ChainTypes'
  BY <1>1, <1>2, <1>4, <1>5, <1>6 DEF ChainTypes, EpochPcs
<1>8. OpInv'
  BY <1>5, ImportNames DEF OpInv, ImportPcs, EpochPcs, EvaluationPcs
<1>9. ~Complete("cmappo", imported) /\ imported # NoState
  BY <1>4, ImportNames, NoStateType DEF C7Complete
<1>10. TrainerInv'
  BY <1>5, <1>6, <1>9 DEF TrainerInv, ImportPcs, EpochPcs
<1>11. EpochInv'
  BY <1>2, <1>4, <1>6, ImportNames DEF EpochInv
<1>12. OriginInv'
  BY <1>1, <1>2, <1>4, <1>5, <1>6, ImportNames DEF OriginInv
<1>13. TrainsOnly("cmappo")
  BY <1>1, <1>3, <1>5, <1>6 DEF TrainsOnly, Settled, EvaluationPcs
<1> QED
  BY <1>7, <1>8, <1>10, <1>11, <1>12, <1>13, TrainingStep, ImportNames

-----------------------------------------------------------------------------
(* Commands that end early. *)

LEMMA InterruptStep ==
    ASSUME ChainInv, InterruptCommand
    PROVE  ChainInv'
<1>1. /\ op.what \in ChainRuns /\ UNCHANGED <<dir, final, delivery>>
      /\ history' = history \cup Undone
  BY DEF InterruptCommand
<1>2. PICK status \in {"failed", "interrupted"} :
         op' = [op EXCEPT !.pc = "finish", !.status = status]
  BY DEF InterruptCommand
<1>3. ChainTypes /\ OpInv /\ TrainerInv /\ EpochInv /\ OriginInv
  BY DEF ChainInv
<1>4. op'.pc = "finish" /\ op'.what = op.what /\ op'.st = op.st /\ op'.status = status
      /\ DOMAIN op' = DOMAIN op
  BY <1>2, <1>3 DEF ChainTypes
<1>5. ChainTypes'
  BY <1>1, <1>3, <1>4 DEF ChainTypes, ChainStatuses
<1>6. OpInv' /\ TrainerInv'
  BY <1>1, <1>4 DEF OpInv, TrainerInv, ImportPcs, EpochPcs, EvaluationPcs
<1>7. EpochInv'
  BY <1>1, <1>3 DEF EpochInv
<1>8. OriginInv'
  BY <1>1, <1>3, <1>4 DEF OriginInv, Undone
<1>9. TrainsOnly(op.what)
  BY <1>1, <1>4 DEF TrainsOnly, Settled, EvaluationPcs
<1> QED
  BY <1>1, <1>5, <1>6, <1>7, <1>8, <1>9, TrainingStep

\* What remains to show of a step that leaves the checkpoints alone.
LEMMA EvaluationStep ==
    ASSUME ChainInv, dir' = dir, history \subseteq history', op.what \notin ChainRuns,
           op'.what \notin ChainRuns, op'.pc \in {"idle"} \cup EvaluationPcs
    PROVE  /\ TrainerInv' /\ EpochInv' /\ OriginInv'
           /\ \A r \in ChainRuns : Settled(r)' <=> RunFinished(r) /\ HasBest(r)
           /\ \A s \in Suites : \A r \in Methods(s) : Settled(r) => Settled(r)'
           /\ \A s \in Suites : Signature(s)' = Signature(s)
           /\ \A s \in Suites : \A metrics : Measured(s, metrics)' <=> Measured(s, metrics)
<1>1. ChainTypes /\ OpInv /\ EpochInv /\ OriginInv
  BY DEF ChainInv
<1>2. TrainerInv'
  BY DEF TrainerInv, EpochPcs, ImportPcs, EvaluationPcs
<1>3. EpochInv'
  BY <1>1 DEF EpochInv
<1>4. OriginInv'
  BY <1>1, ImportNames DEF OriginInv, EvaluationPcs
<1>5. \A r \in ChainRuns : Settled(r)' <=> RunFinished(r) /\ HasBest(r)
  BY DEF Settled, RunFinished, HasBest
<1>6. \A s \in Suites : \A r \in Methods(s) : Settled(r) => Settled(r)'
  BY <1>5, ChainNames DEF Settled
<1>7. \A s \in Suites : Signature(s)' = Signature(s)
  BY DEF Signature
<1>8. \A s \in Suites : \A metrics : Measured(s, metrics)' <=> Measured(s, metrics)
  BY DEF Measured
<1> QED
  BY <1>2, <1>3, <1>4, <1>5, <1>6, <1>7, <1>8

LEMMA IdleTypes ==
    ASSUME ChainTypes, op' = Idle, UNCHANGED <<dir, final, delivery>>
    PROVE  ChainTypes' /\ OpInv'
<1>1. ChainTypes'
  BY IdleFacts, NoStateType DEF ChainTypes, ChainStatuses
<1>2. OpInv'
  BY IdleFacts DEF OpInv, ImportPcs, EpochPcs, EvaluationPcs
<1> QED
  BY <1>1, <1>2

LEMMA KillStep ==
    ASSUME ChainInv, KillCommand
    PROVE  ChainInv'
<1>1. op' = Idle /\ UNCHANGED <<dir, final, delivery>> /\ history' = history \cup Undone
  BY DEF KillCommand
<1>2. ChainTypes /\ OpInv /\ TrainerInv /\ EpochInv /\ OriginInv
  BY DEF ChainInv
<1>3. ChainTypes' /\ OpInv'
  BY <1>1, <1>2, IdleTypes
<1>4. CASE op.what \in ChainRuns
  <2>1. TrainerInv' /\ EpochInv'
    BY <1>1, <1>2, IdleFacts DEF TrainerInv, EpochInv, ImportPcs, EpochPcs
  <2>2. OriginInv'
    BY <1>1, <1>2, IdleFacts DEF OriginInv, Undone
  <2>3. TrainsOnly(op.what)
    BY <1>1, IdleFacts DEF TrainsOnly, EvaluationPcs
  <2> QED
    BY <1>3, <1>4, <2>1, <2>2, <2>3, TrainingStep
<1>5. CASE op.what \notin ChainRuns
  <2>1. op'.what = "none" /\ op'.pc = "idle"
    BY <1>1, IdleFacts
  <2>2. /\ TrainerInv' /\ EpochInv' /\ OriginInv'
        /\ \A s \in Suites : \A r \in Methods(s) : Settled(r) => Settled(r)'
        /\ \A s \in Suites : Signature(s)' = Signature(s)
        /\ \A s \in Suites : \A metrics : Measured(s, metrics)' <=> Measured(s, metrics)
    BY <1>1, <1>5, <2>1, ChainNames, EvaluationStep
  <2>3. ASSUME NEW s \in Suites  PROVE SuiteInv(s)'
    <3>1. SuiteInv(s) /\ final' = final /\ op'.what # s
      BY <1>1, <2>1, ChainNames DEF ChainInv
    <3>2. /\ Measured(s, final[s].done)' <=> Measured(s, final[s].done)
          /\ Measured(s, final[s].report.metrics)' <=> Measured(s, final[s].report.metrics)
      BY <2>2, <3>1 DEF Measured
    <3> QED
      BY <2>2, <3>1, <3>2 DEF SuiteInv
  <2>4. "c7" \in Suites
    BY DEF Suites
  <2>5. DeliveryInv'
    BY <1>1, <2>1, <2>2, <2>4 DEF ChainInv, DeliveryInv
  <2> QED
    BY <1>3, <2>2, <2>3, <2>5 DEF ChainInv
<1> QED
  BY <1>4, <1>5

-----------------------------------------------------------------------------
(* Evaluations. *)

LEMMA OpenEvaluationStep ==
    ASSUME ChainInv, NEW s \in Suites, NEW force \in BOOLEAN, op.pc = "idle",
           OpenEvaluation(s, force), history \subseteq history',
           \A r \in Methods(s) : RunFinished(r) /\ HasBest(r)
    PROVE  ChainInv'
<1> DEFINE entry == final[s]
           fresh == force \/ (entry.report = NoModels /\ entry.sig = NoModels)
           start(pc) == [Idle EXCEPT !.pc = pc, !.what = s, !.sig = Signature(s)]
<1>1. /\ final' = IF fresh THEN [final EXCEPT ![s].sig = Signature(s), ![s].done = {},
                                              ![s].ended = FALSE]
                  ELSE final
      /\ op' = CASE fresh -> start("methods")
                 [] ~fresh /\ entry.report # NoModels
                       -> IF s = "c7" /\ entry.report.sig = Signature(s)
                             THEN start("copy") ELSE op
                 [] OTHER -> IF entry.sig = Signature(s) THEN start("methods") ELSE op
      /\ UNCHANGED <<dir, delivery>>
  BY DEF OpenEvaluation
<1>2. ChainTypes /\ OpInv /\ SuiteInv(s) /\ DeliveryInv
  BY DEF ChainInv
<1>3. op.what = "none"
  BY <1>2 DEF OpInv
<1>4. \A pc : /\ start(pc).pc = pc /\ start(pc).what = s /\ start(pc).sig = Signature(s)
              /\ DOMAIN start(pc) = {"pc", "what", "st", "newBest", "status", "sig"}
              /\ start(pc).st = NoState /\ start(pc).status = "complete"
  BY DEF Idle
<1>5. \/ op' = start("methods") /\ (fresh \/ (entry.sig = Signature(s) /\ final' = final))
      \/ op' = start("copy") /\ s = "c7" /\ entry.report # NoModels /\ ~fresh
      \/ op' = op /\ ~fresh
  BY <1>1
<1>6. final' = IF fresh THEN [final EXCEPT ![s].sig = Signature(s), ![s].done = {},
                                          ![s].ended = FALSE]
               ELSE final
  BY <1>1
<1>7. /\ fresh => /\ final'[s].sig = Signature(s) /\ final'[s].done = {}
                  /\ final'[s].report = final[s].report
      /\ ~fresh => final' = final
      /\ DOMAIN final' = DOMAIN final
      /\ \A t \in Suites : t # s => final'[t] = final[t]
      /\ \A t \in Suites : DOMAIN final'[t] = DOMAIN final[t]
  BY <1>2, <1>6 DEF ChainTypes
<1> HIDE DEF start, fresh, entry
<1>8. op'.pc \in {"idle", "methods", "copy"} /\ op'.what \in {"none", s}
  BY <1>3, <1>4, <1>5
<1>9. op'.what \notin ChainRuns /\ op.what \notin ChainRuns
  BY <1>3, <1>8, ChainNames
<1>10. /\ TrainerInv' /\ EpochInv' /\ OriginInv'
       /\ \A r \in ChainRuns : Settled(r)' <=> RunFinished(r) /\ HasBest(r)
       /\ \A t \in Suites : \A r \in Methods(t) : Settled(r) => Settled(r)'
       /\ \A t \in Suites : Signature(t)' = Signature(t)
       /\ \A t \in Suites : \A metrics : Measured(t, metrics)' <=> Measured(t, metrics)
  BY <1>1, <1>8, <1>9, EvaluationStep DEF EvaluationPcs
<1>11. ChainTypes'
  <2>1. DOMAIN op' = {"pc", "what", "st", "newBest", "status", "sig"}
        /\ op'.st \in ChainStates /\ op'.status \in ChainStatuses
    BY <1>2, <1>4, <1>5, NoStateType DEF ChainTypes, ChainStatuses
  <2> QED
    BY <1>1, <1>2, <1>7, <1>8, <2>1 DEF ChainTypes, EvaluationPcs
<1>12. OpInv'
  BY <1>2, <1>4, <1>5, <1>8 DEF OpInv, ImportPcs, EpochPcs, EvaluationPcs
<1>13. \A r \in Methods(s) : Settled(r)'
  BY <1>10, ChainNames
<1>14. ASSUME NEW t \in Suites, t # s  PROVE SuiteInv(t)'
  <2>1. SuiteInv(t) /\ final'[t] = final[t] /\ op'.what # t
    BY <1>7, <1>8, <1>14, ChainNames DEF ChainInv
  <2>2. /\ Measured(t, final[t].done)' <=> Measured(t, final[t].done)
        /\ Measured(t, final[t].report.metrics)' <=> Measured(t, final[t].report.metrics)
    BY <1>1, <2>1 DEF Measured
  <2> QED
    BY <1>10, <2>1, <2>2 DEF SuiteInv
<1>15. SuiteInv(s)'
  <2>1. Signature(s) # NoModels /\ Signature(s)' = Signature(s)
    BY <1>10, SignatureIsSome
  <2>2. final'[s].report = final[s].report /\ (fresh \/ final'[s] = final[s])
    BY <1>7
  <2>3. Measured(s, final[s].report.metrics)' <=> Measured(s, final[s].report.metrics)
    BY <1>1, <2>2 DEF Measured
  <2>4. final[s].report # NoModels =>
           final'[s].report.sig = Signature(s)' /\ Measured(s, final[s].report.metrics)'
    BY <1>2, <2>1, <2>2, <2>3 DEF SuiteInv
  <2>5. CASE fresh
    <3>1. Measured(s, final[s].done)'
      BY <1>7, <2>5 DEF Measured
    <3>2. op' = start("methods")
      BY <1>5, <2>5
    <3>3. op'.pc = "methods" /\ op'.what = s /\ op'.sig = Signature(s)
      BY <1>4, <3>2
    <3> QED
      BY <1>7, <1>13, <2>1, <2>4, <2>5, <3>1, <3>3 DEF SuiteInv
  <2>6. CASE ~fresh
    <3>1. final' = final
      BY <1>7, <2>6
    <3>2. final[s].sig # NoModels
      BY <1>2, <2>6 DEF fresh, entry, SuiteInv
    <3>3. Measured(s, final[s].done)'
      BY <1>1, <1>2, <3>1, <3>2 DEF SuiteInv, Measured
    <3>4. op'.pc = "methods" => op'.sig = Signature(s)
      BY <1>4, <1>5, <1>3
    <3>5. op'.pc \in EvaluationPcs \ {"methods"} => op'.pc = "copy" /\ final[s].report # NoModels
      BY <1>4, <1>5 DEF entry, EvaluationPcs
    <3>6. op'.pc # "progress"
      BY <1>8
    <3>7. final[s].sig = Signature(s)
      BY <1>2, <3>2 DEF SuiteInv
    <3> QED
      BY <1>2, <1>13, <2>1, <2>4, <3>1, <3>2, <3>3, <3>4, <3>5, <3>6, <3>7 DEF SuiteInv
  <2> QED
    BY <2>5, <2>6
<1>16. DeliveryInv'
  <2>1. "c7" \in Suites /\ op'.pc # "sign" /\ final'["c7"].report = final["c7"].report
    BY <1>7, <1>8 DEF Suites
  <2> QED
    BY <1>1, <1>2, <1>10, <2>1 DEF DeliveryInv
<1> QED
  BY <1>10, <1>11, <1>12, <1>14, <1>15, <1>16 DEF ChainInv

LEMMA EvaluateStep ==
    ASSUME ChainInv, NEW force \in BOOLEAN,
           EvaluateV3(force) \/ EvaluateW2(force) \/ EvaluateExtension(force)
    PROVE  ChainInv'
<1> USE DEF Suites
<1>1. ChainTypes /\ OpInv
  BY DEF ChainInv
<1>2. CASE EvaluateV3(force)
  <2>1. history \subseteq history'
    BY <1>2 DEF EvaluateV3, V3Register
  <2>2. Methods("v3") = Own("v3")
    BY DEF Methods, Own, SuiteOf
  <2>3. \A r \in Methods("v3") : RunFinished(r) /\ HasBest(r)
    BY <1>2, <2>2 DEF EvaluateV3, BothFinished
  <2> QED
    BY <1>2, <2>1, <2>3, OpenEvaluationStep DEF EvaluateV3
<1>3. CASE EvaluateW2(force)
  <2>1. history \subseteq history'
    BY <1>3, RegisterHistory DEF EvaluateW2, W2Register
  <2>2. Methods("w2") = Own("w2") \cup Methods("v3")
    BY DEF Methods, Own, SuiteOf
  <2>3. \A r \in Methods("v3") : RunFinished(r) /\ HasBest(r)
    <3>1. final["v3"].report # NoModels
      BY <1>3 DEF EvaluateW2, W2Passes, Diagnosed
    <3>2. SuiteInv("v3")
      BY DEF ChainInv
    <3> QED
      BY <3>1, <3>2 DEF SuiteInv, Settled
  <2>4. \A r \in Own("w2") : RunFinished(r) /\ HasBest(r)
    BY <1>3 DEF EvaluateW2, BothFinished
  <2> QED
    BY <1>3, <2>1, <2>2, <2>3, <2>4, OpenEvaluationStep DEF EvaluateW2
<1>4. CASE EvaluateExtension(force)
  <2>1. history \subseteq history'
    BY <1>4, RegisterHistory DEF EvaluateExtension, C7Register
  <2>2. Methods("c7") = Own("c7") \cup {"w2ppo", "v3mappo"}
    BY DEF Methods, Own, SuiteOf
  <2>3. \A r \in {"w2ppo", "v3mappo"} : RunFinished(r) /\ HasBest(r)
    BY <1>1, <1>4, ParentsSettled DEF EvaluateExtension, C7Passes
  <2>4. \A r \in Own("c7") : RunFinished(r) /\ HasBest(r)
    BY <1>4 DEF EvaluateExtension, BothFinished
  <2> QED
    BY <1>4, <2>1, <2>2, <2>3, <2>4, OpenEvaluationStep DEF EvaluateExtension
<1> QED
  BY <1>2, <1>3, <1>4

LEMMA RunMethodStep ==
    ASSUME ChainInv, NEW s \in Suites, NEW r \in Methods(s), RunMethod(s, r)
    PROVE  ChainInv'
<1>1. /\ op.pc = "methods" /\ op.what = s /\ UNCHANGED <<dir, delivery, op, history>>
      /\ final' = [final EXCEPT ![s].done = @ \cup {[policy |-> r, model |-> dir[r].best]}]
  BY DEF RunMethod
<1>2. ChainTypes /\ OpInv /\ DeliveryInv
  BY DEF ChainInv
<1>3. /\ final'[s].sig = final[s].sig /\ final'[s].report = final[s].report
      /\ final'[s].done = final[s].done \cup {[policy |-> r, model |-> dir[r].best]}
      /\ \A t \in Suites : t # s => final'[t] = final[t]
      /\ \A t \in Suites : DOMAIN final'[t] = DOMAIN final[t]
      /\ DOMAIN final' = DOMAIN final
  BY <1>1, <1>2 DEF ChainTypes
<1>4. op.what \notin ChainRuns /\ op'.what \notin ChainRuns /\ op' = op /\ history' = history
  BY <1>1, ChainNames
<1>5. /\ TrainerInv' /\ EpochInv' /\ OriginInv'
      /\ \A t \in Suites : \A q \in Methods(t) : Settled(q) => Settled(q)'
      /\ \A t \in Suites : Signature(t)' = Signature(t)
      /\ \A t \in Suites : \A metrics : Measured(t, metrics)' <=> Measured(t, metrics)
  BY <1>1, <1>4, EvaluationStep DEF EvaluationPcs
<1>6. ChainTypes' /\ OpInv'
  BY <1>1, <1>2, <1>3 DEF ChainTypes, OpInv
<1>7. ASSUME NEW t \in Suites  PROVE SuiteInv(t)'
  <2>1. SuiteInv(t) /\ final'[t].sig = final[t].sig /\ final'[t].report = final[t].report
    BY <1>3 DEF ChainInv
  <2>2. Measured(t, final[t].report.metrics)' <=> Measured(t, final[t].report.metrics)
    BY <1>1, <2>1 DEF Measured
  <2>3. Measured(t, final[t].done) => Measured(t, final[t].done)'
    BY <1>1, <1>3 DEF Measured
  <2> QED
    BY <1>4, <1>5, <2>1, <2>2, <2>3 DEF SuiteInv
<1>8. DeliveryInv'
  <2>1. "c7" \in Suites /\ final'["c7"].report = final["c7"].report
    BY <1>3 DEF Suites
  <2> QED
    BY <1>1, <1>2, <1>5, <2>1 DEF DeliveryInv
<1> QED
  BY <1>5, <1>6, <1>7, <1>8 DEF ChainInv

LEMMA PublishStep ==
    ASSUME ChainInv, NEW s \in Suites, Publish(s)
    PROVE  ChainInv'
<1> DEFINE new == [sig |-> op.sig, metrics |-> final[s].done]
<1>1. /\ op.pc = "methods" /\ op.what = s /\ UNCHANGED <<dir, delivery, history>>
      /\ final' = [final EXCEPT ![s].report = new]
      /\ op' = [op EXCEPT !.pc = "progress"]
  BY DEF Publish
<1>2. ChainTypes /\ OpInv /\ DeliveryInv /\ SuiteInv(s)
  BY DEF ChainInv
<1>3. /\ final'[s].sig = final[s].sig /\ final'[s].done = final[s].done
      /\ final'[s].report = new
      /\ \A t \in Suites : t # s => final'[t] = final[t]
      /\ \A t \in Suites : DOMAIN final'[t] = DOMAIN final[t]
      /\ DOMAIN final' = DOMAIN final
  BY <1>1, <1>2 DEF ChainTypes
<1>4. op'.pc = "progress" /\ op'.what = s /\ op'.sig = op.sig /\ op'.st = op.st
      /\ op'.status = op.status /\ DOMAIN op' = DOMAIN op
  BY <1>1, <1>2 DEF ChainTypes
<1>5. op.what \notin ChainRuns /\ op'.what \notin ChainRuns
  BY <1>1, <1>4, ChainNames
<1>6. /\ TrainerInv' /\ EpochInv' /\ OriginInv'
      /\ \A t \in Suites : \A q \in Methods(t) : Settled(q) => Settled(q)'
      /\ \A t \in Suites : Signature(t)' = Signature(t)
      /\ \A t \in Suites : \A metrics : Measured(t, metrics)' <=> Measured(t, metrics)
  BY <1>1, <1>4, <1>5, EvaluationStep DEF EvaluationPcs
<1>7. ChainTypes' /\ OpInv'
  <2>1. ChainTypes'
    BY <1>1, <1>2, <1>3, <1>4 DEF ChainTypes, EvaluationPcs
  <2>2. OpInv'
    BY <1>4, <1>5 DEF OpInv, ImportPcs, EpochPcs, EvaluationPcs
  <2> QED
    BY <2>1, <2>2
<1>8. final[s].sig # NoModels /\ final[s].sig = Signature(s) /\ op.sig = Signature(s)
      /\ Measured(s, final[s].done)
  BY <1>1, <1>2 DEF SuiteInv
<1>9. new # NoModels /\ new.sig = Signature(s) /\ new.metrics = final[s].done
  BY <1>8, ReportIsSome
<1> HIDE DEF new
<1>10. ASSUME NEW t \in Suites, t # s  PROVE SuiteInv(t)'
  <2>1. SuiteInv(t) /\ final'[t] = final[t] /\ op'.what # t /\ op.what # t
    BY <1>1, <1>3, <1>4, <1>10 DEF ChainInv
  <2>2. /\ Measured(t, final[t].done)' <=> Measured(t, final[t].done)
        /\ Measured(t, final[t].report.metrics)' <=> Measured(t, final[t].report.metrics)
    BY <1>1, <2>1 DEF Measured
  <2> QED
    BY <1>6, <2>1, <2>2 DEF SuiteInv
<1>11. SuiteInv(s)'
  <2>1. Measured(s, final[s].done)'
    BY <1>1, <1>3, <1>8 DEF Measured
  <2>2. Measured(s, final[s].report.metrics)'
    BY <1>1, <1>3, <1>8, <1>9 DEF Measured
  <2>3. \A q \in Methods(s) : Settled(q)'
    BY <1>2, <1>6, <1>8 DEF SuiteInv
  <2> QED
    BY <1>3, <1>4, <1>6, <1>8, <1>9, <2>1, <2>2, <2>3 DEF SuiteInv
<1>12. DeliveryInv'
  <2>1. final["c7"].report # NoModels => final'["c7"].report # NoModels
    BY <1>3, <1>9 DEF Suites
  <2> QED
    BY <1>1, <1>2, <1>4, <1>6, <2>1 DEF DeliveryInv, Suites
<1> QED
  BY <1>6, <1>7, <1>10, <1>11, <1>12 DEF ChainInv

LEMMA CloseProgressStep ==
    ASSUME ChainInv, NEW s \in Suites, CloseProgress(s)
    PROVE  ChainInv'
<1>1. /\ op.pc = "progress" /\ op.what = s /\ UNCHANGED <<dir, delivery, history>>
      /\ final' = [final EXCEPT ![s].ended = TRUE]
      /\ op' = IF s = "c7" THEN [op EXCEPT !.pc = "copy"] ELSE Idle
  BY DEF CloseProgress
<1>2. ChainTypes /\ OpInv /\ DeliveryInv
  BY DEF ChainInv
<1>3. /\ \A t \in Suites : /\ final'[t].sig = final[t].sig /\ final'[t].done = final[t].done
                           /\ final'[t].report = final[t].report
                           /\ DOMAIN final'[t] = DOMAIN final[t]
      /\ DOMAIN final' = DOMAIN final
  BY <1>1, <1>2 DEF ChainTypes
<1>4. \/ /\ op'.pc = "copy" /\ op'.what = s /\ s = "c7" /\ op'.st = op.st
         /\ op'.status = op.status /\ DOMAIN op' = DOMAIN op
      \/ op' = Idle
  BY <1>1, <1>2 DEF ChainTypes
<1>5. op.what \notin ChainRuns /\ op'.what \notin ChainRuns /\ op'.pc \in {"idle", "copy"}
      /\ op'.what \in {s, "none"}
  BY <1>1, <1>4, ChainNames, IdleFacts
<1>6. /\ TrainerInv' /\ EpochInv' /\ OriginInv'
      /\ \A t \in Suites : \A q \in Methods(t) : Settled(q) => Settled(q)'
      /\ \A t \in Suites : Signature(t)' = Signature(t)
  BY <1>1, <1>5, EvaluationStep DEF EvaluationPcs
<1>7. ChainTypes' /\ OpInv'
  <2>1. ChainTypes'
    BY <1>1, <1>2, <1>3, <1>4, IdleFacts, NoStateType DEF ChainTypes, EvaluationPcs, ChainStatuses
  <2>2. OpInv'
    BY <1>4, IdleFacts DEF OpInv, ImportPcs, EpochPcs, EvaluationPcs, Suites
  <2> QED
    BY <2>1, <2>2
<1>8. ASSUME NEW t \in Suites  PROVE SuiteInv(t)'
  <2>1. SuiteInv(t) /\ SuiteInv(s) /\ final'[t].sig = final[t].sig
        /\ final'[t].report = final[t].report /\ final'[t].done = final[t].done
    BY <1>3 DEF ChainInv
  <2>2. /\ Measured(t, final[t].done)' <=> Measured(t, final[t].done)
        /\ Measured(t, final[t].report.metrics)' <=> Measured(t, final[t].report.metrics)
    BY <1>1, <2>1 DEF Measured
  <2>3. op'.what = t => t = s
    BY <1>5, ChainNames
  <2>4. final[s].sig # NoModels /\ final[s].report # NoModels
    BY <1>1, <2>1 DEF SuiteInv, EvaluationPcs
  <2>5. op'.pc \notin {"methods", "progress"}
    BY <1>5
  <2> QED
    BY <1>6, <2>1, <2>2, <2>3, <2>4, <2>5 DEF SuiteInv
<1>9. DeliveryInv'
  <2>1. "c7" \in Suites
    BY DEF Suites
  <2> QED
    BY <1>1, <1>2, <1>3, <1>5, <1>6, <2>1 DEF DeliveryInv
<1> QED
  BY <1>6, <1>7, <1>8, <1>9 DEF ChainInv

LEMMA DeliveryStep ==
    ASSUME ChainInv, CopyDelivery \/ SignDelivery
    PROVE  ChainInv'
<1>1. op.pc \in {"copy", "sign"} /\ UNCHANGED <<dir, final, history>>
  BY DEF CopyDelivery, SignDelivery
<1>2. ChainTypes /\ OpInv /\ DeliveryInv
  BY DEF ChainInv
<1>3. op.what = "c7" /\ "c7" \in Suites
  BY <1>1, <1>2 DEF OpInv, Suites
<1>4. \/ /\ op.pc = "copy" /\ op' = [op EXCEPT !.pc = "sign"]
         /\ delivery' = [delivery EXCEPT !.copied = Signature("c7")]
      \/ op' = Idle /\ delivery' = delivery
      \/ /\ op.pc = "sign" /\ op' = Idle
         /\ delivery' = [delivery EXCEPT !.signed = final["c7"].report.sig]
  BY DEF CopyDelivery, SignDelivery
<1>5. \/ /\ op'.pc = "sign" /\ op'.what = "c7" /\ op'.st = op.st
         /\ op'.status = op.status /\ DOMAIN op' = DOMAIN op
      \/ op' = Idle
  BY <1>2, <1>3, <1>4 DEF ChainTypes
<1>6. op.what \notin ChainRuns /\ op'.what \notin ChainRuns /\ op'.pc \in {"idle", "sign"}
      /\ op'.what \in {"c7", "none"}
  BY <1>3, <1>5, ChainNames, IdleFacts
<1>7. /\ TrainerInv' /\ EpochInv' /\ OriginInv'
      /\ \A t \in Suites : \A q \in Methods(t) : Settled(q) => Settled(q)'
      /\ \A t \in Suites : Signature(t)' = Signature(t)
  BY <1>1, <1>6, EvaluationStep DEF EvaluationPcs
<1>8. ChainTypes' /\ OpInv'
  <2>1. DOMAIN delivery' = DOMAIN delivery
    BY <1>4
  <2>2. ChainTypes'
    BY <1>1, <1>2, <1>5, <2>1, IdleFacts, NoStateType
    DEF ChainTypes, EvaluationPcs, ChainStatuses
  <2>3. OpInv'
    BY <1>5, IdleFacts DEF OpInv, ImportPcs, EpochPcs, EvaluationPcs, Suites
  <2> QED
    BY <2>2, <2>3
<1>9. ASSUME NEW t \in Suites  PROVE SuiteInv(t)'
  <2>1. SuiteInv(t) /\ SuiteInv("c7") /\ final' = final
    BY <1>1, <1>3 DEF ChainInv
  <2>2. /\ Measured(t, final[t].done)' <=> Measured(t, final[t].done)
        /\ Measured(t, final[t].report.metrics)' <=> Measured(t, final[t].report.metrics)
    BY <1>1, <2>1 DEF Measured
  <2>3. op'.what = t => t = "c7"
    BY <1>6, ChainNames
  <2>4. final["c7"].sig # NoModels /\ final["c7"].report # NoModels
    BY <1>1, <1>3, <2>1 DEF SuiteInv, EvaluationPcs
  <2>5. op'.pc \notin {"methods", "progress"}
    BY <1>6
  <2> QED
    BY <1>7, <2>1, <2>2, <2>3, <2>4, <2>5 DEF SuiteInv
<1>10. DeliveryInv'
  <2>1. SuiteInv("c7")
    BY <1>3 DEF ChainInv
  <2>2. final["c7"].report # NoModels /\ final["c7"].report.sig = Signature("c7")
    BY <1>1, <1>3, <2>1 DEF SuiteInv, EvaluationPcs
  <2>3. Signature("c7")' = Signature("c7") /\ final' = final
    BY <1>1, <1>3, <1>7
  <2>4. \/ delivery'.copied = Signature("c7") /\ delivery'.signed = delivery.signed
        \/ op' = Idle /\ delivery' = delivery
        \/ /\ op' = Idle /\ delivery'.copied = delivery.copied
           /\ delivery.copied = Signature("c7") /\ delivery'.signed = Signature("c7")
    BY <1>2, <1>4, <2>2 DEF ChainTypes, DeliveryInv
  <2> QED
    BY <1>2, <2>2, <2>3, <2>4, IdleFacts DEF DeliveryInv
<1> QED
  BY <1>7, <1>8, <1>9, <1>10 DEF ChainInv

-----------------------------------------------------------------------------
(* The chain.                                                               *)

LEMMA ChainInitInv == ChainInit => ChainInv
<1> SUFFICES ASSUME ChainInit
             PROVE  ChainInv
  OBVIOUS
<1>1. /\ op = Idle /\ history = {} /\ delivery.signed = NoModels
      /\ \A s \in Suites : final[s].sig = NoModels /\ final[s].report = NoModels
      /\ \A r \in ChainRuns : dir[r].latest = NoState
  BY DEF ChainInit, NoRunFiles
<1>2. NoRunFiles \in RunFiles
  BY NoStateType DEF NoRunFiles, RunFiles, ChainStatuses
<1>3. ChainTypes
  BY <1>1, <1>2, IdleFacts, NoStateType DEF ChainInit, ChainTypes, ChainStatuses
<1>4. OpInv /\ TrainerInv
  BY <1>1, IdleFacts DEF OpInv, TrainerInv, ImportPcs, EpochPcs, EvaluationPcs
<1>5. EpochInv
  <2>1. \A r \in ChainRuns : 0 <= Cap(r)
    BY LegacyCampaignAssumption DEF Cap
  <2>2. ASSUME NEW r \in ChainRuns  PROVE dir[r].latest.epoch <= Cap(r)
    <3>1. dir[r].latest.epoch = 0
      BY <1>1, NoStateType
    <3> QED
      BY <2>1, <3>1
  <2> QED
    BY <2>2 DEF EpochInv
<1>6. OriginInv
  <2>1. dir["cppo"].latest = NoState /\ dir["cmappo"].latest = NoState
    BY <1>1, ImportNames
  <2>2. op.pc # "importMark"
    BY <1>1, IdleFacts
  <2> QED
    BY <2>1, <2>2 DEF OriginInv
<1>7. \A s \in Suites : SuiteInv(s)
  BY <1>1, IdleFacts, ChainNames DEF SuiteInv, EvaluationPcs
<1>8. DeliveryInv
  BY <1>1, IdleFacts DEF DeliveryInv
<1> QED
  BY <1>3, <1>4, <1>5, <1>6, <1>7, <1>8 DEF ChainInv

LEMMA ChainNextInv == ChainInv /\ [ChainNext]_chainVars => ChainInv'
<1> SUFFICES ASSUME ChainInv, [ChainNext]_chainVars
             PROVE  ChainInv'
  OBVIOUS
<1>1. CASE TrainV3PPO \/ TrainV3MAPPO \/ TrainW2PPO \/ ContinuePPO \/ ContinueMAPPO
  BY <1>1, TrainCommandStep
<1>2. CASE \/ V3PPOEpoch \/ V3MAPPOEpoch \/ W2PPOEpoch
           \/ ContinuationPPOEpoch \/ ContinuationMAPPOEpoch
  BY <1>2, EpochStep
<1>3. CASE \E r \in ChainRuns : MarkRunBest(r) \/ WriteRows(r) \/ CloseManifest(r)
  BY <1>3, MarkRunStep, WriteRowsStep, CloseManifestStep
<1>4. CASE AuditMappoBest
  <2>1. history \subseteq history'
    BY <1>4, RegisterHistory DEF AuditMappoBest, C7Register
  <2> QED
    BY <1>4, <2>1, ChainStutters DEF AuditMappoBest
<1>5. CASE SavePpoImport \/ MarkPpoImport
  BY <1>5, SavePpoImportStep, MarkPpoImportStep
<1>6. CASE SaveMappoBest \/ MarkMappoImport \/ SaveMappoLatest
  BY <1>6, SaveMappoBestStep, MarkMappoImportStep, SaveMappoLatestStep
<1>7. CASE \E force \in BOOLEAN : EvaluateV3(force) \/ EvaluateW2(force) \/ EvaluateExtension(force)
  BY <1>7, EvaluateStep
<1>8. CASE V3Method \/ W2Method \/ C7Method
  <2>1. \A s \in {"v3", "w2", "c7"} : s \in Suites
    BY DEF Suites
  <2> QED
    BY <1>8, <2>1, RunMethodStep DEF V3Method, W2Method, C7Method
<1>9. CASE V3Report \/ W2Report \/ C7Report
  <2>1. \A s \in {"v3", "w2", "c7"} : s \in Suites
    BY DEF Suites
  <2> QED
    BY <1>9, <2>1, PublishStep DEF V3Report, W2Report, C7Report
<1>10. CASE \E s \in Suites : CloseProgress(s)
  BY <1>10, CloseProgressStep
<1>11. CASE CopyDelivery \/ SignDelivery
  BY <1>11, DeliveryStep
<1>12. CASE KillCommand \/ InterruptCommand
  BY <1>12, KillStep, InterruptStep
<1>13. CASE UNCHANGED chainVars
  BY <1>13, ChainStutters DEF chainVars
<1> QED
  BY <1>1, <1>2, <1>3, <1>4, <1>5, <1>6, <1>7, <1>8, <1>9, <1>10, <1>11, <1>12, <1>13
  DEF ChainNext

\* The invariant of the chain holds for any scores, caps and intervals and any number of
\* stopped commands and forced evaluations.
THEOREM ChainInvariance == ChainSpec => []ChainInv
  BY ChainInitInv, ChainNextInv, PTL DEF ChainSpec

LEMMA ChainReports == ChainInv => ReportsCurrent
<1> SUFFICES ASSUME ChainInv
             PROVE  ReportsCurrent
  OBVIOUS
<1>1. ChainTypes /\ EpochInv /\ DeliveryInv /\ \A s \in Suites : SuiteInv(s)
  BY DEF ChainInv
<1>2. \A s \in Suites : final[s].report # NoModels =>
          /\ final[s].report.sig = Signature(s)
          /\ \A m \in final[s].report.metrics : m.model = dir[m.policy].best
  BY <1>1 DEF SuiteInv, Measured
<1>3. ASSUME delivery.signed # NoModels
      PROVE  /\ delivery.copied = delivery.signed
             /\ delivery.signed = final["c7"].report.sig
             /\ \A r \in {"cppo", "cmappo"} : dir[r].latest.epoch = Target
  <2>1. "c7" \in Suites
    BY DEF Suites
  <2>2. final["c7"].report # NoModels
    BY <1>1, <1>3 DEF DeliveryInv
  <2>3. \A r \in Methods("c7") : Settled(r)
    BY <1>1, <2>1, <2>2 DEF SuiteInv
  <2>4. \A r \in {"cppo", "cmappo"} : RunFinished(r)
    BY <2>1, <2>3, ChainNames DEF Settled
  <2>5. \A r \in {"cppo", "cmappo"} : C7Complete(dir[r].latest)
    BY <2>4, ImportNames DEF RunFinished
  <2>6. ASSUME NEW r \in {"cppo", "cmappo"}  PROVE dir[r].latest.epoch = Target
    <3>1. dir[r].latest.epoch >= Target
      BY <2>5 DEF C7Complete
    <3>2. dir[r].latest.epoch <= Target
      BY <1>1, ImportNames DEF EpochInv
    <3>3. dir[r].latest.epoch \in Nat
      BY <1>1, ImportNames DEF ChainTypes, RunFiles, ChainStates
    <3> QED
      BY <3>1, <3>2, <3>3, ImportNames
  <2> QED
    BY <1>1, <1>2, <1>3, <2>1, <2>2, <2>6 DEF DeliveryInv
<1> QED
  BY <1>2, <1>3 DEF ReportsCurrent

LEMMA ChainOrigins == ChainInv => ContinuesParent
<1> SUFFICES ASSUME ChainInv, NEW r \in {"cppo", "cmappo"}, dir[r].latest.epoch >= Parent,
                    "halfImport" \notin history
             PROVE  dir[r].latest.from = "latest"
  BY DEF ContinuesParent
<1>1. OriginInv
  BY DEF ChainInv
<1>2. dir[r].latest # NoState
  BY NoStateType, ImportNames
<1>3. dir[r].latest.epoch # ParentBest
  BY ImportNames
<1> QED
  BY <1>1, <1>2, <1>3 DEF OriginInv

\* Every published report, and the package delivered, is about the best checkpoints that
\* stand in the directories, with their numbers (rl_retraining_v3.py, wave 2, continuation).
THEOREM ReportsAlwaysCurrent == ChainSpec => []ReportsCurrent
  BY ChainInvariance, ChainReports, PTL

\* Every epoch beyond the parent's descends from the parent's last epoch, unless a command
\* ended inside the MAPPO import (rl_hydronic_1h_continue_700.py).
THEOREM ParentAlwaysContinued == ChainSpec => []ContinuesParent
  BY ChainInvariance, ChainOrigins, PTL
=============================================================================
