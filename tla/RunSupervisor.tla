---------------------------- MODULE RunSupervisor ----------------------------
(***************************************************************************)
(* The life of one run directory under train commands (cli.py:_train):      *)
(* preflight, attempts of the trainer, retries after transport failures,    *)
(* health waits, and the files they leave.  Commands follow each other, as   *)
(* the run lock wants it, and any of them may be killed.                    *)
(*                                                                         *)
(* A trainer's attempt commits epochs one by one: EpochCheckpoint shows that *)
(* a failure leaves the last commit, EarlyStop from which epoch on the       *)
(* plateau rule may stop.  Cleaning up TestIDs is in TestIds.              *)
(***************************************************************************)
EXTENDS Integers

CONSTANTS
    MaxEpochs,         \* the registered cap
    EvalInterval,      \* epochs between evaluations in full mode
    EarliestStop,      \* first epoch at which the plateau rule may stop
    ConvergedBy,       \* bound: by this epoch a continued training stops
    Attempts,          \* --http-auto-resume-attempts
    LatestUnreadable   \* the supervisor's read of latest.json may fail

ASSUME SupervisorAssumption ==
    /\ MaxEpochs \in Nat \ {0}
    /\ EvalInterval \in Nat \ {0}
    /\ EarliestStop \in Nat \ {0}
    /\ ConvergedBy \in Nat
    /\ ConvergedBy >= MaxEpochs
    /\ Attempts \in Nat
    /\ LatestUnreadable \in BOOLEAN

VARIABLES
    smoke,         \* --mode smoke instead of full; each has its own directory
    latest,        \* the epoch of the latest checkpoint; 0: there is none
    stopped,       \* early_stop.stopped in that checkpoint
    manifest,      \* run_manifest.json
    failure,       \* last_failure.json
    stage,         \* what the command is doing
    extend,        \* --continue-until-converged of this command
    resume,        \* what the next attempt is told
    error,         \* the exception that is being handled
    tries,         \* attempt in _preflight_with_http_recovery
    fails,         \* consecutive_failures
    failedEpoch,   \* failed_epoch
    restarted,     \* total_restarts > 0
    spent,         \* history: retries since the last commit or the start
    died           \* history: a command died since the last failure record

files == <<smoke, latest, stopped, manifest, failure>>
arguments == <<extend, resume>>
counters == <<tries, fails, failedEpoch, restarted>>
commandVars == <<files, stage, arguments, error, counters, spent, died>>

NoManifest == [status |-> "none", epoch |-> 0]
Manifest == [status : {"none", "early_stopped", "cap_reached", "incomplete"},
             epoch  : Nat]

\* auto_resume_scheduled and resolved of last_failure.json.
NoFailure == [scheduled |-> FALSE, resolved |-> FALSE]
Failure == [scheduled : BOOLEAN, resolved : BOOLEAN]

Supervised == {"starting", "training", "trained", "annotating", "handling",
               "waiting"}
Stages == Supervised \cup {"idle", "preflight"}

Errors == {"transport", "other"}

CommandInit ==
    /\ smoke \in BOOLEAN
    /\ latest = 0
    /\ stopped = FALSE
    /\ manifest = NoManifest
    /\ failure = NoFailure
    /\ stage = "idle"
    /\ extend = FALSE
    /\ resume = FALSE
    /\ error = "other"
    /\ tries = 0
    /\ fails = 0
    /\ failedEpoch = 0
    /\ restarted = FALSE
    /\ spent = 0
    /\ died = FALSE

-----------------------------------------------------------------------------
(* The command until it holds the run lock and its lease. *)

Command(continue, resuming) ==
    /\ stage = "idle"
    /\ continue => ~smoke
    /\ stage' = "preflight"
    /\ extend' = continue
    /\ resume' = resuming
    /\ tries' = 0
    /\ UNCHANGED <<files, error, fails, failedEpoch, restarted, spent, died>>

\* A transport failure; the next try follows however the health wait ends.
RetryPreflight ==
    /\ stage = "preflight"
    /\ tries < Attempts
    /\ tries' = tries + 1
    /\ UNCHANGED <<files, stage, arguments, error, fails, failedEpoch,
                   restarted, spent, died>>

\* The preflight or the identity check raises, the run lock is taken, or no
\* lease is free.
Refuse ==
    /\ stage = "preflight"
    /\ stage' = "idle"
    /\ UNCHANGED <<files, arguments, error, counters, spent, died>>

\* What _latest_committed_epoch may return.
CommittedEpoch == {latest} \cup {e \in {0} : LatestUnreadable}

Supervise ==
    /\ stage = "preflight"
    /\ \E e \in CommittedEpoch : failedEpoch' = e
    /\ stage' = "starting"
    /\ fails' = 0
    /\ restarted' = FALSE
    /\ spent' = 0
    /\ UNCHANGED <<files, arguments, error, tries, died>>

-----------------------------------------------------------------------------
(* One attempt of train_ppo or train_mappo. *)

\* "Checkpoint exists; use -Resume or a new output directory"
RefuseFreshStart ==
    /\ stage = "starting"
    /\ latest > 0
    /\ ~resume
    /\ stage' = "handling"
    /\ error' = "other"
    /\ UNCHANGED <<files, arguments, counters, spent, died>>

StartAttempt ==
    /\ stage = "starting"
    /\ latest = 0 \/ resume
    /\ stage' = "training"
    /\ UNCHANGED <<files, arguments, error, counters, spent, died>>

\* training_should_start, epoch_iterator and the loops around learn.
MoreEpochs ==
    /\ ~stopped
    /\ IF smoke THEN latest < 2 ELSE extend \/ latest < MaxEpochs

Due(epoch) == epoch % (IF smoke THEN 1 ELSE EvalInterval) = 0

\* The plateau rule may stop at any evaluation late enough.
MayStopAt(epoch) == Due(epoch) /\ epoch >= EarliestStop

TrainEpoch ==
    /\ stage = "training"
    /\ MoreEpochs
    /\ latest' = latest + 1
    /\ stopped' \in {s \in BOOLEAN : s => MayStopAt(latest')}
    /\ latest' >= ConvergedBy => (stopped' \/ ~extend)
    /\ spent' = 0
    /\ UNCHANGED <<smoke, manifest, failure, stage, arguments, error, counters,
                   died>>

EndTraining ==
    /\ stage = "training"
    /\ ~MoreEpochs
    /\ stage' = "trained"
    /\ UNCHANGED <<files, arguments, error, counters, spent, died>>

\* Mutant: the cap is looked at first.
CapBeforeStop ==
    IF latest >= MaxEpochs THEN "cap_reached"
    ELSE IF stopped THEN "early_stopped" ELSE "incomplete"

CompletionStatus ==
    IF stopped THEN "early_stopped"
    ELSE IF latest >= MaxEpochs THEN "cap_reached" ELSE "incomplete"

WriteManifest ==
    /\ stage = "trained"
    /\ manifest' = [status |-> CompletionStatus, epoch |-> latest]
    /\ stage' = "annotating"
    /\ UNCHANGED <<smoke, latest, stopped, failure, arguments, error, counters,
                   spent, died>>

-----------------------------------------------------------------------------
(* The supervisor around the attempts. *)

\* _annotate_runtime_recovery, and the command ends.
Annotate ==
    /\ stage = "annotating"
    /\ failure' = [failure EXCEPT !.resolved = restarted \/ @]
    /\ stage' = "idle"
    /\ UNCHANGED <<smoke, latest, stopped, manifest, arguments, error, counters,
                   spent, died>>

\* Anything in the try block may raise.
Raise(kind) ==
    /\ stage \in {"training", "trained", "annotating"}
    /\ stage' = "handling"
    /\ error' = kind
    /\ UNCHANGED <<files, arguments, counters, spent, died>>

\* A retry more; the count stops at one too many.
Spend == IF spent > Attempts THEN spent ELSE spent + 1

\* Mutant: a failure at the same epoch counts as progress.
FailsOnceMore(e) == IF e >= failedEpoch THEN 1 ELSE fails + 1

FailsNow(e) == IF e > failedEpoch THEN 1 ELSE fails + 1

CanRetry(e) == error = "transport" /\ FailsNow(e) <= Attempts

Handle(e) ==
    /\ stage = "handling"
    /\ fails' = FailsNow(e)
    /\ failedEpoch' = e
    /\ failure' = [scheduled |-> CanRetry(e), resolved |-> FALSE]
    /\ died' = FALSE
    /\ UNCHANGED <<smoke, latest, stopped, manifest, arguments, error, tries>>
    /\ \/ /\ CanRetry(e)
          /\ restarted' = TRUE
          /\ spent' = Spend
          /\ stage' = "waiting"
       \/ /\ ~CanRetry(e)
          /\ stage' = "idle"
          /\ UNCHANGED <<restarted, spent>>

\* BOPTEST is healthy and no TestID of the run is left.
Recover ==
    /\ stage = "waiting"
    /\ resume' = TRUE
    /\ stage' = "starting"
    /\ UNCHANGED <<files, extend, error, counters, spent, died>>

\* Mutant: giving up leaves last_failure.json as it is.
FailureAfterWaitKept == failure

FailureAfterWait == [failure EXCEPT !.scheduled = FALSE]

\* _wait_for_clean_recovery timed out.
WaitTimesOut ==
    /\ stage = "waiting"
    /\ fails' = fails + 1
    /\ UNCHANGED <<smoke, latest, stopped, manifest, arguments, error, tries,
                   failedEpoch, restarted, died>>
    /\ \/ /\ fails' <= Attempts
          /\ spent' = Spend
          /\ UNCHANGED <<failure, stage>>
       \/ /\ fails' > Attempts
          /\ failure' = FailureAfterWait
          /\ stage' = "idle"
          /\ UNCHANGED spent

\* The process is killed, or an exception outside the try block, such as a
\* KeyboardInterrupt in a sleep, ends it.
Die ==
    /\ stage # "idle"
    /\ stage' = "idle"
    /\ died' = TRUE
    /\ UNCHANGED <<files, arguments, error, counters, spent>>

-----------------------------------------------------------------------------

Work ==
    \/ RetryPreflight
    \/ Refuse
    \/ Supervise
    \/ RefuseFreshStart
    \/ StartAttempt
    \/ TrainEpoch
    \/ EndTraining
    \/ WriteManifest
    \/ Annotate
    \/ \E kind \in Errors : Raise(kind)
    \/ \E e \in CommittedEpoch : Handle(e)
    \/ Recover
    \/ WaitTimesOut

CommandNext ==
    \/ \E continue, resuming \in BOOLEAN : Command(continue, resuming)
    \/ Work
    \/ Die

CommandSpec == CommandInit /\ [][CommandNext]_commandVars

\* A command does not stand still: its requests, waits and sleeps have
\* timeouts.  Which way it goes is left open, and whether another is given.
FairCommandSpec == CommandSpec /\ WF_commandVars(Work)

-----------------------------------------------------------------------------
(* Properties. *)

CommandTypeOK ==
    /\ smoke \in BOOLEAN
    /\ latest \in Nat
    /\ stopped \in BOOLEAN
    /\ manifest \in Manifest
    /\ failure \in Failure
    /\ stage \in Stages
    /\ extend \in BOOLEAN
    /\ resume \in BOOLEAN
    /\ error \in Errors
    /\ tries \in 0..Attempts
    /\ fails \in 0..(Attempts + 1)
    /\ failedEpoch \in Nat
    /\ restarted \in BOOLEAN
    /\ spent \in Nat
    /\ died \in BOOLEAN

\* A command retries at most http_auto_resume_attempts times without a new
\* checkpoint (cli.py:375-380), wherever failures, commits and expired health
\* waits fall.
RetriesBounded == spent <= Attempts

\* It gives up on a transport failure only after all those retries: a commit
\* in between renews them (cli.py:375-380 and 435).
SurrendersOnlyWhenSpent ==
    [][/\ error = "transport"
       /\ WaitTimesOut \/ \E e \in CommittedEpoch : Handle(e)
       /\ stage' = "idle"
       => spent >= Attempts]_commandVars

\* The manifest describes a state that the run was in and, unless the cap
\* alone had ended it, still is in (ppo_training.py:538, mappo_training.py:714).
ManifestTruthful ==
    /\ manifest.epoch <= latest
    /\ manifest.status = "early_stopped" => stopped
    /\ manifest.status = "incomplete" => smoke
    /\ manifest.status # "none" /\ manifest.epoch < latest =>
          manifest.status = "cap_reached"
    /\ manifest.status = "cap_reached" =>
          /\ manifest.epoch >= MaxEpochs
          /\ manifest.epoch = latest => ~stopped

\* No later command, continued or not, trains a run beyond its early stop
\* (continuation.py:37, mappo_training.py:386, ppo_training.py:500-511).
EarlyStoppedIsFinal ==
    [][manifest.status = "early_stopped" =>
          UNCHANGED <<latest, stopped, manifest>>]_commandVars

\* While last_failure.json says that a resume is scheduled, a command is there
\* to do it, unless it died (cli.py:397, 437, 303).
PromiseKept ==
    failure.scheduled /\ ~failure.resolved /\ ~died => stage \in Supervised

\* Every command ends, whatever fails and however often.
CommandEnds == stage # "idle" ~> stage = "idle"

\* "Formal evaluation is blocked until training reaches a terminal state"
\* (cli.py:491): a terminal manifest means that the run is in that state.
TerminalManifestCurrent ==
    /\ stage = "idle"
    /\ manifest.status \in {"early_stopped", "cap_reached"}
    => manifest.epoch = latest
=============================================================================
