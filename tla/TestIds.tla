------------------------------- MODULE TestIds -------------------------------
(***************************************************************************)
(* The BOPTEST TestIDs of one run: who selects them, where they are          *)
(* persisted, and who stops them (boptest.py, environment.py, the trainers    *)
(* and the sweep and retry loops of cli.py).                                *)
(*                                                                         *)
(* An owner is the name of one lifecycle file: a training environment, the    *)
(* forecast client or the train-window evaluator.  The process of the run     *)
(* holds the run lock; any other command sweeps runs whose lock is free.      *)
(* PPO environments live in subprocesses, which may survive an attempt that   *)
(* failed; MAPPO environments are threads of the trainer.                    *)
(***************************************************************************)
EXTENDS FiniteSets, Naturals

CONSTANTS
    Ids,            \* TestIDs; one that still runs or is recorded is not given again
    NoId,
    Workers,        \* the owners training_0 ... training_3
    Forecaster,     \* the owner training_forecast
    Evaluator,      \* the owner train_week_eval_<epoch>_eval
    Settings        \* the algorithm of the task and what may go wrong

Owners == Workers \cup {Forecaster, Evaluator}

\* stop: the request that stops a TestID may fail; reply: the reply to a select
\* may get lost; death: processes may die, and the run may be started again;
\* overlap: it may be started while another process still holds its lock.
AllFaults == {"stop", "reply", "death", "overlap"}

Setting == [algorithm : {"ppo", "mappo"}, faults : SUBSET AllFaults]

ASSUME TestIdAssumption ==
    /\ IsFiniteSet(Workers)
    /\ Forecaster \notin Workers
    /\ Evaluator \notin Workers
    /\ Forecaster # Evaluator
    /\ NoId \notin Ids
    /\ {"none", "selecting"} \cap Ids = {}
    /\ Settings \subseteq Setting

VARIABLES
    setting,    \* one of Settings, which never changes
    live,       \* the TestIDs the service runs for this run
    record,     \* the TestID in the .active.json of each owner
    client,     \* the test_id of each client, in memory
    at,         \* what the client of each owner is doing
    orphan,     \* a worker left over from a failed attempt, still in its select
    phase,      \* where the process of the run is
    lock,       \* who holds run.lock
    toStop,     \* cleanup_run_testids: records it has still to stop ...
    toUnlink,   \* ... and those it has stopped and has to unlink
    skipped     \* a start command has swept, found the lock taken and goes on

idVars == <<setting, live, record, client, at, orphan, phase, lock, toStop,
          toUnlink, skipped>>

clientVars  == <<client, at, orphan>>
cleanupVars == <<toStop, toUnlink>>
runVars     == <<setting, phase, lock, skipped>>

Phases == {"down", "startup", "forecast", "rollout", "closing", "final",
           "ended", "recovering"}

\* off: no environment; lost: the client raised and its environment is closing.
Places == {"off", "idle", "selecting", "selected", "running", "stopped", "lost"}

Recorded == {o \in Owners : record[o] # NoId}

UnusedIds ==
    {i \in Ids \ live : \A o \in Owners : i \notin {record[o], client[o], orphan[o]}}

IdsInit ==
    /\ setting \in Settings
    /\ live = {}
    /\ record = [o \in Owners |-> NoId]
    /\ client = [o \in Owners |-> NoId]
    /\ at = [o \in Owners |-> "off"]
    /\ orphan = [o \in Owners |-> "none"]
    /\ phase = "down"
    /\ lock = "free"
    /\ toStop = {}
    /\ toUnlink = {}
    /\ skipped = FALSE

-----------------------------------------------------------------------------
(* BoptestHttpClient and LifecycleRecorder *)

\* The clients that may work now: the forecast first, then the environments,
\* and the evaluator while all of them have their TestIDs.
Serving(o) ==
    \/ phase = "forecast" /\ o = Forecaster
    \/ phase = "rollout" /\ o \in Workers
    \/ phase = "rollout" /\ o = Evaluator /\ \A w \in Workers : at[w] = "running"

\* select_testcase refuses a client that has a TestID.
SendSelect(o) ==
    /\ Serving(o)
    /\ at[o] = "idle"
    /\ client[o] = NoId
    /\ at' = [at EXCEPT ![o] = "selecting"]
    /\ UNCHANGED <<live, record, client, orphan, runVars, cleanupVars>>

\* The service starts a TestID and its reply arrives,
SelectReplies(o) ==
    /\ at[o] = "selecting"
    /\ \E i \in UnusedIds :
          /\ live' = live \cup {i}
          /\ client' = [client EXCEPT ![o] = i]
    /\ at' = [at EXCEPT ![o] = "selected"]
    /\ UNCHANGED <<record, orphan, runVars, cleanupVars>>

\* ... or gets lost although the TestID runs.
SelectReplyLost(o) ==
    /\ "reply" \in setting.faults
    /\ at[o] = "selecting"
    /\ \E i \in UnusedIds : live' = live \cup {i}
    /\ at' = [at EXCEPT ![o] = "lost"]
    /\ UNCHANGED <<record, client, orphan, runVars, cleanupVars>>

\* Mutant: the TestID is persisted once the test case is configured.
PersistLate(o) == [record EXCEPT ![o] = NoId]

Persisted(o) == [record EXCEPT ![o] = client[o]]

\* The recorder writes .active.json; then the client waits for Running and
\* configures the test case.
Persist(o) ==
    /\ at[o] = "selected"
    /\ record' = Persisted(o)
    /\ at' = [at EXCEPT ![o] = "running"]
    /\ UNCHANGED <<live, client, orphan, runVars, cleanupVars>>

\* client.stop sends the request ...
SendStop(o) ==
    /\ \/ at[o] = "running" /\ o \notin Workers
       \/ at[o] \in {"running", "lost"} /\ phase = "closing"
    /\ client[o] # NoId
    /\ live' = live \ {client[o]}
    /\ at' = [at EXCEPT ![o] = "stopped"]
    /\ UNCHANGED <<record, client, orphan, runVars, cleanupVars>>

\* ... and unlinks the record when it was answered.
StopReplies(o) ==
    /\ at[o] = "stopped"
    /\ record' = [record EXCEPT ![o] = NoId]
    /\ client' = [client EXCEPT ![o] = NoId]
    /\ at' = [at EXCEPT ![o] = "off"]
    /\ UNCHANGED <<live, orphan, runVars, cleanupVars>>

\* An environment without a TestID closes, and so does one whose stop fails (the
\* TestID may be stopped or not); its record stays.
CloseSilently(o) ==
    /\ phase = "closing"
    /\ \/ client[o] = NoId /\ at[o] \in {"idle", "lost"} /\ live' = live
       \/ /\ "stop" \in setting.faults
          /\ client[o] # NoId
          /\ at[o] \in {"running", "lost"}
          /\ live' \in {live, live \ {client[o]}}
    /\ client' = [client EXCEPT ![o] = NoId]
    /\ at' = [at EXCEPT ![o] = "off"]
    /\ UNCHANGED <<record, orphan, runVars, cleanupVars>>

-----------------------------------------------------------------------------
(* cleanup_run_testids, in the process of the run or in a sweep *)

\* Its list of .active.json files is taken once.
Listed == toStop' = Recorded /\ toUnlink' = {}

CleanupDone == toStop = {} /\ toUnlink = {}

KeepRecord(o) == toUnlink

\* stop_one reads the record and stops its TestID; one that is gone counts as
\* stopped, a record that is gone is an error.
CleanupStops(o) ==
    /\ o \in toStop
    /\ toStop' = toStop \ {o}
    /\ IF record[o] = NoId
       THEN UNCHANGED <<live, toUnlink>>
       ELSE \/ live' = live \ {record[o]} /\ toUnlink' = toUnlink \cup {o}
            \/ "stop" \in setting.faults /\ live' = live /\ toUnlink' = KeepRecord(o)
    /\ UNCHANGED <<record, clientVars, runVars>>

\* It unlinks whatever record is there by then.
CleanupUnlinks(o) ==
    /\ o \in toUnlink
    /\ record' = [record EXCEPT ![o] = NoId]
    /\ toUnlink' = toUnlink \ {o}
    /\ UNCHANGED <<live, clientVars, runVars, toStop>>

\* Mutant: nobody looks at the lock.
Unlocked == TRUE

LockFree == lock = "free"

\* _cleanup_stale_runs takes the lock of a run that has records, or skips it.
SweepBegins ==
    /\ Recorded # {}
    /\ LockFree
    /\ lock' = "sweep"
    /\ Listed
    /\ UNCHANGED <<setting, live, record, clientVars, phase, skipped>>

SweepEnds ==
    /\ lock = "sweep"
    /\ CleanupDone \/ "death" \in setting.faults
    /\ lock' = "free"
    /\ toStop' = {}
    /\ toUnlink' = {}
    /\ UNCHANGED <<setting, live, record, clientVars, phase, skipped>>

-----------------------------------------------------------------------------
(* The process of the run *)

\* A run begins by stopping what its records name (train_ppo under the lock; for
\* MAPPO the sweep of _train just before it), and does not look at the outcome.
BeginRun ==
    /\ phase = "down"
    /\ LockFree
    /\ lock' = "run"
    /\ phase' = "startup"
    /\ Listed
    /\ UNCHANGED <<setting, live, record, clientVars, skipped>>

\* The sweep of a start command skips the run while another process holds its
\* lock; the preflight that follows takes its time ...
SweepSkips ==
    /\ "overlap" \in setting.faults
    /\ Recorded # {}
    /\ ~LockFree
    /\ ~skipped
    /\ skipped' = TRUE
    /\ UNCHANGED <<setting, live, record, clientVars, phase, lock, cleanupVars>>

\* ... and the lock is free when the command takes it; train_mappo has no cleanup
\* of its own.
BeginUnswept ==
    /\ skipped
    /\ setting.algorithm = "mappo"
    /\ phase = "down"
    /\ LockFree
    /\ lock' = "run"
    /\ phase' = "startup"
    /\ skipped' = FALSE
    /\ UNCHANGED <<setting, live, record, clientVars, cleanupVars>>

\* prefetch_forecast, and nothing else, has a client now.
StartForecast ==
    /\ phase = "startup"
    /\ CleanupDone
    /\ phase' = "forecast"
    /\ at' = [at EXCEPT ![Forecaster] = "idle"]
    /\ UNCHANGED <<setting, live, record, client, orphan, lock, skipped, cleanupVars>>

\* The forecast client has stopped: the environments are made.
StartRollout ==
    /\ phase = "forecast"
    /\ at[Forecaster] = "off"
    /\ phase' = "rollout"
    /\ at' = [o \in Owners |-> IF o \in Workers THEN "idle" ELSE at[o]]
    /\ UNCHANGED <<setting, live, record, client, orphan, lock, skipped, cleanupVars>>

\* A request of the forecast client failed, and it stopped its TestID if it had
\* one and could: the attempt raises at once.
ForecastRaises ==
    /\ phase = "forecast"
    /\ \/ at[Forecaster] \in {"selecting", "lost", "off"} /\ live' = live
       \/ /\ "stop" \in setting.faults
          /\ at[Forecaster] = "running"
          /\ live' \in {live, live \ {client[Forecaster]}}
    /\ phase' = "ended"
    /\ at' = [at EXCEPT ![Forecaster] = "off"]
    /\ client' = [client EXCEPT ![Forecaster] = NoId]
    /\ UNCHANGED <<setting, record, orphan, lock, skipped, cleanupVars>>

\* An evaluation is due: all environments wait.
StartEvaluation ==
    /\ phase = "rollout"
    /\ \A w \in Workers : at[w] = "running"
    /\ at[Evaluator] = "off"
    /\ at' = [at EXCEPT ![Evaluator] = "idle"]
    /\ UNCHANGED <<live, record, client, orphan, runVars, cleanupVars>>

\* A request fails: the client keeps its TestID, and its environment raises.
RequestFails(o) ==
    /\ phase = "rollout"
    /\ at[o] \in {"selecting", "running"}
    /\ o \in Workers => at[Evaluator] = "off"
    /\ at' = [at EXCEPT ![o] = "lost"]
    /\ UNCHANGED <<live, record, client, orphan, runVars, cleanupVars>>

\* Training ends, or an exception ends it: the environments are closed when none
\* of them is in a request any more.
StartClosing ==
    /\ phase = "rollout"
    /\ \A o \in Owners : at[o] \notin {"selecting", "selected", "stopped"}
    /\ setting.algorithm = "ppo" => \A w \in Workers : at[w] # "lost"
    /\ phase' = "closing"
    /\ UNCHANGED <<setting, live, record, clientVars, lock, skipped, cleanupVars>>

\* The workers that are left in a select when their attempt is over.
Left(o) ==
    IF o \in Workers /\ at[o] = "selecting" THEN "selecting"
    ELSE IF o \in Workers /\ at[o] = "selected" THEN client[o]
    ELSE orphan[o]

NobodyAt ==
    /\ at' = [o \in Owners |-> "off"]
    /\ client' = [o \in Owners |-> NoId]

\* A PPO worker that raised is a dead subprocess: closing the others raises too,
\* so the final cleanup is skipped and they run on, out of reach.
WorkerDies ==
    /\ phase = "rollout"
    /\ setting.algorithm = "ppo"
    /\ \E w \in Workers : at[w] = "lost"
    /\ phase' = "ended"
    /\ orphan' = [o \in Owners |-> Left(o)]
    /\ NobodyAt
    /\ UNCHANGED <<setting, live, record, lock, skipped, cleanupVars>>

OrphanSelects(o) ==
    /\ orphan[o] = "selecting"
    /\ \E i \in UnusedIds :
          /\ live' = live \cup {i}
          /\ orphan' = [orphan EXCEPT ![o] = i]
    /\ UNCHANGED <<record, client, at, runVars, cleanupVars>>

\* The leftover worker writes its record, and ends without stopping its TestID.
OrphanPersists(o) ==
    /\ orphan[o] \in Ids
    /\ record' = [record EXCEPT ![o] = orphan[o]]
    /\ orphan' = [orphan EXCEPT ![o] = "none"]
    /\ UNCHANGED <<live, client, at, runVars, cleanupVars>>

\* All environments are closed: the final cleanup begins,
StartFinalCleanup ==
    /\ phase = "closing"
    /\ \A o \in Owners : at[o] = "off"
    /\ phase' = "final"
    /\ Listed
    /\ UNCHANGED <<setting, live, record, clientVars, lock, skipped>>

\* ... and the attempt is over; the process of one that succeeded exits.
EndAttempt ==
    /\ phase = "final"
    /\ CleanupDone
    /\ phase' = "ended"
    /\ UNCHANGED <<setting, live, record, clientVars, lock, skipped, cleanupVars>>

\* A transport failure is retried: _wait_for_clean_recovery cleans up ...
StartRecovery ==
    /\ phase = "ended"
    /\ phase' = "recovering"
    /\ Listed
    /\ UNCHANGED <<setting, live, record, clientVars, lock, skipped>>

RecoverAgain ==
    /\ phase = "recovering"
    /\ CleanupDone
    /\ Recorded # {}
    /\ Listed
    /\ UNCHANGED <<live, record, clientVars, runVars>>

Recovered == Recorded = {}

\* ... until no record is left, and the next attempt begins.
Retry ==
    /\ phase = "recovering"
    /\ CleanupDone
    /\ Recovered
    /\ phase' = "startup"
    /\ Listed
    /\ UNCHANGED <<setting, live, record, clientVars, lock, skipped>>

\* The process exits or dies, and the lock with it.
ExitRun ==
    /\ phase # "down"
    /\ "death" \in setting.faults
    /\ phase' = "down"
    /\ lock' = "free"
    /\ toStop' = {}
    /\ toUnlink' = {}
    /\ orphan' = IF setting.algorithm = "ppo" THEN [o \in Owners |-> Left(o)] ELSE orphan
    /\ NobodyAt
    /\ UNCHANGED <<setting, live, record, skipped>>

Client(o) ==
    \/ SendSelect(o)
    \/ SelectReplies(o)
    \/ SelectReplyLost(o)
    \/ Persist(o)
    \/ SendStop(o)
    \/ StopReplies(o)
    \/ CloseSilently(o)
    \/ RequestFails(o)
    \/ OrphanSelects(o)
    \/ OrphanPersists(o)
    \/ CleanupStops(o)
    \/ CleanupUnlinks(o)

Attempt ==
    \/ StartForecast
    \/ StartRollout
    \/ ForecastRaises
    \/ StartEvaluation
    \/ StartClosing
    \/ WorkerDies
    \/ StartFinalCleanup
    \/ EndAttempt

IdsNext ==
    \/ \E o \in Owners : Client(o)
    \/ Attempt
    \/ BeginRun
    \/ SweepSkips
    \/ BeginUnswept
    \/ StartRecovery
    \/ RecoverAgain
    \/ Retry
    \/ ExitRun
    \/ SweepBegins
    \/ SweepEnds

IdsSpec == IdsInit /\ [][IdsNext]_idVars

-----------------------------------------------------------------------------

\* Only the process of the run has clients, and only under its lock.
IdsTypeOK ==
    /\ setting \in Settings
    /\ live \subseteq Ids
    /\ record \in [Owners -> Ids \cup {NoId}]
    /\ client \in [Owners -> Ids \cup {NoId}]
    /\ at \in [Owners -> Places]
    /\ orphan \in [Owners -> Ids \cup {"none", "selecting"}]
    /\ phase \in Phases
    /\ lock \in {"free", "run", "sweep"}
    /\ toStop \subseteq Owners
    /\ toUnlink \subseteq Owners
    /\ skipped \in BOOLEAN
    /\ phase # "down" <=> lock = "run"

\* A sweep never stops the TestID of a live process of the run.
SweepSpares ==
    lock = "sweep" => \A o \in Owners : client[o] \in live => client[o] \in live'

SweepSparesLiveRun == [][SweepSpares]_idVars

\* A TestID that a MAPPO client works with is in its record, so that whoever
\* cleans up after a crash finds it (environment.py:45-61).  (A leftover PPO worker
\* replaces records.)
WorkingIdsRecorded ==
    setting.algorithm = "mappo" =>
        \A o \in Owners : at[o] = "running" => record[o] = client[o]

\* Only requests that stop a TestID may fail, in one process of a MAPPO run.
RetriedInProcess == setting.algorithm = "mappo" /\ setting.faults \subseteq {"stop"}

\* Then the run never has more TestIDs than its lease has slots: one for each
\* environment and one for the evaluator (leases.py, boptest.py).
WithinSlots ==
    RetriedInProcess => Cardinality(live) <= Cardinality(Workers) + 1

\* The TestIDs of a run can be found again and fit its lease.
TestIdsAccounted == WorkingIdsRecorded /\ WithinSlots
=============================================================================
