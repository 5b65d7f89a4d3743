---------------------------- MODULE SuiteScheduler ----------------------------
(***************************************************************************)
(* The suite command (cli.py:_suite): it runs the train command of each of   *)
(* its tasks as a child process, one or two at a time, never two of one     *)
(* building case, and MAPPO on a limited number of GPU slots.  It polls its  *)
(* children; when it is interrupted or cannot start one, it stops them.      *)
(*                                                                         *)
(* That a child ends by itself is CommandEnds of RunSupervisor; the sweeps   *)
(* of what dead children leave are in TestIds and CapacityLeases.           *)
(***************************************************************************)
EXTENDS Integers, FiniteSets

CONSTANTS
    Tasks,              \* how many tasks the command line names
    Case,               \* [1..Tasks -> building cases]
    Algorithm,          \* [1..Tasks -> {"ppo", "mappo"}]
    InterruptsLaunch    \* an interrupt may fall between Popen and append

Jobs == 1..Tasks

ASSUME SuiteAssumption ==
    /\ Tasks \in Nat \ {0}
    /\ Algorithm \in [Jobs -> {"ppo", "mappo"}]
    /\ InterruptsLaunch \in BOOLEAN

VARIABLES
    maxParallel,    \* --max-parallel
    gpuSlots,       \* --gpu-slots
    queue,          \* the jobs not popped yet; they keep their order
    active,         \* the children the scheduler knows of
    failures,       \* the jobs it has seen fail
    child,          \* what the process of each job does
    job,            \* the job being launched
    suiteStage,          \* where the scheduler is
    raised          \* an exception is on its way out

options == <<maxParallel, gpuSlots>>
suiteVars == <<options, queue, active, failures, child, job, suiteStage, raised>>

SuiteStages == {"filling", "launched", "polling", "closing", "ended"}

SuiteInit ==
    /\ maxParallel \in {1, 2}
    /\ gpuSlots \in {0, 1, 2}
    /\ queue = Jobs
    /\ active = {}
    /\ failures = {}
    /\ child = [j \in Jobs |-> "none"]
    /\ job = 0
    /\ suiteStage = "filling"
    /\ raised = FALSE

Running == {j \in Jobs : child[j] = "running"}

NeedsGpu(j) == Algorithm[j] = "mappo" /\ gpuSlots > 0

GpuJobs(jobs) == {j \in jobs : NeedsGpu(j)}

Admissible(j) ==
    /\ \A a \in active : Case[a] # Case[j]
    /\ NeedsGpu(j) => Cardinality(GpuJobs(active)) < gpuSlots

\* Beside children of one algorithm the other one is preferred.
Preferred(j) == \A a \in active : Algorithm[a] # Algorithm[j]

Candidates == {j \in queue : Admissible(j)}

\* The first preferred candidate, or the first one.
Selected(j) ==
    /\ j \in Candidates
    /\ \A k \in Candidates \ {j} :
          IF Preferred(j) = Preferred(k) THEN j < k ELSE Preferred(j)

Popped(j) == queue \ {j}

HasPlace == Cardinality(active) < maxParallel

Launch(j) ==
    /\ suiteStage = "filling"
    /\ HasPlace
    /\ Selected(j)
    /\ queue' = Popped(j)
    /\ child' = [child EXCEPT ![j] = "running"]
    /\ job' = j
    /\ suiteStage' = "launched"
    /\ UNCHANGED <<options, active, failures, raised>>

\* Mutant: Popen is called outside the try block.
LaunchFailsOutsideTry(j) ==
    /\ suiteStage = "filling"
    /\ HasPlace
    /\ Selected(j)
    /\ queue' = Popped(j)
    /\ suiteStage' = "ended"
    /\ raised' = TRUE
    /\ UNCHANGED <<options, active, failures, child, job>>

\* Popen raises; the job is popped already.
LaunchFails(j) ==
    /\ suiteStage = "filling"
    /\ HasPlace
    /\ Selected(j)
    /\ queue' = Popped(j)
    /\ suiteStage' = "closing"
    /\ raised' = TRUE
    /\ UNCHANGED <<options, active, failures, child, job>>

Remember ==
    /\ suiteStage = "launched"
    /\ active' = active \cup {job}
    /\ suiteStage' = "filling"
    /\ UNCHANGED <<options, queue, failures, child, job, raised>>

StopFilling ==
    /\ suiteStage = "filling"
    /\ ~HasPlace \/ Candidates = {}
    /\ suiteStage' = "polling"
    /\ UNCHANGED <<options, queue, active, failures, child, job, raised>>

\* Mutant: a child that has ended stays in the list.
EveryChild == active

Survivors == active \cap Running

Failed == {j \in active : child[j] = "failed"}

\* Mutant: only the failures of this round are kept.
FailuresOfThisRound == Failed

FailuresSeen == failures \cup Failed

Poll ==
    /\ suiteStage = "polling"
    /\ failures' = FailuresSeen
    /\ active' = Survivors
    /\ suiteStage' = IF queue = {} /\ active' = {} THEN "closing" ELSE "filling"
    /\ UNCHANGED <<options, queue, child, job, raised>>

\* A KeyboardInterrupt.  A second one, in the finally block, is not modelled.
Interrupt ==
    /\ \/ suiteStage \in {"filling", "polling"}
       \/ suiteStage = "launched" /\ InterruptsLaunch
    /\ suiteStage' = "closing"
    /\ raised' = TRUE
    /\ UNCHANGED <<options, queue, active, failures, child, job>>

\* The children that the finally block terminates or kills.
ToStop == Survivors

StopChild(j) ==
    /\ suiteStage = "closing"
    /\ j \in ToStop
    /\ child' = [child EXCEPT ![j] = "failed"]
    /\ UNCHANGED <<options, queue, active, failures, job, suiteStage, raised>>

\* The command returns, or raises for an interrupt or for its failures.
End ==
    /\ suiteStage = "closing"
    /\ ToStop = {}
    /\ suiteStage' = "ended"
    /\ UNCHANGED <<options, queue, active, failures, child, job, raised>>

\* A child ends by itself, well or not.
ChildEnds(j) ==
    /\ child[j] = "running"
    /\ \E result \in {"done", "failed"} :
          child' = [child EXCEPT ![j] = result]
    /\ UNCHANGED <<options, queue, active, failures, job, suiteStage, raised>>

Schedule ==
    \/ \E j \in Jobs : Launch(j) \/ LaunchFails(j) \/ StopChild(j)
    \/ Remember
    \/ StopFilling
    \/ Poll
    \/ End

SuiteNext ==
    \/ Schedule
    \/ Interrupt
    \/ \E j \in Jobs : ChildEnds(j)

SuiteSpec == SuiteInit /\ [][SuiteNext]_suiteVars

\* The scheduler only sleeps between polls, and a train command ends.
FairSuiteSpec ==
    /\ SuiteSpec
    /\ WF_suiteVars(Schedule)
    /\ \A j \in Jobs : WF_suiteVars(ChildEnds(j))

-----------------------------------------------------------------------------
(* Properties. *)

SuiteTypeOK ==
    /\ maxParallel \in {1, 2}
    /\ gpuSlots \in {0, 1, 2}
    /\ queue \subseteq {j \in Jobs : child[j] = "none"}
    /\ active \subseteq Jobs
    /\ failures \subseteq Jobs
    /\ child \in [Jobs -> {"none", "running", "done", "failed"}]
    /\ job \in Jobs \cup {0}
    /\ suiteStage \in SuiteStages
    /\ raised \in BOOLEAN

\* "Tasks sharing the same BOPTEST testcase are not launched together"
\* (docs/PARALLELISM.md): also while a child is started or not yet polled.
DistinctCases ==
    \A j, k \in Running : Case[j] = Case[k] => j = k

\* The processes alive, recorded or not, fit --max-parallel and --gpu-slots
\* (cli.py:534, 560).
SlotsRespected ==
    /\ Cardinality(Running) <= maxParallel
    /\ gpuSlots > 0 => Cardinality(GpuJobs(Running)) <= gpuSlots

\* A suite that ends by itself has run every task, and the failures it raises
\* are those of its children (cli.py:617-629, 656).
AllAccounted ==
    suiteStage = "ended" /\ ~raised =>
        /\ queue = {}
        /\ \A j \in Jobs : child[j] \in {"done", "failed"}
        /\ failures = {j \in Jobs : child[j] = "failed"}

\* No child outlives the suite (cli.py:632-646).
ChildrenStopped == suiteStage = "ended" => Running = {}

\* The suite ends, in whatever order cases and algorithms are queued.
SuiteEnds == <>(suiteStage = "ended")
=============================================================================
