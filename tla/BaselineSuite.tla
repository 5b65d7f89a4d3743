---------------------------- MODULE BaselineSuite ----------------------------
(***************************************************************************)
(* The baseline suites of h3c_baselines/runtime/runner.py: the arms of a    *)
(* suite run against BOPTEST either one after the other                     *)
(* (execute_baseline_plans) or one thread each                              *)
(* (execute_baseline_plans_concurrently), every arm writing its own         *)
(* directory and ending it with completion.json or failure.json.            *)
(*                                                                          *)
(* A command is one process.  The concurrent commands run the same plans at *)
(* the same commit, so they share one suite identity: one suite lock, one   *)
(* claim file, one evidence file.  A run is an arm of a command; the test   *)
(* that BOPTEST allots to a run carries the run's name.                     *)
(***************************************************************************)
EXTENDS Naturals, Sequences, FiniteSets

CONSTANTS
    Concurrent,    \* commands: suite mpc-formal --execute
    Serial,        \* commands: suite formal --execute
    NumArms,       \* arms of a suite
    Steps,         \* control steps of an evaluation
    Workers,       \* tests BOPTEST runs at a time; it queues the others
    MaxFaults,     \* bound: requests, verifications and file creations that fail
    MaxKills       \* bound: commands killed

ASSUME BaselineSuiteAssumption ==
    /\ Concurrent \cap Serial = {}
    /\ NumArms \in Nat \ {0} /\ Steps \in Nat \ {0} /\ Workers \in Nat \ {0}
    /\ MaxFaults \in Nat /\ MaxKills \in Nat

Commands == Concurrent \cup Serial
Arms == 1 .. NumArms
Runs == Commands \X Arms
Of(c) == {c} \X Arms
None == <<>>
Nobody == "nobody"

VARIABLES
    cmd,       \* where each command is
    lock,      \* .execution.lock of the serial suites and of the concurrent suite
    claim,     \* the .claim file of the concurrent suite
    evidence,  \* the evidence file of the concurrent suite
    owned,     \* _SelectedTestIdentityRegistry of each command
    arm,       \* the control state of each run
    dir,       \* the directory of each run
    tests,     \* BOPTEST: state, clock and advances of each allotted test
    lost,      \* tests nobody can stop: the reply was lost or the stop failed
    faults, kills

vars == <<cmd, lock, claim, evidence, owned, arm, dir, tests, lost, faults, kills>>
files == <<lock, claim, evidence>>

Unused == [init |-> 0, adv |-> 0, stop |-> 0]
NoRun == [pc |-> "off", test |-> None, err |-> FALSE, life |-> Unused, result |-> "none"]
NoDir == [manifest |-> None, events |-> {}, ids |-> {}, rows |-> 0, eligible |-> FALSE,
          done |-> {}]

Init ==
    /\ cmd = [c \in Commands |-> "idle"]
    /\ lock = [k \in {"serial", "suite"} |-> Nobody]
    /\ claim = FALSE
    /\ evidence = None
    /\ owned = [c \in Concurrent |-> {}]
    /\ arm = [r \in Runs |-> NoRun]
    /\ dir = [r \in Runs |-> NoDir]
    /\ tests = [r \in Runs |-> [st |-> "free", clock |-> 0, by |-> <<>>]]
    /\ lost = {}
    /\ faults = 0 /\ kills = 0

Kind(c) == IF c \in Serial THEN "serial" ELSE "suite"
Live(t) == tests[t].st \in {"queued", "running"}
Up(r) == cmd[r[1]] = "running"

Goto(r, pc) == arm' = [arm EXCEPT ![r].pc = pc]
Fault == faults < MaxFaults /\ faults' = faults + 1

(***************************************************************************)
(* The command before its arms.                                            *)
(***************************************************************************)
TakeLock(c) ==
    /\ cmd[c] = "idle"
    /\ IF lock[Kind(c)] = Nobody
       THEN /\ lock' = [lock EXCEPT ![Kind(c)] = c]
            /\ cmd' = [cmd EXCEPT ![c] = IF c \in Serial THEN "running" ELSE "locked"]
       ELSE cmd' = [cmd EXCEPT ![c] = "refused"] /\ UNCHANGED lock
    /\ UNCHANGED <<claim, evidence, owned, arm, dir, tests, lost, faults, kills>>

MayClaimUnclaimed == ~claim                                              \* mutant
MayClaim == ~claim /\ evidence = None

Claim(c) ==
    /\ cmd[c] = "locked"
    /\ IF MayClaim
       THEN claim' = TRUE /\ cmd' = [cmd EXCEPT ![c] = "running"] /\ UNCHANGED lock
       ELSE /\ cmd' = [cmd EXCEPT ![c] = "refused"]
            /\ lock' = [lock EXCEPT !["suite"] = Nobody]
            /\ UNCHANGED claim
    /\ UNCHANGED <<evidence, owned, arm, dir, tests, lost, faults, kills>>

(* Concurrent arms start together, a serial one when those before it ended  *)
(* well.                                                                    *)
MayStart(r) ==
    r[1] \in Serial => \A b \in 1 .. r[2] - 1 : arm[<<r[1], b>>].result = "completed"

(* An error after the manifest closes the directory with failure.json, one  *)
(* before it leaves no terminal file.                                       *)
Create(r) ==
    /\ Up(r) /\ arm[r].pc = "off" /\ MayStart(r)
    /\ \/ /\ dir' = [dir EXCEPT ![r].manifest = Unused]
          /\ Goto(r, "created") /\ UNCHANGED faults
       \/ /\ Fault
          /\ dir' = [dir EXCEPT ![r].manifest = Unused]
          /\ arm' = [arm EXCEPT ![r].pc = "failing", ![r].err = TRUE]
       \/ /\ Fault
          /\ arm' = [arm EXCEPT ![r].pc = "ended", ![r].result = "failed"]
          /\ UNCHANGED dir
    /\ UNCHANGED <<cmd, files, owned, tests, lost, kills>>

(***************************************************************************)
(* One arm against BOPTEST.                                                *)
(***************************************************************************)
OwnAnything(r, t) == TRUE                                                \* mutant
MayOwn(r, t) == r[1] \in Serial \/ t \notin owned[r[1]]

(* BOPTEST allots a fresh test, or by its own mistake hands out one that    *)
(* another arm of the suite holds.  A refused identity is not recorded, but *)
(* the client keeps it and the clean-up will stop it.                       *)
Select(r, t) ==
    /\ Up(r) /\ arm[r].pc = "created"
    /\ IF t = r THEN UNCHANGED faults
                ELSE t[1] = r[1] /\ Live(t) /\ Fault
    /\ tests' = IF t = r THEN [tests EXCEPT ![r].st = "queued"] ELSE tests
    /\ IF MayOwn(r, t)
       THEN /\ owned' = IF r[1] \in Concurrent THEN [owned EXCEPT ![r[1]] = @ \cup {t}] ELSE owned
            /\ dir' = [dir EXCEPT ![r].events = {"selected"}, ![r].ids = {t}]
            /\ arm' = [arm EXCEPT ![r].pc = "queued", ![r].test = t]
       ELSE /\ arm' = [arm EXCEPT ![r].pc = "closing", ![r].test = t, ![r].err = TRUE]
            /\ UNCHANGED <<owned, dir>>
    /\ UNCHANGED <<cmd, files, lost, kills>>

(* The request fails, with or without a test allotted behind it.            *)
SelectFails(r) ==
    /\ Up(r) /\ arm[r].pc = "created" /\ Fault
    /\ arm' = [arm EXCEPT ![r].pc = "failing", ![r].err = TRUE]
    /\ \/ tests' = [tests EXCEPT ![r].st = "queued"] /\ lost' = lost \cup {r}
       \/ UNCHANGED <<tests, lost>>
    /\ UNCHANGED <<cmd, files, owned, dir, kills>>

Admit(t) ==
    /\ tests[t].st = "queued"
    /\ Cardinality({u \in Runs : tests[u].st = "running"}) < Workers
    /\ tests' = [tests EXCEPT ![t].st = "running"]
    /\ UNCHANGED <<cmd, files, owned, arm, dir, lost, faults, kills>>

Answers(r) == tests[arm[r].test].st = "running"

(* _wait_until_running polls for as long as the test is queued.             *)
Poll(r) ==
    /\ Up(r) /\ arm[r].pc = "queued" /\ tests[arm[r].test].st = "queued"
    /\ UNCHANGED vars

Configure(r) ==
    /\ Up(r) /\ arm[r].pc = "queued" /\ Answers(r)
    /\ dir' = [dir EXCEPT ![r].events = @ \cup {"running", "configured"}]
    /\ Goto(r, "configured")
    /\ UNCHANGED <<cmd, files, owned, tests, lost, faults, kills>>

Initialize(r) ==
    /\ Up(r) /\ arm[r].pc = "configured" /\ Answers(r)
    /\ tests' = [tests EXCEPT ![arm[r].test] = [st |-> "running", clock |-> 0, by |-> <<>>]]
    /\ dir' = [dir EXCEPT ![r].events = @ \cup {"initialized", "evaluation_started"}]
    /\ arm' = [arm EXCEPT ![r].pc = "stepping", ![r].life.init = 1]
    /\ UNCHANGED <<cmd, files, owned, lost, faults, kills>>

(* require_time: the reply must carry the time of the next step.            *)
TimeFits(r) == tests[arm[r].test].clock = arm[r].life.adv

Advance(r) ==
    /\ Up(r) /\ arm[r].pc = "stepping" /\ arm[r].life.adv < Steps /\ Answers(r)
    /\ tests' = [tests EXCEPT ![arm[r].test].clock = @ + 1, ![arm[r].test].by = Append(@, r)]
    /\ IF TimeFits(r)
       THEN /\ dir' = [dir EXCEPT ![r].rows = @ + 1]
            /\ arm' = [arm EXCEPT ![r].life.adv = @ + 1]
       ELSE /\ arm' = [arm EXCEPT ![r].life.adv = @ + 1, ![r].pc = "closing", ![r].err = TRUE]
            /\ UNCHANGED dir
    /\ UNCHANGED <<cmd, files, owned, lost, faults, kills>>

(* The last row of the timeline and the native KPIs.                        *)
Complete(r) ==
    /\ Up(r) /\ arm[r].pc = "stepping" /\ arm[r].life.adv = Steps /\ Answers(r)
    /\ dir' = [dir EXCEPT ![r].events = @ \cup {"evaluation_completed"}]
    /\ Goto(r, "closing")
    /\ UNCHANGED <<cmd, files, owned, tests, lost, faults, kills>>

(* A request fails, or the test is gone because another arm stopped it.     *)
RequestFails(r) ==
    /\ Up(r) /\ arm[r].pc \in {"queued", "configured", "stepping"}
    /\ IF tests[arm[r].test].st = "stopped" THEN UNCHANGED faults ELSE Fault
    /\ arm' = [arm EXCEPT ![r].pc = "closing", ![r].err = TRUE]
    /\ UNCHANGED <<cmd, files, owned, dir, tests, lost, kills>>

(* The clean-up stops whatever test the client holds.                       *)
Stop(r) ==
    /\ Up(r) /\ arm[r].pc = "closing"
    /\ tests' = [tests EXCEPT ![arm[r].test].st = "stopped"]
    /\ dir' = [dir EXCEPT ![r].events = @ \cup {"stopped"}, ![r].ids = @ \cup {arm[r].test}]
    /\ arm' = [arm EXCEPT ![r].pc = IF arm[r].err THEN "failing" ELSE "verifying",
                          ![r].test = None, ![r].life.stop = 1]
    /\ UNCHANGED <<cmd, files, owned, lost, faults, kills>>

StopFails(r) ==
    /\ Up(r) /\ arm[r].pc = "closing"
    /\ IF Live(arm[r].test) THEN Fault ELSE UNCHANGED faults
    /\ arm' = [arm EXCEPT ![r].pc = "failing", ![r].err = TRUE]
    /\ \/ lost' = lost \cup {arm[r].test} /\ UNCHANGED tests
       \/ tests' = [tests EXCEPT ![arm[r].test].st = "stopped"] /\ UNCHANGED lost
    /\ UNCHANGED <<cmd, files, owned, dir, kills>>

(***************************************************************************)
(* How a directory ends.                                                   *)
(***************************************************************************)
(* _publish_finalized_failure: details, the final manifest, failure.json.   *)
PublishFailure(r) ==
    /\ Up(r) /\ arm[r].pc = "failing"
    /\ dir' = [dir EXCEPT ![r].manifest = arm[r].life, ![r].done = @ \cup {"failure"}]
    /\ arm' = [arm EXCEPT ![r].pc = "ended", ![r].result = "failed"]
    /\ UNCHANGED <<cmd, files, owned, tests, lost, faults, kills>>

Timeline == {"selected", "running", "configured", "initialized", "evaluation_started",
             "evaluation_completed", "stopped"}

(* verify_baseline_run: lifecycle counts, timeline, one test, every row.    *)
CountsExact(life) == life = [init |-> 1, adv |-> Steps, stop |-> 1]
Sound(r, life) ==
    /\ CountsExact(life) /\ Cardinality(dir[r].ids) = 1
    /\ dir[r].events = Timeline /\ dir[r].rows = Steps

(* The contract of the controller -- program, policy or MPC, recomputed     *)
(* from the recorded observations -- and the metrics may not hold.          *)
ContractFails == Fault

(* The manifest takes its counts and the evidence is verified.              *)
Verify(r) ==
    /\ Up(r) /\ arm[r].pc = "verifying"
    /\ \/ /\ Sound(r, arm[r].life)
          /\ dir' = [dir EXCEPT ![r].manifest = arm[r].life, ![r].eligible = TRUE]
          /\ Goto(r, "completing") /\ UNCHANGED faults
       \/ /\ IF Sound(r, arm[r].life) THEN ContractFails ELSE UNCHANGED faults
          /\ dir' = [dir EXCEPT ![r].manifest = arm[r].life]
          /\ arm' = [arm EXCEPT ![r].pc = "failing", ![r].err = TRUE]
    /\ UNCHANGED <<cmd, files, owned, tests, lost, kills>>

PublishCompletion(r) ==
    /\ Up(r) /\ arm[r].pc = "completing"
    /\ dir' = [dir EXCEPT ![r].done = @ \cup {"completion"}]
    /\ Goto(r, "published")
    /\ UNCHANGED <<cmd, files, owned, tests, lost, faults, kills>>

(* A second verification that fails leaves completion.json behind it.       *)
FinalVerify(r) ==
    /\ Up(r) /\ arm[r].pc = "published"
    /\ \/ /\ arm' = [arm EXCEPT ![r].pc = "ended", ![r].result = "completed"]
          /\ UNCHANGED faults
       \/ ContractFails /\ arm' = [arm EXCEPT ![r].pc = "ended", ![r].result = "failed"]
    /\ UNCHANGED <<cmd, files, owned, dir, tests, lost, kills>>

(***************************************************************************)
(* The command after its arms.                                             *)
(***************************************************************************)
AllEnded(c) == \A r \in Of(c) : arm[r].pc = "ended"
SomeFailed(c) == \E r \in Of(c) : arm[r].result = "failed"

(* A serial suite ends with its first failure.                              *)
EndSerial(c) ==
    /\ c \in Serial /\ cmd[c] = "running" /\ (AllEnded(c) \/ SomeFailed(c))
    /\ cmd' = [cmd EXCEPT ![c] = IF SomeFailed(c) THEN "failed" ELSE "ended"]
    /\ lock' = [lock EXCEPT !["serial"] = Nobody]
    /\ UNCHANGED <<claim, evidence, owned, arm, dir, tests, lost, faults, kills>>

(* The lock goes before the evidence is written.                            *)
Collect(c) ==
    /\ c \in Concurrent /\ cmd[c] = "running" /\ AllEnded(c)
    /\ cmd' = [cmd EXCEPT ![c] = "collected"]
    /\ lock' = [lock EXCEPT !["suite"] = Nobody]
    /\ UNCHANGED <<claim, evidence, owned, arm, dir, tests, lost, faults, kills>>

Row(r) == [class |-> arm[r].result, ids |-> dir[r].ids, failure |-> "failure" \in dir[r].done]

PublishEvidence(c) ==
    /\ cmd[c] = "collected"
    /\ evidence' = [by |-> c, rows |-> [a \in Arms |-> Row(<<c, a>>)]]
    /\ cmd' = [cmd EXCEPT ![c] = "bound"]
    /\ UNCHANGED <<lock, claim, owned, arm, dir, tests, lost, faults, kills>>

(* verify_concurrent_suite_evidence: every arm completed and still sound,   *)
(* each on a test of its own.                                               *)
ValidOnePresent(c) == \E a \in Arms : "completion" \in dir[<<c, a>>].done     \* mutant
Valid(c) ==
    /\ \A a \in Arms : /\ evidence.rows[a].class = "completed"
                       /\ "completion" \in dir[<<c, a>>].done /\ Sound(<<c, a>>, dir[<<c, a>>].manifest)
                       /\ evidence.rows[a].ids = dir[<<c, a>>].ids
    /\ \A a, b \in Arms : a # b => evidence.rows[a].ids # evidence.rows[b].ids

Unclaim(c) ==
    /\ cmd[c] = "bound"
    /\ claim' = FALSE
    /\ cmd' = [cmd EXCEPT ![c] = IF Valid(c) THEN "ended" ELSE "failed"]
    /\ UNCHANGED <<lock, evidence, owned, arm, dir, tests, lost, faults, kills>>

(* A killed command leaves its lock, its claim and its tests.               *)
Kill(c) ==
    /\ cmd[c] \in {"locked", "running", "collected", "bound"} /\ kills < MaxKills
    /\ kills' = kills + 1
    /\ cmd' = [cmd EXCEPT ![c] = "killed"]
    /\ lost' = lost \cup {t \in Of(c) : Live(t)}
    /\ UNCHANGED <<files, owned, arm, dir, tests, faults>>

(* "remove the stale lock manually only after confirming no run is active"  *)
ClearLock(k) ==
    /\ lock[k] # Nobody /\ cmd[lock[k]] = "killed"
    /\ lock' = [lock EXCEPT ![k] = Nobody]
    /\ UNCHANGED <<cmd, claim, evidence, owned, arm, dir, tests, lost, faults, kills>>

(* Every command has run its course.                                        *)
Quiet ==
    /\ \A c \in Commands : cmd[c] \in {"refused", "ended", "failed", "killed"}
    /\ UNCHANGED vars

RunNext(r) ==
    \/ Create(r) \/ SelectFails(r) \/ (\E t \in Runs : Select(r, t))
    \/ Poll(r) \/ Configure(r) \/ Initialize(r) \/ Advance(r) \/ Complete(r) \/ RequestFails(r)
    \/ Stop(r) \/ StopFails(r) \/ PublishFailure(r)
    \/ Verify(r) \/ PublishCompletion(r) \/ FinalVerify(r)
CommandNext(c) ==
    \/ TakeLock(c) \/ Claim(c) \/ EndSerial(c) \/ Collect(c) \/ PublishEvidence(c) \/ Unclaim(c)

Next ==
    \/ \E r \in Runs : RunNext(r) \/ Admit(r)
    \/ \E c \in Commands : CommandNext(c) \/ Kill(c)
    \/ \E k \in {"serial", "suite"} : ClearLock(k)
    \/ Quiet

Spec == Init /\ [][Next]_vars

-----------------------------------------------------------------------------
(* The arms of a concurrent suite identity are run by one command, ever:    *)
(* while it works its lock and claim, afterwards its evidence keep another  *)
(* command out, also in the window between the lock's release and the       *)
(* evidence file, and after a kill and a lock removed by hand.              *)
SuiteRunsOnce ==
    \A c, d \in Concurrent :
        (\E r \in Of(c), s \in Of(d) : arm[r].pc # "off" /\ arm[s].pc # "off") => c = d

(* completion.json is about one test that this run alone advanced, step by  *)
(* step, and that is stopped; no other arm of the suite completed on it.    *)
CompletionOwned ==
    \A r \in Runs : "completion" \in dir[r].done =>
        /\ \E t \in Runs : /\ dir[r].ids = {t} /\ tests[t].st = "stopped"
                           /\ tests[t].by = [i \in 1 .. Steps |-> r]
        /\ \A s \in Of(r[1]) \ {r} : "completion" \in dir[s].done => dir[s].ids # dir[r].ids

(* When a command returns, every arm it began has ended, a directory with a *)
(* manifest has exactly one terminal file, and BOPTEST runs none of its     *)
(* tests but those whose select or stop reply was lost.                     *)
Accounted ==
    \A c \in Commands : cmd[c] \in {"ended", "failed"} =>
        \A r \in Of(c) :
            /\ arm[r].pc \in {"off", "ended"}
            /\ dir[r].manifest # None => Cardinality(dir[r].done) = 1
            /\ Live(r) => r \in lost

(* The suite evidence says of every arm what its directory says, and a      *)
(* command reports success only over arms that all completed.               *)
EvidenceTruthful ==
    /\ evidence # None => \A a \in Arms : evidence.rows[a] = Row(<<evidence.by, a>>)
    /\ \A c \in Concurrent : cmd[c] = "ended" =>
           /\ evidence.by = c /\ ~claim
           /\ \A r \in Of(c) : dir[r].done = {"completion"} /\ arm[r].result = "completed"
=============================================================================
