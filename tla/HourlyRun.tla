----------------------------- MODULE HourlyRun -----------------------------
(***************************************************************************)
(* The hierarchical controller of the historical source (h3c): one process *)
(* holds the execution lock, drives one BOPTEST test for a number of hours *)
(* and asks a language model three times an hour.  Everything it does is   *)
(* appended to the streams of a run directory; after the last step the run *)
(* directory is verified from its streams alone before it may be published *)
(* as complete.  A run that a transport failure ends can be resumed from   *)
(* its last completed hour: a new run, with a new test, imports the answers*)
(* of the completed hours, replays their actions and goes on from there.   *)
(*                                                                         *)
(* Observations, prompts and powers are not modelled: a step records whose *)
(* digits its numbers are, a call whose answer it is and whether the answer*)
(* kept its contract, an allocation the answer it was taken from.          *)
(***************************************************************************)
EXTENDS Integers, Sequences, FiniteSets, SequencesExt

CONSTANTS
    ZoneSeq,        \* the zones of the profile, in its order
    Hours,          \* hours evaluated
    StepsPerHour,   \* control steps an hour, 4 in the code
    RetryLimit,     \* retries of one model request
    Changing,       \* bound: the zones whose executor ever proposes a change
    MaxVersion,     \* bound: versions of a program
    MaxFresh,       \* bound: run directories started from nothing
    MaxRuns,        \* bound: run directories
    MaxFaults       \* bound: events that are not nominal

ASSUME HourlyAssumption ==
    /\ Hours \in Nat \ {0} /\ StepsPerHour \in Nat \ {0}
    /\ RetryLimit \in Nat /\ MaxVersion \in Nat /\ MaxFresh \in Nat /\ MaxRuns \in Nat /\ MaxFaults \in Nat
    /\ ZoneSeq \in Seq(Range(ZoneSeq)) /\ ZoneSeq # << >> /\ IsInjective(ZoneSeq)
    /\ {"orchestrator", "reflector"} \cap Range(ZoneSeq) = {}
    /\ Changing \subseteq Range(ZoneSeq)

VARIABLES
    runs,       \* the run directories, in the order they were created
    proc,       \* the process: where it is and what it holds in memory
    lock,       \* .execution.lock exists
    live,       \* tests running or queued at the service
    faults      \* bound: events used up

vars == <<runs, proc, lock, live, faults>>

Zones == Range(ZoneSeq)
Total == Hours * StepsPerHour
HourOf(step) == step \div StepsPerHour
CallsPerHour == Len(ZoneSeq) + 2
Split == <<0, 0>>                       \* the equal split of the site cap
Unchanged == [z \in Zones |-> 0]        \* every program at its first version
NoCheckpoint == [next |-> 0, test |-> 0, versions |-> Unchanged]

(***************************************************************************)
(* A run directory.  A run's test carries the run's own number: each run   *)
(* selects a test of its own.                                              *)
(***************************************************************************)
NewRun(src, cut) ==
    [src |-> src, cut |-> cut, dispatch |-> "created", resume |-> << >>,
     lifecycle |-> << >>, retries |-> 0, fallbacks |-> 0, scanned |-> FALSE,
     calls |-> << >>, updates |-> << >>, steps |-> << >>, caol |-> << >>,
     decisions |-> << >>, ckpt |-> NoCheckpoint, end |-> "open"]

Idle == [pc |-> "idle", run |-> 0, step |-> 0, versions |-> Unchanged,
         prev |-> Split, fell |-> FALSE, fallbacks |-> 0, stopTried |-> FALSE,
         error |-> "none"]

Init ==
    /\ runs = << >>
    /\ proc = Idle
    /\ lock = FALSE
    /\ live = {}
    /\ faults = 0

Me == runs[proc.run]
Hour == HourOf(proc.step)
ReplayingButLast == proc.step + StepsPerHour < Me.cut      \* mutant
Replaying == proc.step < Me.cut
Source == runs[Me.src]

(* The rows whose positions are kept, in their order. *)
Rows(rows, kept) ==
    LET upto[i \in 0 .. Len(rows)] ==
            IF i = 0 THEN << >>
            ELSE IF i \in kept THEN Append(upto[i - 1], rows[i]) ELSE upto[i - 1]
    IN upto[Len(rows)]
BeforeHour(rows, h) == Rows(rows, { i \in DOMAIN rows : rows[i].hour < h })
OfHour(rows, h) == Rows(rows, { i \in DOMAIN rows : rows[i].hour = h })
Fault(n) == faults + n <= MaxFaults /\ faults' = faults + n

(* _call_ordinal *)
Ordinal(hour, who) ==
    hour * CallsPerHour +
        CASE who = "orchestrator" -> 0
          [] who = "reflector"    -> CallsPerHour - 1
          [] OTHER                -> CHOOSE i \in DOMAIN ZoneSeq : ZoneSeq[i] = who

(* One logical call: the attempts it took and, when the last one was        *)
(* answered, the call and raw rows.  good: the answer keeps its contract.   *)
Call(hour, who, tries, ok, good) ==
    [hour |-> hour, ord |-> Ordinal(hour, who), who |-> who, tries |-> tries,
     ok |-> ok, good |-> good, by |-> proc.run]
RetriesOf(calls) == FoldLeft(LAMBDA n, c : n + c.tries - 1, 0, calls)
(* The manifest's count is read back from the attempts on disk. *)
RetriesOfThisClient(calls) ==                                            \* mutant
    RetriesOf(Rows(calls, { i \in DOMAIN calls : calls[i].by = proc.run }))
RecordedRetries(calls) == RetriesOf(calls)

Answers == { c \in [tries : 1 .. RetryLimit + 1, ok : BOOLEAN, good : BOOLEAN] :
                c.good => c.ok }
CostOf(a) == (a.tries - 1) + (IF a.good THEN 0 ELSE 1)

(***************************************************************************)
(* What resume may start from: load_resume_prefix.                         *)
(***************************************************************************)
CkptHour(run) == run.ckpt.next \div StepsPerHour

(* The programs after the first n updates: the last one of each zone counts. *)
After(versions, updates, n) ==
    [z \in Zones |-> LET own == { i \in 1 .. n : updates[i].zone = z }
                     IN IF own = {} THEN versions[z] ELSE updates[Max(own)].after]

(* Each update starts from the program the ones before it left. *)
EndsAt(updates, versions) ==
    /\ \A i \in DOMAIN updates :
          updates[i].before = After(Unchanged, updates, i - 1)[updates[i].zone]
    /\ After(Unchanged, updates, Len(updates)) = versions

Eligible(run) ==
    /\ run.end = "terminal_transport_error"
    /\ run.scanned
    /\ run.ckpt # NoCheckpoint
    /\ run.ckpt.next < Total

(* At most one incomplete hour of steps lies after the checkpoint. *)
NoMoreThanAnHour(run) == Len(run.steps) < run.ckpt.next + StepsPerHour    \* mutant
OneHourBeyond(run) == Len(run.steps) <= run.ckpt.next + StepsPerHour

PrefixWhole(run) ==
    LET h == CkptHour(run)
        answered == { i \in DOMAIN run.calls : run.calls[i].hour < h /\ run.calls[i].ok }
    IN /\ run.ckpt.next <= Len(run.steps)
       /\ OneHourBeyond(run)
       /\ \A s \in 1 .. run.ckpt.next : run.steps[s].test = run.ckpt.test
       /\ Len(BeforeHour(run.updates, h)) = h * Len(ZoneSeq)
       /\ Len(BeforeHour(run.caol, h)) = h * Len(ZoneSeq)
       /\ [i \in 1 .. h |-> i - 1] =
              [i \in DOMAIN BeforeHour(run.decisions, h) |-> run.decisions[i].hour]
       /\ Cardinality(answered) = h * CallsPerHour
       /\ { run.calls[i].ord : i \in answered } = 0 .. h * CallsPerHour - 1
       /\ \A i \in DOMAIN run.calls : run.calls[i].hour < h => run.calls[i].ok
       /\ \A row \in Range(run.updates) \cup Range(run.decisions) \cup Range(run.caol) :
              row.hour <= h

ProgramsReplay(run) ==
    LET h == CkptHour(run)
    IN /\ EndsAt(BeforeHour(run.updates, h), run.ckpt.versions)
       /\ run.decisions[h].versions = run.ckpt.versions

Loadable(run) == Eligible(run) /\ PrefixWhole(run) /\ ProgramsReplay(run)

(* _prefix_identity: everything of the completed hours but the test id *)
PrefixIdentity(run, next) ==
    LET h == next \div StepsPerHour
    IN [steps |-> [s \in 1 .. next |-> [num |-> run.steps[s].num,
                                        versions |-> run.steps[s].versions]],
        updates |-> BeforeHour(run.updates, h),
        decisions |-> SubSeq(run.decisions, 1, h),
        caol |-> BeforeHour(run.caol, h),
        calls |-> BeforeHour(run.calls, h)]

(***************************************************************************)
(* Starting: the directory, the test, the evaluation boundary.             *)
(***************************************************************************)
Begin(src, cut) ==
    /\ proc.pc = "idle" /\ ~lock
    /\ Len(runs) < MaxRuns
    /\ runs' = Append(runs, NewRun(src, cut))
    /\ proc' = [Idle EXCEPT !.pc = "select", !.run = Len(runs) + 1]
    /\ lock' = TRUE
    /\ UNCHANGED <<live, faults>>

StartFresh ==
    /\ Cardinality({ r \in DOMAIN runs : runs[r].src = 0 }) < MaxFresh
    /\ Begin(0, 0)

(* The prefix is read, and checked, before the lock is taken. *)
StartResume ==
    \E src \in DOMAIN runs : Loadable(runs[src]) /\ Begin(src, runs[src].ckpt.next)

Select ==
    /\ proc.pc = "select"
    /\ live' = live \cup {proc.run}
    /\ runs' = [runs EXCEPT ![proc.run].dispatch = "selected"]
    /\ proc' = [proc EXCEPT !.pc = "queued"]
    /\ UNCHANGED <<lock, faults>>

(* status is asked until the service has taken the test off its queue, then *)
(* the test is initialised at the boundary.                                 *)
Initialize ==
    /\ proc.pc = "queued"
    /\ runs' = [runs EXCEPT ![proc.run].dispatch = "running",
                            ![proc.run].lifecycle = <<"initialized", "evaluation_started">>]
    /\ proc' = [proc EXCEPT !.pc = "import"]
    /\ UNCHANGED <<lock, live, faults>>

(* The answers of the completed hours are copied before the first step. *)
StartEvaluation ==
    /\ proc.pc = "import"
    /\ runs' = IF Me.src = 0 THEN runs
               ELSE [runs EXCEPT
                        ![proc.run].calls = BeforeHour(Source.calls, HourOf(Me.cut)),
                        ![proc.run].resume = <<"started">>]
    /\ proc' = [proc EXCEPT !.pc = "hour"]
    /\ UNCHANGED <<lock, live, faults>>

(***************************************************************************)
(* An hour that is asked: the orchestrator, all executors at once, then    *)
(* settlement of every proposal.                                           *)
(***************************************************************************)
(* An error ends the evaluation.  A failing transport records the retries  *)
(* of the attempts on disk.                                                *)
Broken(calls, error) ==
    /\ runs' = [runs EXCEPT ![proc.run].calls = @ \o calls,
                            ![proc.run].retries =
                                IF error = "terminal_transport_error"
                                    THEN RecordedRetries(Me.calls \o calls) ELSE @]
    /\ proc' = [proc EXCEPT !.pc = "failing", !.error = error]

Orchestrate ==
    /\ proc.pc = "hour" /\ ~Replaying
    /\ \E a \in Answers :
          LET call == Call(Hour, "orchestrator", a.tries, a.ok, a.good)
          IN /\ Fault(CostOf(a))
             /\ IF a.ok
                   THEN /\ runs' = [runs EXCEPT ![proc.run].calls = Append(@, call)]
                        /\ proc' = [proc EXCEPT
                               !.pc = "executors", !.fell = ~a.good,
                               !.prev = IF a.good THEN <<proc.run, Hour>> ELSE @,
                               !.fallbacks = IF a.good THEN @ ELSE @ + 1]
                   ELSE Broken(<<call>>, "terminal_transport_error")
    /\ UNCHANGED <<lock, live>>

(* The program of a zone after its proposal is settled: an accepted change  *)
(* commits the next version, anything else leaves the program alone.        *)
Settled(zone, good, changes) ==
    [hour |-> Hour, zone |-> zone, before |-> proc.versions[zone],
     after |-> IF good /\ changes THEN proc.versions[zone] + 1 ELSE proc.versions[zone],
     good |-> good]

BatchCost(answers) == FoldLeft(LAMBDA n, z : n + CostOf(answers[z]), 0, ZoneSeq)

(* All requests are issued before any proposal is settled: when one of them *)
(* fails in transport none is settled and nothing advances.                 *)
ExecutorBatch ==
    /\ proc.pc = "executors"
    /\ \E answers \in [Zones -> Answers], changed \in SUBSET Changing :
          LET calls == [i \in DOMAIN ZoneSeq |->
                           LET a == answers[ZoneSeq[i]]
                           IN Call(Hour, ZoneSeq[i], a.tries, a.ok, a.good)]
              updates == [i \in DOMAIN ZoneSeq |->
                             Settled(ZoneSeq[i], answers[ZoneSeq[i]].good, ZoneSeq[i] \in changed)]
          IN /\ \A z \in changed : answers[z].good /\ proc.versions[z] < MaxVersion
             /\ Fault(BatchCost(answers))
             /\ IF \A z \in Zones : answers[z].ok
                   THEN /\ runs' = [runs EXCEPT ![proc.run].calls = @ \o calls,
                                                ![proc.run].updates = @ \o updates]
                        /\ proc' = [proc EXCEPT !.pc = "step",
                               !.versions = [z \in Zones |->
                                   proc.versions[z] + (IF z \in changed THEN 1 ELSE 0)]]
                   ELSE changed = {} /\ Broken(calls, "terminal_transport_error")
    /\ UNCHANGED <<lock, live>>

RestoredAllocation(decision) == decision.alloc

(* A completed hour of the source is not asked again: its decisions are     *)
(* committed, and its allocation becomes the previous one.                  *)
ReplayHour ==
    /\ proc.pc = "hour" /\ Replaying
    /\ LET updates == OfHour(Source.updates, Hour)
           decision == Source.decisions[Hour + 1]
       IN /\ runs' = [runs EXCEPT ![proc.run].updates = @ \o updates]
          /\ proc' = [proc EXCEPT !.pc = "step",
                 !.versions = After(@, updates, Len(updates)),
                 !.prev = RestoredAllocation(decision),
                 !.fallbacks = IF decision.fallback THEN @ + 1 ELSE @]
    /\ UNCHANGED <<lock, live, faults>>

(***************************************************************************)
(* A control step.  A replayed step must give the numbers of the source,   *)
(* within a tolerance: "near" numbers pass here with other digits.         *)
(***************************************************************************)
Numbers == IF Replaying THEN {"same", "near", "far"} ELSE {"own"}

Advance ==
    /\ proc.pc = "step"
    /\ \E n \in Numbers \cup {"lost"} :
          LET row == [num |-> IF n = "same" THEN Source.steps[proc.step + 1].num ELSE proc.run,
                      versions |-> proc.versions, test |-> proc.run]
          IN /\ Fault(IF n \in {"same", "own"} THEN 0 ELSE 1)
             /\ CASE n = "far"  -> Broken(<< >>, "terminal_runtime_error")
                  [] n = "lost" -> Broken(<< >>, "terminal_transport_error")
                  [] OTHER ->
                       /\ runs' = [runs EXCEPT ![proc.run].steps = Append(@, row)]
                       /\ proc' = [proc EXCEPT
                             !.step = @ + 1,
                             !.pc = IF (proc.step + 1) % StepsPerHour = 0 THEN "hour_end" ELSE "step"]
    /\ UNCHANGED <<lock, live>>

(* What closes an hour is written in this order: working memory, the hour's *)
(* decision, the checkpoint.  Step has moved on: the hour is the last one.  *)
Closed(hour, rows, decision) ==
    [Me EXCEPT !.caol = @ \o rows, !.decisions = Append(@, decision),
               !.ckpt = [next |-> proc.step, test |-> proc.run, versions |-> proc.versions]]

AfterHour == IF proc.step = Total THEN "stop" ELSE "hour"

Reflect ==
    /\ proc.pc = "hour_end" /\ proc.step > Me.cut
    /\ \E a \in Answers :
          LET hour == HourOf(proc.step - 1)
              call == Call(hour, "reflector", a.tries, a.ok, a.good)
              memory == [i \in DOMAIN ZoneSeq |-> [hour |-> hour, zone |-> ZoneSeq[i], by |-> proc.run]]
              decision == [hour |-> hour, alloc |-> proc.prev, fallback |-> proc.fell,
                           versions |-> proc.versions]
          IN /\ Fault(CostOf(a))
             /\ IF a.ok
                   THEN /\ runs' = [runs EXCEPT ![proc.run] =
                               [Closed(hour, memory, decision) EXCEPT !.calls = Append(@, call)]]
                        /\ proc' = [proc EXCEPT !.pc = AfterHour]
                   ELSE Broken(<<call>>, "terminal_transport_error")
    /\ UNCHANGED <<lock, live>>

(* The evidence of a replayed hour is the source's own. *)
ReplayHourEnd ==
    /\ proc.pc = "hour_end" /\ proc.step <= Me.cut
    /\ LET hour == HourOf(proc.step - 1)
           last == proc.step = Me.cut
       IN IF last /\ proc.versions # Source.ckpt.versions
             THEN Broken(<< >>, "terminal_runtime_error")
             ELSE /\ runs' = [runs EXCEPT ![proc.run] =
                        [Closed(hour, OfHour(Source.caol, hour), Source.decisions[hour + 1])
                            EXCEPT !.resume = IF last THEN Append(@, "completed") ELSE @]]
                  /\ proc' = [proc EXCEPT !.pc = AfterHour]
    /\ UNCHANGED <<lock, live, faults>>

(***************************************************************************)
(* The end of a run.                                                       *)
(***************************************************************************)
(* The stop is marked as tried before it is sent: when it fails after the   *)
(* last step, the clean-up does not try again.                              *)
StopTest ==
    /\ proc.pc = "stop"
    /\ \/ /\ live' = live \ {proc.run}
          /\ runs' = [runs EXCEPT ![proc.run].lifecycle =
                             @ \o <<"evaluation_completed", "stopped">>,
                         ![proc.run].dispatch = "stopped",
                         ![proc.run].fallbacks = proc.fallbacks,
                         ![proc.run].retries = RecordedRetries(Me.calls),
                         ![proc.run].scanned = TRUE]
          /\ proc' = [proc EXCEPT !.pc = "verify", !.stopTried = TRUE]
          /\ UNCHANGED faults
       \/ /\ Fault(1)
          /\ runs' = [runs EXCEPT ![proc.run].lifecycle = Append(@, "evaluation_completed"),
                                  ![proc.run].retries = RecordedRetries(Me.calls)]
          /\ proc' = [proc EXCEPT !.pc = "failing", !.stopTried = TRUE,
                                  !.error = "terminal_transport_error"]
          /\ UNCHANGED live
    /\ UNCHANGED lock

(* verify_run, from the streams.  The groups of checks whose outcome depends *)
(* on what a run does:                                                      *)
(* one test, initialised and stopped at the boundaries of the evaluation *)
OneTest(run) ==
    /\ Cardinality({ row.test : row \in Range(run.steps) }) = 1
    /\ run.lifecycle = <<"initialized", "evaluation_started", "evaluation_completed", "stopped">>

(* the whole timeline, in order *)
TimelineWhole(run) ==
    /\ Len(run.steps) = Total
    /\ Len(run.decisions) = Hours
    /\ \A h \in 1 .. Hours : run.decisions[h].hour = h - 1

(* every program rebuilt from the accepted updates, once per hour and zone *)
UpdatesReplayed(run) ==
    /\ [i \in DOMAIN run.updates |-> <<run.updates[i].hour, run.updates[i].zone>>] =
          [i \in 1 .. Hours * Len(ZoneSeq) |->
              <<(i - 1) \div Len(ZoneSeq), ZoneSeq[1 + ((i - 1) % Len(ZoneSeq))]>>]
    /\ EndsAt(run.updates, run.decisions[Hours].versions)
    /\ \A h \in 1 .. Hours : \A s \in (h - 1) * StepsPerHour + 1 .. h * StepsPerHour :
          run.steps[s].versions = run.decisions[h].versions

(* each hour's allocation resolved again from the orchestrator's raw answer *)
RawOrchestrator(run, h) ==
    Rows(run.calls, { i \in DOMAIN run.calls :
                          LET c == run.calls[i]
                          IN c.ok /\ c.who = "orchestrator" /\ c.hour = h })
AllocationsResolved(run) ==
    \A h \in 1 .. Hours :
        LET raw == RawOrchestrator(run, h - 1)
        IN /\ Len(raw) = 1
           /\ run.decisions[h].fallback = ~raw[1].good
           /\ run.decisions[h].alloc =
                 IF raw[1].good THEN <<raw[1].by, h - 1>>
                 ELSE IF h = 1 THEN Split ELSE run.decisions[h - 1].alloc

(* one memory record for each hour and zone, with the lesson its hour's       *)
(* reflector gave                                                           *)
MemoryReplayed(run) ==
    /\ [i \in DOMAIN run.caol |-> <<run.caol[i].hour, run.caol[i].zone>>] =
          [i \in DOMAIN run.updates |-> <<run.updates[i].hour, run.updates[i].zone>>]
    /\ \A row \in Range(run.caol) : \E c \in Range(run.calls) :
          c.who = "reflector" /\ c.hour = row.hour /\ c.by = row.by

(* the calls are those the plan expects, in the order of their ordinals *)
CallsAligned(run) ==
    [i \in DOMAIN run.calls |-> run.calls[i].ord] = [i \in 1 .. Hours * CallsPerHour |-> i - 1]

(* every call answered, with the attempts the manifest counts *)
CallsAccounted(run) ==
    /\ \A c \in Range(run.calls) : c.ok /\ c.tries <= RetryLimit + 1
    /\ run.retries = RetriesOf(run.calls)

(* the manifest, the dispatch state and the last checkpoint *)
ManifestIdentity(run) ==
    /\ run.dispatch = "stopped" /\ run.scanned
    /\ run.ckpt.next = Total /\ run.ckpt.test = run.steps[1].test
    /\ run.ckpt.versions = run.decisions[Hours].versions

(* a resumed run still holds the prefix it was started from, to the digit *)
ResumeIntact(run) ==
    IF run.src = 0 THEN run.resume = << >>
    ELSE /\ run.resume = <<"started", "completed">>
         /\ run.src # run.ckpt.test
         /\ PrefixIdentity(run, run.cut) = PrefixIdentity(runs[run.src], run.cut)

CompletionEligible(run) ==
    /\ OneTest(run) /\ TimelineWhole(run) /\ UpdatesReplayed(run)
    /\ AllocationsResolved(run) /\ MemoryReplayed(run)
    /\ CallsAligned(run) /\ CallsAccounted(run) /\ ManifestIdentity(run) /\ ResumeIntact(run)

(* fallback_count_zero and role_contract_audit only degrade the label *)
ReleasePass(run) ==
    /\ run.fallbacks = 0
    /\ \A c \in Range(run.calls) : c.who \in {"orchestrator", "reflector"} => c.good

(* What the verifier asks of the calls of a failed run: they are issued in    *)
(* order up to the failed one, a failed executor batch was issued whole, and *)
(* nothing of its hour was settled or advanced.                             *)
FailedCallsAccounted(run) ==
    LET failed == { c \in Range(run.calls) : ~c.ok }
        batch == \E c \in failed : c.who \in Zones
    IN failed # {} =>
        /\ [i \in DOMAIN run.calls |-> run.calls[i].ord] =
              [i \in DOMAIN run.calls |-> i - 1]
        /\ run.retries = RetriesOf(run.calls)
        /\ ~batch => failed = {Last(run.calls)}
        /\ batch => /\ Last(run.calls).who = Last(ZoneSeq)
                    /\ \A c \in failed : c.hour = Last(run.calls).hour
                    /\ OfHour(run.updates, Last(run.calls).hour) = << >>
                    /\ Len(run.steps) = Last(run.calls).hour * StepsPerHour

Publish ==
    /\ proc.pc = "verify"
    /\ IF CompletionEligible(Me)
          THEN /\ runs' = [runs EXCEPT ![proc.run].end =
                      IF ReleasePass(Me) THEN "release_pass" ELSE "degraded"]
               /\ proc' = Idle
               /\ lock' = FALSE
          ELSE /\ proc' = [proc EXCEPT !.pc = "failing", !.error = "verification_failed"]
               /\ UNCHANGED <<runs, lock>>
    /\ UNCHANGED <<live, faults>>

(* The clean-up stops the test unless a stop was tried, the manifest is     *)
(* written in any case, and failure.json only when the stop did not raise.  *)
NeedsStop == ~proc.stopTried /\ proc.run \in live

FailUnlessStopTried ==                                      \* mutant
    /\ proc.pc = "failing" /\ NeedsStop
    /\ live' = live \ {proc.run}
    /\ runs' = [runs EXCEPT ![proc.run].scanned = TRUE, ![proc.run].end = proc.error]
    /\ proc' = Idle
    /\ lock' = FALSE
    /\ UNCHANGED faults

Fail ==
    /\ proc.pc = "failing"
    /\ \/ /\ live' = live \ (IF NeedsStop THEN {proc.run} ELSE {})
          /\ runs' = [runs EXCEPT ![proc.run].scanned = TRUE, ![proc.run].end = proc.error]
          /\ UNCHANGED faults
       \/ /\ NeedsStop
          /\ Fault(1)
          /\ runs' = [runs EXCEPT ![proc.run].scanned = TRUE, ![proc.run].end = "stop_raised"]
          /\ UNCHANGED live
    /\ proc' = Idle
    /\ lock' = FALSE

(* A physical request that fails before the first step. *)
SetupFails ==
    /\ proc.pc \in {"select", "queued", "import"}
    /\ Fault(1)
    /\ Broken(<< >>, "terminal_transport_error")
    /\ UNCHANGED <<lock, live>>

(* The process dies anywhere: the lock stays, and so does a test. *)
Kill ==
    /\ proc.pc # "idle"
    /\ Fault(1)
    /\ runs' = [runs EXCEPT ![proc.run].end = IF @ = "open" THEN "killed" ELSE @]
    /\ proc' = Idle
    /\ UNCHANGED <<lock, live>>

(* Somebody removes the lock after checking that nothing runs. *)
RemoveStaleLock ==
    /\ lock /\ proc.pc = "idle"
    /\ lock' = FALSE
    /\ UNCHANGED <<runs, proc, live, faults>>

RunStep ==
    \/ Select \/ Initialize \/ StartEvaluation
    \/ Orchestrate \/ ExecutorBatch \/ ReplayHour
    \/ Advance \/ Reflect \/ ReplayHourEnd
    \/ StopTest \/ Publish \/ Fail

Next == StartFresh \/ StartResume \/ RunStep \/ SetupFails \/ Kill \/ RemoveStaleLock

(* The service takes every test off its queue and every request returns. *)
Spec == Init /\ [][Next]_vars /\ WF_vars(RunStep)

-----------------------------------------------------------------------------

(***************************************************************************)
(* Properties                                                              *)
(***************************************************************************)
(* What the process keeps in memory and what its directory says agree: the  *)
(* programs are those of the updates on disk, the fallbacks counted are     *)
(* those of the decisions of all hours closed and of the one open.          *)
MemoryMatchesDisk ==
    proc.pc \in {"hour", "executors", "step", "hour_end", "stop"} =>
        /\ EndsAt(Me.updates, proc.versions)
        /\ proc.pc = "hour" =>
              proc.fallbacks = Cardinality({ h \in DOMAIN Me.decisions : Me.decisions[h].fallback })
        /\ proc.pc = "hour" /\ Me.decisions # << >> => proc.prev = Last(Me.decisions).alloc

(* A run whose evaluation finished and whose test was stopped is accepted by *)
(* the verifier: retries, contract rejections, fallbacks and a replayed      *)
(* prefix never make it invalid.  The one exception: numbers of the replay   *)
(* that were within the tolerance of the step comparison but not the same    *)
(* digits, which the prefix identity tells apart after all hours were asked. *)
FinishedRunAccepted ==
    \A r \in DOMAIN runs : runs[r].end = "verification_failed" =>
        \E s \in 1 .. runs[r].cut : runs[r].steps[s].num # runs[runs[r].src].steps[s].num

(* A transport failure after a completed hour leaves a run that resume      *)
(* takes, whichever request failed and at which point of the hour, unless   *)
(* every hour was already completed; and the calls that failed, in a resumed *)
(* run too, are those its verifier can account for.                         *)
TransportFailureResumes ==
    \A r \in DOMAIN runs :
        runs[r].end = "terminal_transport_error" /\ Len(runs[r].decisions) \in 1 .. Hours - 1
            => Loadable(runs[r]) /\ FailedCallsAccounted(runs[r])

(* No completed hour is paid for twice: every answered call of a run belongs *)
(* to an hour its source had not completed, and a published run holds one    *)
(* answer for each of its calls and, up to the digit, its source's prefix.   *)
HoursAskedOnce ==
    \A r \in DOMAIN runs :
        /\ \A c \in Range(runs[r].calls) : c.by = r => c.hour >= HourOf(runs[r].cut)
        /\ runs[r].end \in {"release_pass", "degraded"} =>
              /\ IsInjective([i \in DOMAIN runs[r].calls |-> runs[r].calls[i].ord])
              /\ runs[r].cut > 0 => PrefixIdentity(runs[r], runs[r].cut)
                                        = PrefixIdentity(runs[runs[r].src], runs[r].cut)

(* No test is left at the service but that of the running process and those  *)
(* of processes that died or whose stop failed.                              *)
NoTestLeft ==
    \A t \in live : \/ t = proc.run
                    \/ runs[t].end \in {"killed", "stop_raised"}
                    \/ runs[t].end = "terminal_transport_error" /\ runs[t].ckpt.next = Total

(* Every started run ends: published, failed or dead. *)
RunEnds == (proc.pc # "idle") ~> (proc.pc = "idle")

=============================================================================
