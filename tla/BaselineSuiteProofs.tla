-------------------------- MODULE BaselineSuiteProofs --------------------------
(***************************************************************************)
(* Proofs about what drives BOPTEST tests in h3c_baselines: about suites,   *)
(* for any commands, arms, steps and workers, and about one hierarchical    *)
(* MPC training, for any cases, lanes, threads, checkpoints and episodes,   *)
(* both for any faults and kills.                                           *)
(***************************************************************************)
EXTENDS BaselineSuite, MpcTraining, FiniteSetTheorems, TLAPS

(***************************************************************************)
(* Types.                                                                  *)
(***************************************************************************)
CmdType ==
    cmd \in [Commands -> {"idle", "locked", "running", "collected", "bound", "refused", "ended",
                          "failed", "killed"}]
ArmPcs == {"off", "created", "queued", "configured", "stepping", "closing", "failing",
           "verifying", "completing", "published", "ended"}
Lives == [init : Nat, adv : Nat, stop : Nat]
Results == {"none", "failed", "completed"}
Holdings == Runs \cup {None}
ArmStates == [pc : ArmPcs, test : Holdings, err : BOOLEAN, life : Lives, result : Results]
Manifests == Lives \cup {None}
Events == SUBSET Timeline
Ids == SUBSET Runs
Terminals == SUBSET {"completion", "failure"}
DirStates == [manifest : Manifests, events : Events, ids : Ids, rows : Nat, eligible : BOOLEAN,
              done : Terminals]
TestStates == [st : {"free", "queued", "running", "stopped"}, clock : Nat, by : Seq(Runs)]

RunsType ==
    /\ arm \in [Runs -> ArmStates]
    /\ dir \in [Runs -> DirStates]
    /\ tests \in [Runs -> TestStates]
OwnedType == owned \in [Concurrent -> SUBSET Runs]
TypeInv == CmdType /\ RunsType /\ OwnedType

LEMMA Kinds ==
    /\ \A c \in Concurrent : c \notin Serial /\ c \in Commands
    /\ \A c \in Serial : c \notin Concurrent /\ c \in Commands
  BY BaselineSuiteAssumption DEF Commands, BaselineSuiteAssumption

LEMMA OfCommand ==
    /\ \A c \in Commands : \A r \in Of(c) : r \in Runs /\ r[1] = c
    /\ \A r \in Runs : r[1] \in Commands /\ r[2] \in Arms /\ r = <<r[1], r[2]>> /\ r \in Of(r[1])
    /\ \A c \in Commands, a \in Arms : <<c, a>> \in Runs /\ <<c, a>> \in Of(c)
  BY DEF Of, Runs

LEMMA InitTypes == Init => TypeInv
<1> SUFFICES ASSUME Init
             PROVE  TypeInv
  OBVIOUS
<1>1. CmdType /\ OwnedType
  BY DEF Init, CmdType, OwnedType
<1>2. NoRun \in ArmStates
  BY DEF NoRun, ArmStates, ArmPcs, Unused, Lives, Results, Holdings
<1>3. NoDir \in DirStates
  BY DEF NoDir, DirStates, Manifests, Events, Ids, Terminals
<1>4. [st |-> "free", clock |-> 0, by |-> <<>>] \in TestStates
  BY DEF TestStates
<1> QED
  BY <1>1, <1>2, <1>3, <1>4 DEF Init, TypeInv, RunsType

(***************************************************************************)
(* The runs and their tests.                                               *)
(***************************************************************************)
Held == {"queued", "configured", "stepping", "closing"}

\* A run that may still complete, or did, has the identities of its directory to itself.
Uses(r) ==
    \/ arm[r].pc \in Held \cup {"verifying", "completing", "published"} /\ ~arm[r].err
    \/ "completion" \in dir[r].done

\* The one test of r is stopped, and its last episode is the Steps advances of r.
Alone(r) ==
    \E t \in Of(r[1]) : /\ dir[r].ids = {t} /\ tests[t].st = "stopped"
                        /\ tests[t].by = [i \in 1 .. Steps |-> r]

RunInv(r) ==
    /\ arm[r].pc \in {"off", "created"} => tests[r].st = "free"
    /\ arm[r].pc \in {"off", "created", "queued", "configured", "stepping", "verifying",
                     "completing", "published"} => ~arm[r].err
    /\ arm[r].pc \in {"off", "created", "queued", "configured"} => arm[r].life.adv = 0
    /\ arm[r].pc \in Held => arm[r].test \in Of(r[1]) /\ tests[arm[r].test].st # "free"
    /\ arm[r].pc \in Held /\ ~arm[r].err => dir[r].ids = {arm[r].test}
    /\ arm[r].pc \in {"stepping", "closing"} /\ ~arm[r].err =>
          tests[arm[r].test].by = [i \in 1 .. arm[r].life.adv |-> r]
    /\ arm[r].pc = "closing" /\ ~arm[r].err => arm[r].life.adv = Steps
    /\ arm[r].pc \in {"verifying", "completing", "published"} => Alone(r)
    /\ arm[r].pc \notin {"published", "ended"} => dir[r].done = {}
    /\ arm[r].pc = "published" => dir[r].done = {"completion"}
    /\ arm[r].result = "completed" => arm[r].pc = "ended" /\ dir[r].done = {"completion"}
    /\ "completion" \in dir[r].done => Alone(r)

RunsInv == \A r \in Runs : RunInv(r)
UniqueInv == \A r, s \in Runs : Uses(r) /\ Uses(s) /\ dir[r].ids = dir[s].ids => r = s
OwnedInv == \A r \in Runs : r[1] \in Concurrent /\ Uses(r) => dir[r].ids \subseteq owned[r[1]]
OrderInv ==
    \A r, s \in Runs : /\ r[1] = s[1] /\ r[1] \in Serial /\ r[2] < s[2] /\ arm[s].pc # "off"
                       => arm[r].result = "completed"

Inv == TypeInv /\ RunsInv /\ UniqueInv /\ OwnedInv /\ OrderInv

\* What a step of r leaves to the other runs.
Acts(r) ==
    /\ Up(r) /\ UNCHANGED files /\ UNCHANGED cmd
    /\ \A s \in Runs \ {r} : arm'[s] = arm[s] /\ dir'[s] = dir[s]
    /\ \A s \in Runs \ {r} : tests[s].st = "free" => tests'[s].st = "free"
    /\ \A t \in Runs : tests[t].st # "free" => tests'[t].st # "free"
    /\ \A t \in Runs : tests[t].st = "stopped" => tests'[t].st = "stopped"
    /\ \A t \in Runs : tests'[t].by # tests[t].by => Uses(r) /\ dir[r].ids = {t}
    /\ arm[r].pc # "off" => arm'[r].pc # "off"
    /\ arm[r].pc = "off" => MayStart(r)
    /\ arm[r].pc # "ended" /\ arm[r].result # "completed"

\* The identities of r are those it had, or those it just took for itself.
Takes(r) ==
    \/ UNCHANGED owned /\ (Uses(r)' => Uses(r) /\ dir'[r].ids = dir[r].ids)
    \/ \E t \in Of(r[1]) :
          /\ dir'[r].ids = {t} /\ arm[r].pc = "created"
          /\ t = r \/ tests[t].st # "stopped"
          /\ t = r => tests[t].st = "free"
          /\ r[1] \in Serial \/ t \notin owned[r[1]]
          /\ owned' = IF r[1] \in Concurrent THEN [owned EXCEPT ![r[1]] = @ \cup {t}] ELSE owned

Effect(r) == RunsType' /\ RunInv(r)' /\ Acts(r) /\ Takes(r)

LEMMA InitInv == Init => Inv
<1> SUFFICES ASSUME Init
             PROVE  Inv
  OBVIOUS
<1>1. \A r \in Runs : /\ arm[r].pc = "off" /\ arm[r].result = "none" /\ dir[r].done = {}
                      /\ tests[r].st = "free" /\ ~arm[r].err
                      /\ arm[r].life.adv = 0
  BY DEF Init, NoRun, NoDir, Unused
<1>2. \A r \in Runs : RunInv(r) /\ ~Uses(r)
  BY <1>1 DEF RunInv, Uses, Held
<1> QED
  BY <1>1, <1>2, InitTypes DEF Inv, RunsInv, UniqueInv, OwnedInv, OrderInv

\* Writes to directories and control states that are of their types.
LEMMA DirWrites ==
    ASSUME dir \in [Runs -> DirStates], NEW r \in Runs
    PROVE  /\ \A m \in Manifests :
                 [dir EXCEPT ![r].manifest = m] \in [Runs -> DirStates]
           /\ \A m \in Manifests :
                 [dir EXCEPT ![r].manifest = m, ![r].eligible = TRUE] \in [Runs -> DirStates]
           /\ \A m \in Manifests, D \in Terminals :
                 [dir EXCEPT ![r].manifest = m, ![r].done = @ \cup D] \in [Runs -> DirStates]
           /\ \A D \in Terminals :
                 [dir EXCEPT ![r].done = @ \cup D] \in [Runs -> DirStates]
           /\ \A E \in Events :
                 [dir EXCEPT ![r].events = @ \cup E] \in [Runs -> DirStates]
           /\ \A E \in Events, i \in Ids :
                 [dir EXCEPT ![r].events = E, ![r].ids = i] \in [Runs -> DirStates]
           /\ \A E \in Events, i \in Ids :
                 [dir EXCEPT ![r].events = @ \cup E, ![r].ids = @ \cup i] \in [Runs -> DirStates]
           /\ [dir EXCEPT ![r].rows = @ + 1] \in [Runs -> DirStates]
<1>0. /\ \A D, E \in Terminals : D \cup E \in Terminals
      /\ \A D, E \in Events : D \cup E \in Events
      /\ \A D, E \in Ids : D \cup E \in Ids
  BY DEF Terminals, Events, Ids
<1>1. \A m \in Manifests :
        [dir EXCEPT ![r].manifest = m] \in [Runs -> DirStates]
  BY <1>0 DEF DirStates
<1>2. \A m \in Manifests :
        [dir EXCEPT ![r].manifest = m, ![r].eligible = TRUE] \in [Runs -> DirStates]
  BY <1>0 DEF DirStates
<1>3. \A m \in Manifests, D \in Terminals :
        [dir EXCEPT ![r].manifest = m, ![r].done = @ \cup D] \in [Runs -> DirStates]
  BY <1>0 DEF DirStates
<1>4. \A D \in Terminals :
        [dir EXCEPT ![r].done = @ \cup D] \in [Runs -> DirStates]
  BY <1>0 DEF DirStates
<1>5. \A E \in Events :
        [dir EXCEPT ![r].events = @ \cup E] \in [Runs -> DirStates]
  BY <1>0 DEF DirStates
<1>6. \A E \in Events, i \in Ids :
        [dir EXCEPT ![r].events = E, ![r].ids = i] \in [Runs -> DirStates]
  BY <1>0 DEF DirStates
<1>7. \A E \in Events, i \in Ids :
        [dir EXCEPT ![r].events = @ \cup E, ![r].ids = @ \cup i] \in [Runs -> DirStates]
  BY <1>0 DEF DirStates
<1>8. [dir EXCEPT ![r].rows = @ + 1] \in [Runs -> DirStates]
  BY <1>0 DEF DirStates
<1> QED
  BY <1>1, <1>2, <1>3, <1>4, <1>5, <1>6, <1>7, <1>8

LEMMA ArmWrites ==
    ASSUME arm \in [Runs -> ArmStates], NEW r \in Runs
    PROVE  /\ \A p \in ArmPcs :
                 [arm EXCEPT ![r].pc = p] \in [Runs -> ArmStates]
           /\ \A p \in ArmPcs :
                 [arm EXCEPT ![r].pc = p, ![r].err = TRUE] \in [Runs -> ArmStates]
           /\ \A p \in ArmPcs, o \in Results :
                 [arm EXCEPT ![r].pc = p, ![r].result = o] \in [Runs -> ArmStates]
           /\ \A p \in ArmPcs, t \in Holdings :
                 [arm EXCEPT ![r].pc = p, ![r].test = t] \in [Runs -> ArmStates]
           /\ \A p \in ArmPcs, t \in Holdings :
                 [arm EXCEPT ![r].pc = p, ![r].test = t, ![r].err = TRUE] \in [Runs -> ArmStates]
           /\ \A p \in ArmPcs :
                 [arm EXCEPT ![r].pc = p, ![r].life.init = 1] \in [Runs -> ArmStates]
           /\ \A p \in ArmPcs, t \in Holdings :
                 [arm EXCEPT ![r].pc = p, ![r].test = t, ![r].life.stop = 1] \in [Runs -> ArmStates]
           /\ [arm EXCEPT ![r].life.adv = @ + 1] \in [Runs -> ArmStates]
           /\ \A p \in ArmPcs :
                 [arm EXCEPT ![r].life.adv = @ + 1, ![r].pc = p, ![r].err = TRUE] \in [Runs -> ArmStates]
<1>0. \A l \in Lives : [l EXCEPT !.init = 1] \in Lives
  BY DEF Lives
<1>10. \A l \in Lives : [l EXCEPT !.stop = 1] \in Lives
  BY DEF Lives
<1>11. \A l \in Lives : [l EXCEPT !.adv = @ + 1] \in Lives
  BY DEF Lives
<1>1. \A p \in ArmPcs :
        [arm EXCEPT ![r].pc = p] \in [Runs -> ArmStates]
  BY DEF ArmStates
<1>2. \A p \in ArmPcs :
        [arm EXCEPT ![r].pc = p, ![r].err = TRUE] \in [Runs -> ArmStates]
  BY DEF ArmStates
<1>3. \A p \in ArmPcs, o \in Results :
        [arm EXCEPT ![r].pc = p, ![r].result = o] \in [Runs -> ArmStates]
  BY DEF ArmStates
<1>4. \A p \in ArmPcs, t \in Holdings :
        [arm EXCEPT ![r].pc = p, ![r].test = t] \in [Runs -> ArmStates]
  BY DEF ArmStates
<1>5. \A p \in ArmPcs, t \in Holdings :
        [arm EXCEPT ![r].pc = p, ![r].test = t, ![r].err = TRUE] \in [Runs -> ArmStates]
  BY DEF ArmStates
<1>6. \A p \in ArmPcs :
        [arm EXCEPT ![r].pc = p, ![r].life.init = 1] \in [Runs -> ArmStates]
  BY <1>0 DEF ArmStates
<1>7. ASSUME NEW p \in ArmPcs, NEW t \in Holdings
      PROVE  [arm EXCEPT ![r].pc = p, ![r].test = t, ![r].life.stop = 1] \in [Runs -> ArmStates]
  <2>1. [arm[r].life EXCEPT !.stop = 1] \in Lives
    BY <1>10 DEF ArmStates
  <2> DEFINE x == [arm[r] EXCEPT !.pc = p, !.test = t, !.life = [arm[r].life EXCEPT !.stop = 1]]
  <2>2. x \in ArmStates
    BY <2>1 DEF ArmStates
  <2>3. [arm EXCEPT ![r].pc = p, ![r].test = t, ![r].life.stop = 1] = [arm EXCEPT ![r] = x]
    BY DEF ArmStates
  <2> QED
    BY <2>2, <2>3
<1>8. [arm EXCEPT ![r].life.adv = @ + 1] \in [Runs -> ArmStates]
  BY <1>11 DEF ArmStates
<1>9. \A p \in ArmPcs :
        [arm EXCEPT ![r].life.adv = @ + 1, ![r].pc = p, ![r].err = TRUE] \in [Runs -> ArmStates]
  BY <1>11 DEF ArmStates
<1> QED
  BY <1>1, <1>2, <1>3, <1>4, <1>5, <1>6, <1>7, <1>8, <1>9

\* What uses its identities has exactly one, of its command, that was allotted.
LEMMA UsesOne ==
    ASSUME NEW r \in Runs, RunInv(r), Uses(r)
    PROVE  /\ arm[r].pc # "off"
           /\ \E t \in Of(r[1]) : /\ dir[r].ids = {t} /\ tests[t].st # "free"
                                  /\ arm[r].pc \notin Held => tests[t].st = "stopped"
<1>1. CASE arm[r].pc \in Held /\ ~arm[r].err
  BY <1>1 DEF RunInv, Held
<1>2. CASE arm[r].pc \in {"verifying", "completing", "published"}
  BY <1>2 DEF RunInv, Alone
<1>3. CASE "completion" \in dir[r].done
  BY <1>3 DEF RunInv, Alone, Held
<1> QED
  BY <1>1, <1>2, <1>3 DEF Uses

LEMMA CreateEffect ==
    ASSUME Inv, NEW r \in Runs, Create(r)
    PROVE  Effect(r)
<1>1. arm[r].pc = "off" /\ MayStart(r) /\ Up(r) /\ UNCHANGED <<cmd, files, owned, tests>>
  BY DEF Create
<1>2. RunInv(r) /\ arm[r].result # "completed" /\ dir[r].done = {}
  BY <1>1 DEF Inv, RunsInv, RunInv
<1>3. \A s \in Runs \ {r} : arm'[s] = arm[s] /\ dir'[s] = dir[s]
  BY DEF Create, Goto, Inv, TypeInv, RunsType
<1>4. dir'[r].done = {}
  BY <1>2 DEF Create, Inv, TypeInv, RunsType, DirStates
<1>5. Unused \in Lives
  BY DEF Unused, Lives
<1>6. RunsType'
  <2>1. arm' \in [Runs -> ArmStates]
    <3>1. \/ arm' = [arm EXCEPT ![r].pc = "created"]
          \/ arm' = [arm EXCEPT ![r].pc = "failing", ![r].err = TRUE]
          \/ arm' = [arm EXCEPT ![r].pc = "ended", ![r].result = "failed"]
      BY DEF Create, Goto
    <3>2. {"created", "failing", "ended"} \subseteq ArmPcs /\ "failed" \in Results
      BY DEF ArmPcs, Results
    <3>3. arm \in [Runs -> ArmStates]
      BY DEF Inv, TypeInv, RunsType
    <3>4. /\ [arm EXCEPT ![r].pc = "created"] \in [Runs -> ArmStates]
          /\ [arm EXCEPT ![r].pc = "failing", ![r].err = TRUE] \in [Runs -> ArmStates]
          /\ [arm EXCEPT ![r].pc = "ended", ![r].result = "failed"] \in [Runs -> ArmStates]
      BY <3>2, <3>3, ArmWrites
    <3> QED
      BY <3>1, <3>4
  <2>2. dir' \in [Runs -> DirStates]
    <3>1. dir' = dir \/ dir' = [dir EXCEPT ![r].manifest = Unused]
      BY DEF Create
    <3>2. Unused \in Manifests /\ dir \in [Runs -> DirStates]
      BY <1>5 DEF Manifests, Inv, TypeInv, RunsType
    <3>3. [dir EXCEPT ![r].manifest = Unused] \in [Runs -> DirStates]
      BY <3>2, DirWrites
    <3> QED
      BY <3>1, <3>2, <3>3
  <2> QED
    BY <1>1, <2>1, <2>2 DEF Inv, TypeInv, RunsType
<1>7. /\ arm'[r].pc \in {"created", "failing", "ended"} /\ arm'[r].result # "completed"
      /\ arm'[r].pc = "created" => arm'[r].err = arm[r].err
      /\ arm'[r].life = arm[r].life
  BY <1>2 DEF Create, Goto, Inv, TypeInv, RunsType, ArmStates
<1>8. Acts(r)
  BY <1>1, <1>2, <1>3, <1>7 DEF Acts, files
<1>9. Takes(r)
  BY <1>1, <1>4, <1>7 DEF Takes, Uses, Held
<1>10. RunInv(r)'
  BY <1>1, <1>2, <1>4, <1>7 DEF RunInv, Held
<1> QED
  BY <1>6, <1>8, <1>9, <1>10 DEF Effect

LEMMA SelectFailsEffect ==
    ASSUME Inv, NEW r \in Runs, SelectFails(r)
    PROVE  Effect(r)
<1>1. arm[r].pc = "created" /\ Up(r) /\ UNCHANGED <<cmd, files, owned, dir>>
  BY DEF SelectFails
<1>2. RunInv(r) /\ arm[r].result # "completed" /\ dir[r].done = {} /\ tests[r].st = "free"
  BY <1>1 DEF Inv, RunsInv, RunInv
<1>3. \A s \in Runs \ {r} : arm'[s] = arm[s] /\ tests'[s] = tests[s]
  BY DEF SelectFails, Inv, TypeInv, RunsType
<1>4. arm'[r].pc = "failing" /\ arm'[r].result = arm[r].result
  BY DEF SelectFails, Inv, TypeInv, RunsType, ArmStates
<1>5. tests'[r].by = tests[r].by
  BY DEF SelectFails, Inv, TypeInv, RunsType, TestStates
<1>6. RunsType'
  <2>1. arm' \in [Runs -> ArmStates]
    BY ArmWrites DEF SelectFails, Inv, TypeInv, RunsType, ArmPcs
  <2>2. tests' \in [Runs -> TestStates]
    BY DEF SelectFails, Inv, TypeInv, RunsType, TestStates
  <2> QED
    BY <1>1, <2>1, <2>2 DEF Inv, TypeInv, RunsType
<1>7. Acts(r)
  BY <1>1, <1>2, <1>3, <1>4, <1>5 DEF Acts, files
<1>8. Takes(r)
  BY <1>1, <1>2, <1>4 DEF Takes, Uses, Held
<1>9. RunInv(r)'
  BY <1>1, <1>2, <1>4 DEF RunInv, Held
<1> QED
  BY <1>6, <1>7, <1>8, <1>9 DEF Effect

LEMMA SelectEffect ==
    ASSUME Inv, NEW r \in Runs, NEW t \in Runs, Select(r, t)
    PROVE  Effect(r)
<1>1. arm[r].pc = "created" /\ Up(r) /\ UNCHANGED <<cmd, files>>
  BY DEF Select
<1>2. RunInv(r) /\ arm[r].result # "completed" /\ dir[r].done = {} /\ tests[r].st = "free"
  BY <1>1 DEF Inv, RunsInv, RunInv
<1>3. t \in Of(r[1]) /\ (t = r \/ tests[t].st \in {"queued", "running"})
  BY OfCommand DEF Select, Live, Of, Runs
<1>4. \A u \in Runs : /\ tests'[u].by = tests[u].by
                      /\ tests'[u].st = IF u = r /\ t = r THEN "queued" ELSE tests[u].st
  BY DEF Select, Inv, TypeInv, RunsType, TestStates
<1>5. tests'[t].st # "free"
  BY <1>3, <1>4
<1>6. \A s \in Runs \ {r} : arm'[s] = arm[s] /\ dir'[s] = dir[s]
  BY DEF Select, Inv, TypeInv, RunsType
<1>7. tests' \in [Runs -> TestStates]
  <2>1. tests' = tests \/ tests' = [tests EXCEPT ![r].st = "queued"]
    BY DEF Select
  <2>2. tests \in [Runs -> TestStates]
    BY DEF Inv, TypeInv, RunsType
  <2>3. [tests EXCEPT ![r].st = "queued"] \in [Runs -> TestStates]
    BY <2>2 DEF TestStates
  <2> QED
    BY <2>1, <2>2, <2>3
<1>8. arm'[r].test = t /\ arm'[r].result = arm[r].result /\ dir'[r].done = {}
      /\ arm'[r].life = arm[r].life
  BY <1>2 DEF Select, Inv, TypeInv, RunsType, ArmStates, DirStates
<1>9. arm' \in [Runs -> ArmStates]
  <2>1. \/ arm' = [arm EXCEPT ![r].pc = "queued", ![r].test = t]
        \/ arm' = [arm EXCEPT ![r].pc = "closing", ![r].test = t, ![r].err = TRUE]
    BY DEF Select
  <2>2. {"queued", "closing"} \subseteq ArmPcs /\ t \in Holdings /\ arm \in [Runs -> ArmStates]
    BY DEF ArmPcs, Holdings, Inv, TypeInv, RunsType
  <2>3. /\ [arm EXCEPT ![r].pc = "queued", ![r].test = t] \in [Runs -> ArmStates]
        /\ [arm EXCEPT ![r].pc = "closing", ![r].test = t, ![r].err = TRUE] \in [Runs -> ArmStates]
    BY <2>2, ArmWrites
  <2> QED
    BY <2>1, <2>3
<1>10. dir' \in [Runs -> DirStates]
  <2>1. dir' = dir \/ dir' = [dir EXCEPT ![r].events = {"selected"}, ![r].ids = {t}]
    BY DEF Select
  <2>2. {"selected"} \in Events /\ {t} \in Ids /\ dir \in [Runs -> DirStates]
    BY DEF Timeline, Events, Ids, Inv, TypeInv, RunsType
  <2>3. [dir EXCEPT ![r].events = {"selected"}, ![r].ids = {t}] \in [Runs -> DirStates]
    BY <2>2, DirWrites
  <2> QED
    BY <2>1, <2>2, <2>3
<1>11. RunsType'
  BY <1>7, <1>9, <1>10 DEF RunsType
<1>12. CASE MayOwn(r, t)
  <2>1. /\ arm'[r].pc = "queued" /\ arm'[r].err = arm[r].err /\ dir'[r].ids = {t}
        /\ owned' = IF r[1] \in Concurrent THEN [owned EXCEPT ![r[1]] = @ \cup {t}] ELSE owned
    BY <1>12 DEF Select, Inv, TypeInv, RunsType, ArmStates, DirStates
  <2>2. Acts(r)
    BY <1>1, <1>2, <1>4, <1>6, <1>8, <2>1 DEF Acts, files
  <2>3. Takes(r)
    BY <1>1, <1>2, <1>3, <1>12, <2>1 DEF Takes, MayOwn
  <2>4. ~arm[r].err
    BY <1>1, <1>2 DEF RunInv
  <2>5. RunInv(r)'
    BY <1>1, <1>2, <1>3, <1>5, <1>8, <2>1, <2>4 DEF RunInv, Held
  <2> QED
    BY <1>11, <2>2, <2>3, <2>5 DEF Effect
<1>13. CASE ~MayOwn(r, t)
  <2>1. arm'[r].pc = "closing" /\ arm'[r].err = TRUE /\ UNCHANGED <<owned, dir>>
    BY <1>13 DEF Select, Inv, TypeInv, RunsType, ArmStates
  <2>2. Acts(r)
    BY <1>1, <1>2, <1>4, <1>6, <1>8, <2>1 DEF Acts, files
  <2>3. Takes(r)
    BY <1>2, <1>8, <2>1 DEF Takes, Uses
  <2>4. RunInv(r)'
    BY <1>2, <1>3, <1>5, <1>8, <2>1 DEF RunInv, Held
  <2> QED
    BY <1>11, <2>2, <2>3, <2>4 DEF Effect
<1> QED
  BY <1>12, <1>13

\* A run between the selection and the clean-up of its test.
LEMMA HoldsOne ==
    ASSUME Inv, NEW r \in Runs, arm[r].pc \in Held
    PROVE  /\ RunInv(r) /\ arm[r].test \in Of(r[1]) /\ arm[r].test \in Runs
           /\ tests[arm[r].test].st # "free" /\ dir[r].done = {} /\ arm[r].result # "completed"
           /\ ~arm[r].err => Uses(r) /\ dir[r].ids = {arm[r].test}
<1>1. RunInv(r) /\ arm[r].pc \notin {"published", "ended"}
  BY DEF Inv, RunsInv, Held
<1>2. arm[r].test \in Of(r[1]) /\ tests[arm[r].test].st # "free" /\ dir[r].done = {}
      /\ arm[r].result # "completed" /\ (~arm[r].err => dir[r].ids = {arm[r].test})
  BY <1>1 DEF RunInv
<1>3. arm[r].test \in Runs
  BY <1>2, OfCommand
<1> QED
  BY <1>1, <1>2, <1>3 DEF Uses

LEMMA ConfigureEffect ==
    ASSUME Inv, NEW r \in Runs, Configure(r)
    PROVE  Effect(r)
<1>1. arm[r].pc = "queued" /\ Up(r) /\ UNCHANGED <<cmd, files, owned, tests>>
  BY DEF Configure
<1>2. /\ RunInv(r) /\ ~arm[r].err /\ dir[r].done = {} /\ arm[r].result # "completed"
      /\ dir[r].ids = {arm[r].test} /\ arm[r].test \in Of(r[1])
      /\ tests[arm[r].test].st # "free" /\ Uses(r)
  BY <1>1, HoldsOne DEF RunInv, Held
<1>3. \A s \in Runs \ {r} : arm'[s] = arm[s] /\ dir'[s] = dir[s]
  BY DEF Configure, Goto, Inv, TypeInv, RunsType
<1>4. /\ arm'[r].pc = "configured" /\ arm'[r].test = arm[r].test /\ arm'[r].err = arm[r].err
      /\ arm'[r].result = arm[r].result /\ arm'[r].life = arm[r].life
      /\ dir'[r].ids = dir[r].ids /\ dir'[r].done = dir[r].done
  BY DEF Configure, Goto, Inv, TypeInv, RunsType, ArmStates, DirStates
<1>5. RunsType'
  <2>1. "configured" \in ArmPcs /\ {"running", "configured"} \in Events
    BY DEF ArmPcs, Events, Timeline
  <2>2. /\ [arm EXCEPT ![r].pc = "configured"] \in [Runs -> ArmStates]
        /\ [dir EXCEPT ![r].events = @ \cup {"running", "configured"}] \in [Runs -> DirStates]
    BY <2>1, ArmWrites, DirWrites DEF Inv, TypeInv, RunsType
  <2> QED
    BY <1>1, <2>2 DEF Configure, Goto, Inv, TypeInv, RunsType
<1>6. Acts(r)
  BY <1>1, <1>2, <1>3, <1>4 DEF Acts, files
<1>7. Takes(r)
  BY <1>1, <1>2, <1>4 DEF Takes
<1>8. RunInv(r)'
  BY <1>1, <1>2, <1>4 DEF RunInv, Held
<1> QED
  BY <1>5, <1>6, <1>7, <1>8 DEF Effect

\* Sequences of one run's advances.
LEMMA Repeated ==
    ASSUME NEW r, NEW n \in Nat
    PROVE  /\ [s \in 1 .. 0 |-> r] = <<>>
           /\ Append([s \in 1 .. n |-> r], r) = [s \in 1 .. n + 1 |-> r]
<1>1. [s \in 1 .. 0 |-> r] = <<>>
  OBVIOUS
<1>2. [s \in 1 .. n |-> r] \in Seq({r}) /\ Len([s \in 1 .. n |-> r]) = n
  OBVIOUS
<1>3. Append([s \in 1 .. n |-> r], r) = [s \in 1 .. n + 1 |-> r]
  BY <1>2
<1> QED
  BY <1>1, <1>3

LEMMA InitializeEffect ==
    ASSUME Inv, NEW r \in Runs, Initialize(r)
    PROVE  Effect(r)
<1> DEFINE t == arm[r].test
           fresh == [st |-> "running", clock |-> 0, by |-> <<>>]
           E == {"initialized", "evaluation_started"}
<1>1. arm[r].pc = "configured" /\ Up(r) /\ UNCHANGED <<cmd, files, owned>> /\ tests[t].st = "running"
  BY DEF Initialize, Answers
<1>2. /\ RunInv(r) /\ ~arm[r].err /\ dir[r].done = {} /\ arm[r].result # "completed"
      /\ dir[r].ids = {t} /\ t \in Of(r[1]) /\ t \in Runs /\ Uses(r) /\ arm[r].life.adv = 0
  BY <1>1, HoldsOne DEF RunInv, Held
<1>3. \A s \in Runs \ {r} : arm'[s] = arm[s] /\ dir'[s] = dir[s]
  BY DEF Initialize, Inv, TypeInv, RunsType
<1>4. /\ arm'[r].pc = "stepping" /\ arm'[r].test = t /\ arm'[r].err = arm[r].err
      /\ arm'[r].result = arm[r].result
      /\ dir'[r].ids = dir[r].ids /\ dir'[r].done = dir[r].done
  BY DEF Initialize, Inv, TypeInv, RunsType, ArmStates, DirStates
<1>5. \A u \in Runs : tests'[u] = IF u = t THEN fresh ELSE tests[u]
  BY <1>2 DEF Initialize, Inv, TypeInv, RunsType
<1>6. RunsType'
  <2>1. "stepping" \in ArmPcs /\ E \in Events
    BY DEF ArmPcs, Events, Timeline
  <2>2. /\ [arm EXCEPT ![r].pc = "stepping", ![r].life.init = 1] \in [Runs -> ArmStates]
        /\ [dir EXCEPT ![r].events = @ \cup E] \in [Runs -> DirStates]
    BY <2>1, ArmWrites, DirWrites DEF Inv, TypeInv, RunsType
  <2>3. fresh \in TestStates
    BY DEF TestStates
  <2> QED
    BY <1>2, <2>2, <2>3 DEF Initialize, Inv, TypeInv, RunsType
<1>7. Acts(r)
  BY <1>1, <1>2, <1>3, <1>4, <1>5 DEF Acts, files
<1>8. Takes(r)
  BY <1>1, <1>2, <1>4 DEF Takes
<1>9. tests'[t].by = [i \in 1 .. arm'[r].life.adv |-> r]
  <2>1. arm'[r].life.adv = 0
    BY <1>2 DEF Initialize, Inv, TypeInv, RunsType, ArmStates, Lives
  <2> QED
    BY <1>2, <1>5, <2>1, Repeated
<1>10. RunInv(r)'
  BY <1>1, <1>2, <1>4, <1>5, <1>9 DEF RunInv, Held
<1> QED
  BY <1>6, <1>7, <1>8, <1>10 DEF Effect

\* A step that only moves r on with the test it holds.
LEMMA RequestFailsEffect ==
    ASSUME Inv, NEW r \in Runs, RequestFails(r)
    PROVE  Effect(r)
<1>1. /\ arm[r].pc \in {"queued", "configured", "stepping"} /\ Up(r)
      /\ UNCHANGED <<cmd, files, owned, dir, tests>>
      /\ arm' = [arm EXCEPT ![r].pc = "closing", ![r].err = TRUE]
  BY DEF RequestFails
<1>2. /\ RunInv(r) /\ dir[r].done = {} /\ arm[r].result # "completed"
      /\ arm[r].test \in Of(r[1]) /\ tests[arm[r].test].st # "free"
  BY <1>1, HoldsOne DEF Held
<1>3. \A s \in Runs \ {r} : arm'[s] = arm[s]
  BY <1>1 DEF Inv, TypeInv, RunsType
<1>4. /\ arm'[r].pc = "closing" /\ arm'[r].test = arm[r].test /\ arm'[r].err = TRUE
      /\ arm'[r].result = arm[r].result
  BY <1>1 DEF Inv, TypeInv, RunsType, ArmStates
<1>5. RunsType'
  <2>1. "closing" \in ArmPcs
    BY DEF ArmPcs
  <2> QED
    BY <1>1, <2>1, ArmWrites DEF Inv, TypeInv, RunsType
<1>6. Acts(r)
  BY <1>1, <1>2, <1>3, <1>4 DEF Acts, files
<1>7. Takes(r)
  BY <1>1, <1>2, <1>4 DEF Takes, Uses
<1>8. RunInv(r)'
  BY <1>1, <1>2, <1>4 DEF RunInv, Held
<1> QED
  BY <1>5, <1>6, <1>7, <1>8 DEF Effect

LEMMA AdvanceEffect ==
    ASSUME Inv, NEW r \in Runs, Advance(r)
    PROVE  Effect(r)
<1> DEFINE t == arm[r].test
           by == Append(tests[t].by, r)
<1>1. /\ arm[r].pc = "stepping" /\ Up(r) /\ UNCHANGED <<cmd, files, owned>>
      /\ tests[t].st = "running" /\ arm[r].life.adv < Steps
      /\ tests' = [tests EXCEPT ![t].clock = @ + 1, ![t].by = Append(@, r)]
  BY DEF Advance, Answers
<1>2. /\ RunInv(r) /\ ~arm[r].err /\ dir[r].done = {} /\ arm[r].result # "completed"
      /\ dir[r].ids = {t} /\ t \in Of(r[1]) /\ t \in Runs /\ Uses(r)
      /\ tests[t].by = [i \in 1 .. arm[r].life.adv |-> r]
  BY <1>1, HoldsOne DEF RunInv, Held
<1>3. \A s \in Runs \ {r} : arm'[s] = arm[s] /\ dir'[s] = dir[s]
  BY DEF Advance, Inv, TypeInv, RunsType
<1>4. /\ \/ arm'[r].pc = "stepping" /\ arm'[r].err = arm[r].err
         \/ arm'[r].pc = "closing" /\ arm'[r].err = TRUE
      /\ arm'[r].test = t /\ arm'[r].result = arm[r].result
      /\ arm'[r].life.adv = arm[r].life.adv + 1
      /\ dir'[r].ids = dir[r].ids /\ dir'[r].done = dir[r].done
  <2>1. dir'[r].ids = dir[r].ids /\ dir'[r].done = dir[r].done
    BY DEF Advance, Inv, TypeInv, RunsType, DirStates
  <2>2. CASE arm' = [arm EXCEPT ![r].life.adv = @ + 1]
    BY <1>1, <2>1, <2>2 DEF Inv, TypeInv, RunsType, ArmStates, Lives
  <2>3. CASE arm' = [arm EXCEPT ![r].life.adv = @ + 1, ![r].pc = "closing", ![r].err = TRUE]
    BY <2>1, <2>3 DEF Inv, TypeInv, RunsType, ArmStates, Lives
  <2> QED
    BY <2>2, <2>3 DEF Advance
<1>5. /\ \A u \in Runs : tests'[u].st = tests[u].st
      /\ \A u \in Runs : tests'[u].by = IF u = t THEN by ELSE tests[u].by
  BY <1>1, <1>2 DEF Inv, TypeInv, RunsType, TestStates
<1>6. RunsType'
  <2>1. "closing" \in ArmPcs
    BY DEF ArmPcs
  <2>2. /\ [arm EXCEPT ![r].life.adv = @ + 1] \in [Runs -> ArmStates]
        /\ [arm EXCEPT ![r].life.adv = @ + 1, ![r].pc = "closing", ![r].err = TRUE]
              \in [Runs -> ArmStates]
        /\ [dir EXCEPT ![r].rows = @ + 1] \in [Runs -> DirStates]
    BY <2>1, ArmWrites, DirWrites DEF Inv, TypeInv, RunsType
  <2>3. arm' \in [Runs -> ArmStates] /\ dir' \in [Runs -> DirStates]
    BY <2>2 DEF Advance, Inv, TypeInv, RunsType
  <2>4. tests' \in [Runs -> TestStates]
    <3>1. by \in Seq(Runs) /\ tests[t].clock + 1 \in Nat
      BY <1>2 DEF Inv, TypeInv, RunsType, TestStates
    <3>2. tests' = [tests EXCEPT ![t] = [tests[t] EXCEPT !.clock = tests[t].clock + 1, !.by = by]]
      BY <1>1, <1>2 DEF Inv, TypeInv, RunsType, TestStates
    <3>3. [tests[t] EXCEPT !.clock = tests[t].clock + 1, !.by = by] \in TestStates
      <4>1. tests[t] \in TestStates
        BY <1>2 DEF Inv, TypeInv, RunsType
      <4> HIDE DEF t, by
      <4>2. \A x \in TestStates, n \in Nat, b \in Seq(Runs) :
                [x EXCEPT !.clock = n, !.by = b] \in TestStates
        BY DEF TestStates
      <4> QED
        BY <3>1, <4>1, <4>2
    <3> QED
      BY <3>2, <3>3 DEF Inv, TypeInv, RunsType
  <2> QED
    BY <2>3, <2>4 DEF RunsType
<1>7. Acts(r)
  BY <1>1, <1>2, <1>3, <1>4, <1>5 DEF Acts, files
<1>8. Takes(r)
  BY <1>1, <1>2, <1>4 DEF Takes
<1>9. tests'[t].by = [i \in 1 .. arm'[r].life.adv |-> r]
  <2>1. arm[r].life.adv \in Nat
    BY DEF Inv, TypeInv, RunsType, ArmStates, Lives
  <2>2. by = [i \in 1 .. arm[r].life.adv + 1 |-> r]
    BY <1>2, <2>1, Repeated
  <2> QED
    BY <1>2, <1>4, <1>5, <2>2
<1>10. RunInv(r)'
  BY <1>1, <1>2, <1>4, <1>5, <1>9 DEF RunInv, Held
<1> QED
  BY <1>6, <1>7, <1>8, <1>10 DEF Effect

LEMMA CompleteEffect ==
    ASSUME Inv, NEW r \in Runs, Complete(r)
    PROVE  Effect(r)
<1>1. /\ arm[r].pc = "stepping" /\ Up(r) /\ UNCHANGED <<cmd, files, owned, tests>>
      /\ arm[r].life.adv = Steps
  BY DEF Complete
<1>2. /\ RunInv(r) /\ ~arm[r].err /\ dir[r].done = {} /\ arm[r].result # "completed"
      /\ dir[r].ids = {arm[r].test} /\ arm[r].test \in Of(r[1])
      /\ tests[arm[r].test].st # "free" /\ Uses(r)
  BY <1>1, HoldsOne DEF RunInv, Held
<1>3. \A s \in Runs \ {r} : arm'[s] = arm[s] /\ dir'[s] = dir[s]
  BY DEF Complete, Goto, Inv, TypeInv, RunsType
<1>4. /\ arm'[r].pc = "closing" /\ arm'[r].test = arm[r].test /\ arm'[r].err = arm[r].err
      /\ arm'[r].result = arm[r].result /\ arm'[r].life = arm[r].life
      /\ dir'[r].ids = dir[r].ids /\ dir'[r].done = dir[r].done
  BY DEF Complete, Goto, Inv, TypeInv, RunsType, ArmStates, DirStates
<1>5. RunsType'
  <2>1. "closing" \in ArmPcs /\ {"evaluation_completed"} \in Events
    BY DEF ArmPcs, Events, Timeline
  <2>2. /\ [arm EXCEPT ![r].pc = "closing"] \in [Runs -> ArmStates]
        /\ [dir EXCEPT ![r].events = @ \cup {"evaluation_completed"}] \in [Runs -> DirStates]
    BY <2>1, ArmWrites, DirWrites DEF Inv, TypeInv, RunsType
  <2> QED
    BY <1>1, <2>2 DEF Complete, Goto, Inv, TypeInv, RunsType
<1>6. Acts(r)
  BY <1>1, <1>2, <1>3, <1>4 DEF Acts, files
<1>7. Takes(r)
  BY <1>1, <1>2, <1>4 DEF Takes
<1>8. RunInv(r)'
  BY <1>1, <1>2, <1>4 DEF RunInv, Held
<1> QED
  BY <1>5, <1>6, <1>7, <1>8 DEF Effect

LEMMA StopEffect ==
    ASSUME Inv, NEW r \in Runs, Stop(r)
    PROVE  Effect(r)
<1> DEFINE t == arm[r].test
           goal == IF arm[r].err THEN "failing" ELSE "verifying"
<1>1. /\ arm[r].pc = "closing" /\ Up(r) /\ UNCHANGED <<cmd, files, owned>>
      /\ tests' = [tests EXCEPT ![t].st = "stopped"]
      /\ dir' = [dir EXCEPT ![r].events = @ \cup {"stopped"}, ![r].ids = @ \cup {t}]
      /\ arm' = [arm EXCEPT ![r].pc = goal, ![r].test = None, ![r].life.stop = 1]
  BY DEF Stop
<1>2. /\ RunInv(r) /\ dir[r].done = {} /\ arm[r].result # "completed"
      /\ t \in Of(r[1]) /\ t \in Runs /\ tests[t].st # "free"
      /\ ~arm[r].err => Uses(r) /\ dir[r].ids = {t} /\ tests[t].by = [i \in 1 .. Steps |-> r]
  BY <1>1, HoldsOne DEF RunInv, Held
<1>3. \A s \in Runs \ {r} : arm'[s] = arm[s] /\ dir'[s] = dir[s]
  BY <1>1 DEF Inv, TypeInv, RunsType
<1>4. /\ arm'[r].pc = goal /\ arm'[r].err = arm[r].err /\ arm'[r].result = arm[r].result
      /\ dir'[r].ids = dir[r].ids \cup {t} /\ dir'[r].done = dir[r].done
  BY <1>1 DEF Inv, TypeInv, RunsType, ArmStates, DirStates
<1>5. /\ \A u \in Runs : tests'[u].st = IF u = t THEN "stopped" ELSE tests[u].st
      /\ \A u \in Runs : tests'[u].by = tests[u].by
  BY <1>1, <1>2 DEF Inv, TypeInv, RunsType, TestStates
<1>6. RunsType'
  <2>1. goal \in ArmPcs /\ {"stopped"} \in Events /\ {t} \in Ids /\ None \in Holdings
    BY <1>2 DEF ArmPcs, Events, Timeline, Ids, Holdings
  <2>2. arm \in [Runs -> ArmStates] /\ dir \in [Runs -> DirStates] /\ tests \in [Runs -> TestStates]
    BY DEF Inv, TypeInv, RunsType
  <2>3. arm' \in [Runs -> ArmStates]
    <3> HIDE DEF goal
    <3> QED
      BY <1>1, <2>1, <2>2, ArmWrites
  <2>4. dir' \in [Runs -> DirStates]
    <3> HIDE DEF t
    <3> QED
      BY <1>1, <2>1, <2>2, DirWrites
  <2>5. tests' \in [Runs -> TestStates]
    BY <1>1, <2>2 DEF TestStates
  <2> QED
    BY <2>3, <2>4, <2>5 DEF RunsType
<1>7. Acts(r)
  <2>1. \A u \in Runs : /\ (tests[u].st = "free") <=> (tests'[u].st = "free")
                        /\ tests[u].st = "stopped" => tests'[u].st = "stopped"
                        /\ tests'[u].by = tests[u].by
    BY <1>2, <1>5
  <2>2. /\ arm[r].pc \notin {"off", "ended"} /\ Up(r) /\ UNCHANGED files /\ UNCHANGED cmd
        /\ arm'[r].pc # "off"
    BY <1>1, <1>4
  <2> QED
    BY <1>2, <1>3, <2>1, <2>2 DEF Acts, files
<1>8. Takes(r)
  BY <1>1, <1>2, <1>4 DEF Takes, Uses, Held
<1>9. RunInv(r)'
  <2>1. CASE arm[r].err
    BY <1>2, <1>4, <2>1 DEF RunInv, Held
  <2>2. CASE ~arm[r].err
    <3>1. Alone(r)'
      BY <1>2, <1>4, <1>5, <2>2 DEF Alone
    <3> QED
      BY <1>2, <1>4, <2>2, <3>1 DEF RunInv, Held
  <2> QED
    BY <2>1, <2>2
<1> QED
  BY <1>6, <1>7, <1>8, <1>9 DEF Effect

LEMMA StopFailsEffect ==
    ASSUME Inv, NEW r \in Runs, StopFails(r)
    PROVE  Effect(r)
<1> DEFINE t == arm[r].test
<1>1. /\ arm[r].pc = "closing" /\ Up(r) /\ UNCHANGED <<cmd, files, owned, dir>>
      /\ arm' = [arm EXCEPT ![r].pc = "failing", ![r].err = TRUE]
      /\ tests' = tests \/ tests' = [tests EXCEPT ![t].st = "stopped"]
  BY DEF StopFails
<1>2. RunInv(r) /\ dir[r].done = {} /\ arm[r].result # "completed" /\ t \in Runs
  BY <1>1, HoldsOne DEF Held
<1>3. \A s \in Runs \ {r} : arm'[s] = arm[s]
  BY <1>1 DEF Inv, TypeInv, RunsType
<1>4. arm'[r].pc = "failing" /\ arm'[r].result = arm[r].result
  BY <1>1 DEF Inv, TypeInv, RunsType, ArmStates
<1>5. \A u \in Runs : /\ (tests[u].st = "free") <=> (tests'[u].st = "free")
                      /\ tests[u].st = "stopped" => tests'[u].st = "stopped"
                      /\ tests'[u].by = tests[u].by
  <2>1. tests[t].st # "free"
    BY <1>1, HoldsOne DEF Held
  <2>2. CASE tests' = tests
    BY <2>2
  <2>3. CASE tests' = [tests EXCEPT ![t].st = "stopped"]
    BY <1>2, <2>1, <2>3 DEF Inv, TypeInv, RunsType, TestStates
  <2> QED
    BY <1>1, <2>2, <2>3
<1>7. RunsType'
  <2>1. "failing" \in ArmPcs
    BY DEF ArmPcs
  <2>2. arm' \in [Runs -> ArmStates]
    BY <1>1, <2>1, ArmWrites DEF Inv, TypeInv, RunsType
  <2>3. tests' \in [Runs -> TestStates]
    <3>1. tests \in [Runs -> TestStates]
      BY DEF Inv, TypeInv, RunsType
    <3>2. [tests EXCEPT ![t].st = "stopped"] \in [Runs -> TestStates]
      BY <3>1 DEF TestStates
    <3> QED
      BY <1>1, <3>1, <3>2
  <2> QED
    BY <1>1, <2>2, <2>3 DEF Inv, TypeInv, RunsType
<1>9. Acts(r)
  <2>1. /\ arm[r].pc \notin {"off", "ended"} /\ Up(r) /\ UNCHANGED files /\ UNCHANGED cmd
        /\ \A s \in Runs \ {r} : arm'[s] = arm[s] /\ dir'[s] = dir[s]
    BY <1>1, <1>3
  <2> QED
    BY <1>2, <1>4, <1>5, <2>1 DEF Acts, files
<1>10. Takes(r)
  BY <1>1, <1>2, <1>4 DEF Takes, Uses, Held
<1>11. RunInv(r)'
  BY <1>1, <1>2, <1>4 DEF RunInv, Held
<1> QED
  BY <1>7, <1>9, <1>10, <1>11 DEF Effect

LEMMA PublishFailureEffect ==
    ASSUME Inv, NEW r \in Runs, PublishFailure(r)
    PROVE  Effect(r)
<1>1. /\ arm[r].pc = "failing" /\ Up(r) /\ UNCHANGED <<cmd, files, owned, tests>>
      /\ dir' = [dir EXCEPT ![r].manifest = arm[r].life, ![r].done = @ \cup {"failure"}]
      /\ arm' = [arm EXCEPT ![r].pc = "ended", ![r].result = "failed"]
  BY DEF PublishFailure
<1>2. RunInv(r) /\ dir[r].done = {} /\ arm[r].result # "completed"
  BY <1>1 DEF Inv, RunsInv, RunInv
<1>3. \A s \in Runs \ {r} : arm'[s] = arm[s] /\ dir'[s] = dir[s]
  BY <1>1 DEF Inv, TypeInv, RunsType
<1>4. arm'[r].pc = "ended" /\ arm'[r].result = "failed" /\ dir'[r].done = {"failure"}
  BY <1>1, <1>2 DEF Inv, TypeInv, RunsType, ArmStates, DirStates
<1>5. RunsType'
  <2>1. arm \in [Runs -> ArmStates] /\ dir \in [Runs -> DirStates] /\ tests \in [Runs -> TestStates]
    BY DEF Inv, TypeInv, RunsType
  <2>2. "ended" \in ArmPcs /\ "failed" \in Results /\ arm[r].life \in Manifests
        /\ {"failure"} \in Terminals
    BY <2>1 DEF ArmPcs, Results, Manifests, Terminals, ArmStates
  <2>3. [arm EXCEPT ![r].pc = "ended", ![r].result = "failed"] \in [Runs -> ArmStates]
    BY <2>1, <2>2, ArmWrites
  <2>4. [dir EXCEPT ![r].manifest = arm[r].life, ![r].done = @ \cup {"failure"}] \in [Runs -> DirStates]
    BY <2>1, <2>2, DirWrites
  <2> QED
    BY <1>1, <2>1, <2>3, <2>4 DEF RunsType
<1>6. Acts(r)
  BY <1>1, <1>2, <1>3, <1>4 DEF Acts, files
<1>7. Takes(r)
  BY <1>1, <1>4 DEF Takes, Uses, Held
<1>8. RunInv(r)'
  BY <1>4 DEF RunInv, Held
<1> QED
  BY <1>5, <1>6, <1>7, <1>8 DEF Effect

\* A run that has stopped its test and is verified and published.
LEMMA Verified ==
    ASSUME Inv, NEW r \in Runs, arm[r].pc \in {"verifying", "completing", "published"}
    PROVE  /\ RunInv(r) /\ Alone(r) /\ Uses(r) /\ ~arm[r].err /\ arm[r].result # "completed"
           /\ arm[r].pc # "published" => dir[r].done = {}
           /\ arm[r].pc = "published" => dir[r].done = {"completion"}
<1>1. RunInv(r)
  BY DEF Inv, RunsInv
<1> QED
  BY <1>1 DEF RunInv, Uses

\* One of its own whose identities and test stay.
LEMMA AloneStays ==
    ASSUME NEW r \in Runs, Alone(r), UNCHANGED tests, dir'[r].ids = dir[r].ids
    PROVE  Alone(r)'
  BY DEF Alone

LEMMA VerifyEffect ==
    ASSUME Inv, NEW r \in Runs, Verify(r)
    PROVE  Effect(r)
<1>1. /\ arm[r].pc = "verifying" /\ Up(r) /\ UNCHANGED <<cmd, files, owned, tests>>
      /\ \/ /\ dir' = [dir EXCEPT ![r].manifest = arm[r].life, ![r].eligible = TRUE]
            /\ arm' = [arm EXCEPT ![r].pc = "completing"]
         \/ /\ dir' = [dir EXCEPT ![r].manifest = arm[r].life]
            /\ arm' = [arm EXCEPT ![r].pc = "failing", ![r].err = TRUE]
  BY DEF Verify, Goto
<1>2. /\ RunInv(r) /\ Alone(r) /\ Uses(r) /\ ~arm[r].err /\ arm[r].result # "completed"
      /\ dir[r].done = {}
  BY <1>1, Verified
<1>3. \A s \in Runs \ {r} : arm'[s] = arm[s] /\ dir'[s] = dir[s]
  BY <1>1 DEF Inv, TypeInv, RunsType
<1>4. /\ arm'[r].result = arm[r].result /\ dir'[r].ids = dir[r].ids /\ dir'[r].done = dir[r].done
      /\ \/ arm'[r].pc = "completing" /\ arm'[r].err = arm[r].err
         \/ arm'[r].pc = "failing"
  BY <1>1 DEF Inv, TypeInv, RunsType, ArmStates, DirStates
<1>5. RunsType'
  <2>1. arm \in [Runs -> ArmStates] /\ dir \in [Runs -> DirStates] /\ tests \in [Runs -> TestStates]
    BY DEF Inv, TypeInv, RunsType
  <2>2. {"completing", "failing"} \subseteq ArmPcs /\ arm[r].life \in Manifests
    BY <2>1 DEF ArmPcs, Manifests, ArmStates
  <2>3. /\ [arm EXCEPT ![r].pc = "completing"] \in [Runs -> ArmStates]
        /\ [arm EXCEPT ![r].pc = "failing", ![r].err = TRUE] \in [Runs -> ArmStates]
    BY <2>1, <2>2, ArmWrites
  <2>4. /\ [dir EXCEPT ![r].manifest = arm[r].life, ![r].eligible = TRUE] \in [Runs -> DirStates]
        /\ [dir EXCEPT ![r].manifest = arm[r].life] \in [Runs -> DirStates]
    BY <2>1, <2>2, DirWrites
  <2> QED
    BY <1>1, <2>1, <2>3, <2>4 DEF RunsType
<1>6. Acts(r)
  BY <1>1, <1>2, <1>3, <1>4 DEF Acts, files
<1>7. Takes(r)
  BY <1>1, <1>2, <1>4 DEF Takes
<1>8. Alone(r)'
  BY <1>1, <1>2, <1>4, AloneStays
<1>9. RunInv(r)'
  BY <1>2, <1>4, <1>8 DEF RunInv, Held
<1> QED
  BY <1>5, <1>6, <1>7, <1>9 DEF Effect

LEMMA PublishCompletionEffect ==
    ASSUME Inv, NEW r \in Runs, PublishCompletion(r)
    PROVE  Effect(r)
<1>1. /\ arm[r].pc = "completing" /\ Up(r) /\ UNCHANGED <<cmd, files, owned, tests>>
      /\ dir' = [dir EXCEPT ![r].done = @ \cup {"completion"}]
      /\ arm' = [arm EXCEPT ![r].pc = "published"]
  BY DEF PublishCompletion, Goto
<1>2. /\ RunInv(r) /\ Alone(r) /\ Uses(r) /\ ~arm[r].err /\ arm[r].result # "completed"
      /\ dir[r].done = {}
  BY <1>1, Verified
<1>3. \A s \in Runs \ {r} : arm'[s] = arm[s] /\ dir'[s] = dir[s]
  BY <1>1 DEF Inv, TypeInv, RunsType
<1>4. /\ arm'[r].result = arm[r].result /\ dir'[r].ids = dir[r].ids
      /\ dir'[r].done = {"completion"} /\ arm'[r].pc = "published" /\ arm'[r].err = arm[r].err
  BY <1>1, <1>2 DEF Inv, TypeInv, RunsType, ArmStates, DirStates
<1>5. RunsType'
  <2>1. arm \in [Runs -> ArmStates] /\ dir \in [Runs -> DirStates] /\ tests \in [Runs -> TestStates]
    BY DEF Inv, TypeInv, RunsType
  <2>2. "published" \in ArmPcs /\ {"completion"} \in Terminals
    BY DEF ArmPcs, Terminals
  <2>3. /\ [arm EXCEPT ![r].pc = "published"] \in [Runs -> ArmStates]
        /\ [dir EXCEPT ![r].done = @ \cup {"completion"}] \in [Runs -> DirStates]
    BY <2>1, <2>2, ArmWrites, DirWrites
  <2> QED
    BY <1>1, <2>1, <2>3 DEF RunsType
<1>6. Acts(r)
  BY <1>1, <1>2, <1>3, <1>4 DEF Acts, files
<1>7. Takes(r)
  BY <1>1, <1>2, <1>4 DEF Takes
<1>8. Alone(r)'
  BY <1>1, <1>2, <1>4, AloneStays
<1>9. RunInv(r)'
  BY <1>2, <1>4, <1>8 DEF RunInv, Held
<1> QED
  BY <1>5, <1>6, <1>7, <1>9 DEF Effect

LEMMA FinalVerifyEffect ==
    ASSUME Inv, NEW r \in Runs, FinalVerify(r)
    PROVE  Effect(r)
<1>1. /\ arm[r].pc = "published" /\ Up(r) /\ UNCHANGED <<cmd, files, owned, tests, dir>>
      /\ \/ arm' = [arm EXCEPT ![r].pc = "ended", ![r].result = "completed"]
         \/ arm' = [arm EXCEPT ![r].pc = "ended", ![r].result = "failed"]
  BY DEF FinalVerify
<1>2. /\ RunInv(r) /\ Alone(r) /\ Uses(r) /\ arm[r].result # "completed"
      /\ dir[r].done = {"completion"}
  BY <1>1, Verified
<1>3. \A s \in Runs \ {r} : arm'[s] = arm[s]
  BY <1>1 DEF Inv, TypeInv, RunsType
<1>4. arm'[r].pc = "ended"
  BY <1>1 DEF Inv, TypeInv, RunsType, ArmStates
<1>5. RunsType'
  <2>1. "ended" \in ArmPcs /\ {"completed", "failed"} \subseteq Results
    BY DEF ArmPcs, Results
  <2>2. /\ [arm EXCEPT ![r].pc = "ended", ![r].result = "completed"] \in [Runs -> ArmStates]
        /\ [arm EXCEPT ![r].pc = "ended", ![r].result = "failed"] \in [Runs -> ArmStates]
    BY <2>1, ArmWrites DEF Inv, TypeInv, RunsType
  <2> QED
    BY <1>1, <2>2 DEF Inv, TypeInv, RunsType
<1>6. Acts(r)
  BY <1>1, <1>2, <1>3, <1>4 DEF Acts, files
<1>7. Takes(r)
  BY <1>1, <1>2 DEF Takes
<1>8. Alone(r)'
  BY <1>1, <1>2, AloneStays
<1>9. RunInv(r)'
  BY <1>1, <1>2, <1>4, <1>8 DEF RunInv, Held
<1> QED
  BY <1>5, <1>6, <1>7, <1>9 DEF Effect

LEMMA RunEffect ==
    ASSUME Inv, NEW r \in Runs, RunNext(r)
    PROVE  Effect(r) \/ UNCHANGED vars
  BY CreateEffect, SelectFailsEffect, SelectEffect, ConfigureEffect, InitializeEffect,
     AdvanceEffect, CompleteEffect, RequestFailsEffect, StopEffect, StopFailsEffect,
     PublishFailureEffect, VerifyEffect, PublishCompletionEffect, FinalVerifyEffect
  DEF RunNext, Poll

(***************************************************************************)
(* What a step of one run leaves of the invariant.                         *)
(***************************************************************************)
LEMMA OthersKeep ==
    ASSUME Inv, NEW r \in Runs, Acts(r), NEW s \in Runs \ {r}
    PROVE  RunInv(s)' /\ dir'[s] = dir[s] /\ (Uses(s)' <=> Uses(s))
<1>1. arm'[s] = arm[s] /\ dir'[s] = dir[s]
  BY DEF Acts
<1>2. RunInv(s)
  BY DEF Inv, RunsInv
<1>3. ASSUME NEW t \in Runs, Uses(s), dir[s].ids = {t}
      PROVE  tests'[t].by = tests[t].by
  <2> SUFFICES ASSUME tests'[t].by # tests[t].by
               PROVE  FALSE
    OBVIOUS
  <2>1. Uses(r) /\ dir[r].ids = {t}
    BY DEF Acts
  <2> QED
    BY <1>3, <2>1 DEF Inv, UniqueInv
<1>4. Uses(s)' <=> Uses(s)
  BY <1>1 DEF Uses
<1>5. ASSUME Uses(s), Alone(s)
      PROVE  Alone(s)'
  <2> PICK t \in Of(s[1]) : /\ dir[s].ids = {t} /\ tests[t].st = "stopped"
                            /\ tests[t].by = [i \in 1 .. Steps |-> s]
    BY <1>5 DEF Alone
  <2>1. t \in Runs
    BY OfCommand
  <2>2. tests'[t].st = "stopped" /\ tests'[t].by = tests[t].by
    BY <1>3, <1>5, <2>1 DEF Acts
  <2> QED
    BY <1>1, <2>2 DEF Alone
<1>6. CASE arm[s].pc \in {"off", "created"}
  <2>1. tests'[s].st = "free"
    BY <1>2, <1>6 DEF RunInv, Acts
  <2>2. dir[s].done = {}
    BY <1>2, <1>6 DEF RunInv
  <2> QED
    BY <1>1, <1>2, <1>4, <1>6, <2>1, <2>2 DEF RunInv, Held
<1>7. CASE arm[s].pc \in Held
  <2>1. /\ arm[s].test \in Of(s[1]) /\ arm[s].test \in Runs /\ tests[arm[s].test].st # "free"
        /\ dir[s].done = {}
        /\ ~arm[s].err => Uses(s) /\ dir[s].ids = {arm[s].test}
    BY <1>7, HoldsOne
  <2>2. tests'[arm[s].test].st # "free"
    BY <2>1 DEF Acts
  <2>3. ~arm[s].err => tests'[arm[s].test].by = tests[arm[s].test].by
    BY <1>3, <2>1
  <2> QED
    BY <1>1, <1>2, <1>4, <1>7, <2>1, <2>2, <2>3 DEF RunInv, Held
<1>8. CASE arm[s].pc \in {"verifying", "completing", "published"}
  <2>1. Alone(s)'
    BY <1>5, <1>8, Verified
  <2> QED
    BY <1>1, <1>2, <1>4, <1>8, <2>1 DEF RunInv, Held
<1>9. CASE arm[s].pc \in {"failing", "ended"}
  <2>1. "completion" \in dir[s].done => Alone(s)'
    BY <1>2, <1>5 DEF RunInv, Uses
  <2> QED
    BY <1>1, <1>2, <1>4, <1>9, <2>1 DEF RunInv, Held
<1>10. arm[s].pc \in ArmPcs
  BY DEF Inv, TypeInv, RunsType, ArmStates
<1> QED
  BY <1>1, <1>4, <1>6, <1>7, <1>8, <1>9, <1>10 DEF ArmPcs, Held

\* A test that a run is about to take for itself is used by no other.
LEMMA NewIsUnused ==
    ASSUME Inv, NEW r \in Runs, arm[r].pc = "created", NEW t \in Of(r[1]),
           t = r \/ tests[t].st # "stopped", t = r => tests[t].st = "free",
           r[1] \in Serial \/ t \notin owned[r[1]],
           NEW s \in Runs \ {r}, Uses(s)
    PROVE  dir[s].ids # {t}
<1> SUFFICES ASSUME dir[s].ids = {t}
             PROVE  FALSE
  OBVIOUS
<1>1. RunInv(s) /\ RunInv(r)
  BY DEF Inv, RunsInv
<1>2. /\ arm[s].pc # "off" /\ t \in Of(s[1]) /\ tests[t].st # "free"
      /\ arm[s].pc \notin Held => tests[t].st = "stopped"
  BY <1>1, UsesOne
<1>3. t # r /\ tests[t].st # "stopped" /\ arm[s].pc \in Held
  BY <1>2
<1>4. s[1] = r[1]
  BY <1>2, OfCommand
<1>5. r[1] \in Serial
  BY <1>4, OfCommand DEF Inv, OwnedInv, Commands
<1>6. r[2] # s[2] /\ r[2] \in Nat /\ s[2] \in Nat
  BY <1>4, OfCommand, BaselineSuiteAssumption DEF Arms, BaselineSuiteAssumption
<1>7. CASE r[2] < s[2]
  <2>1. arm[r].result = "completed"
    BY <1>2, <1>4, <1>5, <1>7 DEF Inv, OrderInv
  <2> QED
    BY <1>1, <2>1 DEF RunInv
<1>8. CASE s[2] < r[2]
  <2>1. arm[s].result = "completed"
    BY <1>4, <1>5, <1>8 DEF Inv, OrderInv
  <2> QED
    BY <1>1, <1>3, <2>1 DEF RunInv, Held
<1> QED
  BY <1>6, <1>7, <1>8

LEMMA EffectKeeps ==
    ASSUME Inv, NEW r \in Runs, Effect(r)
    PROVE  RunsType' /\ OwnedType' /\ RunsInv' /\ UniqueInv' /\ OwnedInv' /\ OrderInv'
<1>1. Acts(r) /\ Takes(r) /\ RunInv(r)' /\ RunsType'
  BY DEF Effect
<1>2. \A s \in Runs \ {r} : RunInv(s)' /\ dir'[s] = dir[s] /\ (Uses(s)' <=> Uses(s))
  BY <1>1, OthersKeep
<1>3. RunsInv'
  BY <1>1, <1>2 DEF RunsInv
<1>4. ASSUME UNCHANGED owned, Uses(r)' => Uses(r) /\ dir'[r].ids = dir[r].ids
      PROVE  OwnedType' /\ UniqueInv' /\ OwnedInv'
  <2>1. OwnedType'
    BY <1>4 DEF Inv, TypeInv, OwnedType
  <2>2. UniqueInv'
    BY <1>2, <1>4 DEF Inv, UniqueInv
  <2>3. OwnedInv'
    BY <1>2, <1>4 DEF Inv, OwnedInv
  <2> QED
    BY <2>1, <2>2, <2>3
<1>5. ASSUME NEW t \in Of(r[1]), dir'[r].ids = {t}, arm[r].pc = "created",
             t = r \/ tests[t].st # "stopped", t = r => tests[t].st = "free",
             r[1] \in Serial \/ t \notin owned[r[1]],
             owned' = IF r[1] \in Concurrent THEN [owned EXCEPT ![r[1]] = @ \cup {t}] ELSE owned
      PROVE  OwnedType' /\ UniqueInv' /\ OwnedInv'
  <2>1. t \in Runs
    BY OfCommand
  <2>2. OwnedType'
    BY <1>5, <2>1 DEF Inv, TypeInv, OwnedType
  <2>3. \A s \in Runs \ {r} : Uses(s) => dir[s].ids # {t}
    BY <1>5, NewIsUnused
  <2>4. UniqueInv'
    BY <1>2, <1>5, <2>3 DEF Inv, UniqueInv
  <2>5. \A c \in Concurrent : owned[c] \subseteq owned'[c] /\ (c = r[1] => t \in owned'[c])
    BY <1>5 DEF Inv, TypeInv, OwnedType
  <2>6. OwnedInv'
    BY <1>2, <1>5, <2>5 DEF Inv, OwnedInv
  <2> QED
    BY <2>2, <2>4, <2>6
<1>6. OwnedType' /\ UniqueInv' /\ OwnedInv'
  BY <1>1, <1>4, <1>5 DEF Takes
<1>7. OrderInv'
  <2> SUFFICES ASSUME NEW a \in Runs, NEW b \in Runs, a[1] = b[1], a[1] \in Serial, a[2] < b[2],
                      arm'[b].pc # "off"
               PROVE  arm'[a].result = "completed"
    BY DEF OrderInv
  <2>1. arm[a].result = "completed"
    <3>1. CASE arm[b].pc # "off"
      BY <3>1 DEF Inv, OrderInv
    <3>2. CASE arm[b].pc = "off"
      <4>1. b = r
        BY <1>1, <3>2 DEF Acts
      <4>2. a[2] \in 1 .. r[2] - 1 /\ a = <<r[1], a[2]>>
        BY <4>1, OfCommand, BaselineSuiteAssumption DEF Arms, BaselineSuiteAssumption
      <4> QED
        BY <1>1, <3>2, <4>1, <4>2 DEF Acts, MayStart
    <3> QED
      BY <3>1, <3>2
  <2> QED
    BY <1>1, <2>1 DEF Acts
<1> QED
  BY <1>1, <1>3, <1>6, <1>7

(***************************************************************************)
(* The other steps.                                                        *)
(***************************************************************************)
\* Steps that leave the runs to themselves.
LEMMA IdleKeeps ==
    ASSUME Inv, UNCHANGED <<arm, dir, owned, tests>>
    PROVE  RunsType' /\ OwnedType' /\ RunsInv' /\ UniqueInv' /\ OwnedInv' /\ OrderInv'
<1>1. RunsType' /\ OwnedType'
  BY DEF Inv, TypeInv, RunsType, OwnedType
<1>2. \A r \in Runs : (Uses(r)' <=> Uses(r)) /\ (Alone(r)' <=> Alone(r))
  BY DEF Uses, Alone
<1>3. RunsInv'
  BY <1>2 DEF Inv, RunsInv, RunInv
<1>4. UniqueInv' /\ OwnedInv' /\ OrderInv'
  BY <1>2 DEF Inv, UniqueInv, OwnedInv, OrderInv
<1> QED
  BY <1>1, <1>3, <1>4

LEMMA AdmitKeeps ==
    ASSUME Inv, NEW u \in Runs, Admit(u)
    PROVE  RunsType' /\ OwnedType' /\ RunsInv' /\ UniqueInv' /\ OwnedInv' /\ OrderInv'
<1>1. UNCHANGED <<arm, dir, owned>> /\ tests[u].st = "queued"
      /\ tests' = [tests EXCEPT ![u].st = "running"]
  BY DEF Admit
<1>2. RunsType' /\ OwnedType'
  <2>1. tests \in [Runs -> TestStates]
    BY DEF Inv, TypeInv, RunsType
  <2>2. tests' \in [Runs -> TestStates]
    BY <1>1, <2>1 DEF TestStates
  <2> QED
    BY <1>1, <2>2 DEF Inv, TypeInv, RunsType, OwnedType
<1>3. \A t \in Runs : /\ tests'[t].by = tests[t].by
                      /\ (tests'[t].st = "free") <=> (tests[t].st = "free")
                      /\ tests[t].st = "stopped" => tests'[t].st = "stopped"
  BY <1>1 DEF Inv, TypeInv, RunsType, TestStates
<1>4. ASSUME NEW r \in Runs
      PROVE  (Uses(r)' <=> Uses(r)) /\ RunInv(r)'
  <2>1. Uses(r)' <=> Uses(r)
    BY <1>1 DEF Uses
  <2>2. Alone(r) => Alone(r)'
    BY <1>1, <1>3, OfCommand DEF Alone
  <2>3. RunInv(r)
    BY DEF Inv, RunsInv
  <2>4. arm[r].pc \in Held => arm[r].test \in Runs
    BY HoldsOne
  <2> QED
    BY <1>1, <1>3, <2>1, <2>2, <2>3, <2>4 DEF RunInv, Held
<1>5. RunsInv' /\ UniqueInv' /\ OwnedInv' /\ OrderInv'
  BY <1>1, <1>4 DEF Inv, RunsInv, UniqueInv, OwnedInv, OrderInv
<1> QED
  BY <1>2, <1>5

\* What changes the runs, and what changes the commands.
LEMMA StepKinds ==
    ASSUME [Next]_vars
    PROVE  \/ \E r \in Runs : RunNext(r) \/ Admit(r)
           \/ \E c \in Commands : (CommandNext(c) \/ Kill(c)) /\ UNCHANGED <<arm, dir, owned, tests>>
           \/ UNCHANGED <<cmd, claim, evidence, arm, dir, owned, tests>>
<1>1. CASE \E r \in Runs : RunNext(r) \/ Admit(r)
  BY <1>1
<1>2. CASE \E c \in Commands : CommandNext(c) \/ Kill(c)
  <2> PICK c \in Commands : CommandNext(c) \/ Kill(c)
    BY <1>2
  <2>1. UNCHANGED <<arm, dir, owned, tests>>
    BY
       DEF CommandNext, TakeLock, Claim, EndSerial, Collect, PublishEvidence,
           Unclaim, Kill
  <2> QED
    BY <2>1
<1>3. CASE \E k \in {"serial", "suite"} : ClearLock(k)
  BY <1>3 DEF ClearLock
<1>4. CASE Quiet \/ UNCHANGED vars
  BY <1>4 DEF Quiet, vars
<1> QED
  BY <1>1, <1>2, <1>3, <1>4 DEF Next

LEMMA CmdTypes ==
    ASSUME CmdType, NEW c \in Commands, CommandNext(c) \/ Kill(c)
    PROVE  CmdType'
<1> USE DEF CmdType
<1>1. CASE TakeLock(c) \/ Claim(c)
  BY <1>1 DEF TakeLock, Claim
<1>2. CASE EndSerial(c) \/ Collect(c) \/ PublishEvidence(c) \/ Unclaim(c)
  BY <1>2 DEF EndSerial, Collect, PublishEvidence, Unclaim
<1>3. CASE Kill(c)
  BY <1>3 DEF Kill
<1> QED
  BY <1>1, <1>2, <1>3 DEF CommandNext

LEMMA InvStep ==
    ASSUME Inv, [Next]_vars
    PROVE  Inv'
<1>1. ASSUME NEW r \in Runs, RunNext(r)
      PROVE  Inv'
  <2>1. CASE Effect(r)
    <3>1. CmdType'
      BY <2>1 DEF Effect, Acts, Inv, TypeInv, CmdType
    <3> QED
      BY <2>1, <3>1, EffectKeeps DEF Inv, TypeInv
  <2>2. CASE UNCHANGED vars
    <3>1. CmdType' /\ UNCHANGED <<arm, dir, owned, tests>>
      BY <2>2 DEF vars, Inv, TypeInv, CmdType
    <3> QED
      BY <3>1, IdleKeeps DEF Inv, TypeInv
  <2> QED
    BY <1>1, <2>1, <2>2, RunEffect
<1>2. ASSUME NEW r \in Runs, Admit(r)
      PROVE  Inv'
  <2>1. CmdType'
    BY <1>2 DEF Admit, Inv, TypeInv, CmdType
  <2> QED
    BY <1>2, <2>1, AdmitKeeps DEF Inv, TypeInv
<1>3. ASSUME NEW c \in Commands, CommandNext(c) \/ Kill(c), UNCHANGED <<arm, dir, owned, tests>>
      PROVE  Inv'
  BY <1>3, CmdTypes, IdleKeeps DEF Inv, TypeInv
<1>4. CASE UNCHANGED <<cmd, claim, evidence, arm, dir, owned, tests>>
  <2>1. CmdType'
    BY <1>4 DEF Inv, TypeInv, CmdType
  <2> QED
    BY <1>4, <2>1, IdleKeeps DEF Inv, TypeInv
<1> QED
  BY <1>1, <1>2, <1>3, <1>4, StepKinds

(* completion.json is about one test that its run alone advanced from start *)
(* to end, and no other arm of the suite completes on it, whatever tests    *)
(* BOPTEST hands out twice (runner.py, _SelectedTestIdentityRegistry).      *)
THEOREM CompletionsOwned == Spec => []CompletionOwned
<1>1. Inv => CompletionOwned
  <2> SUFFICES ASSUME Inv, NEW r \in Runs, "completion" \in dir[r].done
               PROVE  /\ \E t \in Runs : /\ dir[r].ids = {t} /\ tests[t].st = "stopped"
                                         /\ tests[t].by = [i \in 1 .. Steps |-> r]
                      /\ \A s \in Of(r[1]) \ {r} :
                            "completion" \in dir[s].done => dir[s].ids # dir[r].ids
    BY DEF CompletionOwned
  <2>1. Alone(r) /\ Uses(r)
    BY DEF Inv, RunsInv, RunInv, Uses
  <2>2. \A s \in Of(r[1]) \ {r} : "completion" \in dir[s].done => dir[s].ids # dir[r].ids
    BY <2>1, OfCommand DEF Inv, UniqueInv, Uses
  <2> QED
    BY <2>1, <2>2, OfCommand DEF Alone
<1> QED
  BY <1>1, InitInv, InvStep, PTL DEF Spec

(***************************************************************************)
(* The commands of the concurrent suite.                                   *)
(***************************************************************************)
\* A command that works on the suite, or whose arms began.
Holder(c) ==
    \/ cmd[c] \in {"running", "collected", "bound"}
    \/ \E r \in Of(c) : arm[r].pc # "off"

\* There is one, and claim or evidence keep others out.
HolderInv ==
    /\ \A c, d \in Concurrent : Holder(c) /\ Holder(d) => c = d
    /\ \A c \in Concurrent : Holder(c) => claim \/ evidence # None

\* The arms of a collected suite have ended, and its evidence is that of the command.
OutcomeInv ==
    /\ \A c \in Commands : cmd[c] \in {"locked", "collected", "bound"} => c \in Concurrent
    /\ \A c \in Concurrent : cmd[c] \in {"collected", "bound", "ended"} => AllEnded(c)
    /\ \A c \in Concurrent :
          cmd[c] \in {"bound", "ended"} => evidence # None /\ evidence.by = c

EvidenceInv ==
    evidence # None =>
        /\ evidence.by \in Concurrent /\ AllEnded(evidence.by)
        /\ \A a \in Arms : evidence.rows[a] = Row(<<evidence.by, a>>)

SuccessInv ==
    \A c \in Concurrent : cmd[c] = "ended" =>
        ~claim /\ \A r \in Of(c) : dir[r].done = {"completion"} /\ arm[r].result = "completed"

SuiteInv == HolderInv /\ OutcomeInv /\ EvidenceInv /\ SuccessInv

LEMMA InitSuite == Init => SuiteInv
<1> SUFFICES ASSUME Init
             PROVE  SuiteInv
  OBVIOUS
<1>1. \A c \in Commands : cmd[c] = "idle"
  BY DEF Init
<1>2. \A c \in Commands : ~Holder(c)
  BY <1>1, OfCommand DEF Init, Holder, NoRun
<1> QED
  BY <1>1, <1>2, Kinds
     DEF Init, SuiteInv, HolderInv, OutcomeInv, EvidenceInv, SuccessInv

\* A step of a run: it is that of a command at work.
LEMMA RunSuite ==
    ASSUME Inv, SuiteInv, NEW r \in Runs, Acts(r)
    PROVE  SuiteInv'
<1>1. /\ cmd[r[1]] = "running" /\ arm[r].pc # "ended"
      /\ UNCHANGED <<cmd, claim, evidence>>
      /\ \A s \in Runs \ {r} : arm'[s] = arm[s] /\ dir'[s] = dir[s]
  BY DEF Acts, Up, files
<1>2. \A c \in Commands : Holder(c)' => Holder(c)
  BY <1>1, OfCommand DEF Holder
<1>3. \A c \in Commands : AllEnded(c) =>
          AllEnded(c)' /\ \A s \in Of(c) : arm'[s] = arm[s] /\ dir'[s] = dir[s]
  BY <1>1, OfCommand DEF AllEnded
<1>4. HolderInv'
  BY <1>1, <1>2, Kinds DEF SuiteInv, HolderInv
<1>5. OutcomeInv'
  BY <1>1, <1>3, Kinds DEF SuiteInv, OutcomeInv
<1>6. EvidenceInv'
  BY <1>1, <1>3, Kinds, OfCommand DEF SuiteInv, EvidenceInv, Row
<1>7. SuccessInv'
  BY <1>1, <1>3, Kinds DEF SuiteInv, OutcomeInv, SuccessInv
<1> QED
  BY <1>4, <1>5, <1>6, <1>7 DEF SuiteInv

\* A step of command c that leaves the runs, claim and evidence, and makes c no holder.
LEMMA QuietCommand ==
    ASSUME TypeInv, SuiteInv, NEW c \in Commands, UNCHANGED <<arm, dir, claim, evidence>>,
           \A d \in Commands \ {c} : cmd'[d] = cmd[d],
           \/ cmd'[c] \in {"refused", "failed", "killed"}
           \/ cmd'[c] = "locked" /\ c \in Concurrent
           \/ cmd'[c] \in {"running", "ended"} /\ c \in Serial
           \/ cmd'[c] = "collected" /\ cmd[c] = "running" /\ c \in Concurrent /\ AllEnded(c)
    PROVE  SuiteInv'
<1>1. \A d \in Concurrent : Holder(d)' => Holder(d)
  BY Kinds DEF Holder
<1>2. HolderInv'
  BY <1>1 DEF SuiteInv, HolderInv
<1>3. \A d \in Commands : AllEnded(d)' <=> AllEnded(d)
  BY DEF AllEnded
<1>4. OutcomeInv'
  BY <1>3, Kinds DEF SuiteInv, OutcomeInv
<1>5. EvidenceInv'
  BY <1>3, Kinds DEF SuiteInv, EvidenceInv, Row
<1>6. SuccessInv'
  BY Kinds DEF SuiteInv, SuccessInv
<1> QED
  BY <1>2, <1>4, <1>5, <1>6 DEF SuiteInv

LEMMA ClaimSuite ==
    ASSUME TypeInv, SuiteInv, NEW c \in Commands, Claim(c)
    PROVE  SuiteInv'
<1>1. c \in Concurrent /\ UNCHANGED <<arm, dir, evidence>>
      /\ \A d \in Commands \ {c} : cmd'[d] = cmd[d]
  BY DEF Claim, SuiteInv, OutcomeInv, TypeInv, CmdType
<1>2. CASE MayClaim
  <2>1. ~claim /\ evidence = None /\ claim' = TRUE /\ cmd'[c] = "running"
    BY <1>2 DEF Claim, MayClaim, TypeInv, CmdType
  <2>2. \A d \in Concurrent : ~Holder(d)
    BY <2>1 DEF SuiteInv, HolderInv
  <2>3. \A d \in Concurrent \ {c} : ~Holder(d)'
    BY <1>1, <2>2, Kinds DEF Holder
  <2>4. HolderInv'
    BY <2>1, <2>3 DEF HolderInv
  <2>5. \A d \in Concurrent : cmd'[d] \notin {"bound", "ended"} /\ cmd'[d] # "collected"
    BY <1>1, <2>1, <2>2, Kinds DEF SuiteInv, OutcomeInv, Holder
  <2>6. OutcomeInv'
    BY <1>1, <2>1, <2>5, Kinds DEF SuiteInv, OutcomeInv
  <2> QED
    BY <1>1, <2>1, <2>4, <2>5, <2>6 DEF SuiteInv, EvidenceInv, SuccessInv
<1>3. CASE ~MayClaim
  <2>1. cmd'[c] = "refused" /\ UNCHANGED claim
    BY <1>3 DEF Claim, TypeInv, CmdType
  <2> QED
    BY <1>1, <2>1, QuietCommand
<1> QED
  BY <1>2, <1>3

LEMMA EvidenceSuite ==
    ASSUME TypeInv, SuiteInv, NEW c \in Commands, PublishEvidence(c)
    PROVE  SuiteInv'
<1>1. /\ cmd[c] = "collected" /\ cmd'[c] = "bound" /\ UNCHANGED <<arm, dir, claim>>
      /\ \A d \in Commands \ {c} : cmd'[d] = cmd[d]
  BY DEF PublishEvidence, TypeInv, CmdType
<1>2. evidence' = [by |-> c, rows |-> [a \in Arms |-> Row(<<c, a>>)]]
  BY DEF PublishEvidence
<1>3. evidence' # None /\ evidence'.by = c /\ \A a \in Arms : evidence'.rows[a] = Row(<<c, a>>)
  BY <1>2 DEF None
<1>4. c \in Concurrent /\ AllEnded(c) /\ Holder(c)
  BY <1>1 DEF SuiteInv, OutcomeInv, Holder
<1>5. \A d \in Concurrent \ {c} : cmd[d] \notin {"bound", "ended"}
  <2> SUFFICES ASSUME NEW d \in Concurrent \ {c}, cmd[d] \in {"bound", "ended"}
               PROVE  FALSE
    OBVIOUS
  <2>1. AllEnded(d) /\ 1 \in Arms
    BY BaselineSuiteAssumption DEF SuiteInv, OutcomeInv, Arms, BaselineSuiteAssumption
  <2>2. <<d, 1>> \in Of(d) /\ arm[<<d, 1>>].pc # "off"
    BY <2>1, Kinds, OfCommand DEF AllEnded
  <2>3. Holder(d)
    BY <2>2 DEF Holder
  <2> QED
    BY <1>4, <2>3 DEF SuiteInv, HolderInv
<1>6. \A d \in Concurrent : (Holder(d)' => Holder(d)) /\ (AllEnded(d)' <=> AllEnded(d))
  BY <1>1, <1>4, Kinds DEF Holder, AllEnded
<1>7. HolderInv'
  BY <1>1, <1>3, <1>6 DEF SuiteInv, HolderInv
<1>8. OutcomeInv'
  BY <1>1, <1>3, <1>4, <1>5, <1>6, Kinds DEF SuiteInv, OutcomeInv
<1>9. EvidenceInv'
  BY <1>1, <1>3, <1>4, <1>6 DEF EvidenceInv, Row
<1>10. SuccessInv'
  BY <1>1, <1>5, Kinds DEF SuccessInv
<1> QED
  BY <1>7, <1>8, <1>9, <1>10 DEF SuiteInv

LEMMA UnclaimSuite ==
    ASSUME Inv, SuiteInv, NEW c \in Commands, Unclaim(c)
    PROVE  SuiteInv'
<1>1. /\ cmd[c] = "bound" /\ UNCHANGED <<arm, dir, evidence>> /\ claim' = FALSE
      /\ \A d \in Commands \ {c} : cmd'[d] = cmd[d]
      /\ cmd'[c] = IF Valid(c) THEN "ended" ELSE "failed"
  BY DEF Unclaim, Inv, TypeInv, CmdType
<1>2. c \in Concurrent /\ AllEnded(c) /\ evidence # None /\ evidence.by = c
  BY <1>1 DEF SuiteInv, OutcomeInv
<1>3. \A d \in Concurrent : (Holder(d)' => Holder(d)) /\ (AllEnded(d)' <=> AllEnded(d))
  BY <1>1, <1>2, Kinds DEF Holder, AllEnded
<1>4. HolderInv'
  BY <1>1, <1>2, <1>3 DEF SuiteInv, HolderInv
<1>5. OutcomeInv'
  BY <1>1, <1>2, <1>3, Kinds DEF SuiteInv, OutcomeInv
<1>6. EvidenceInv'
  BY <1>1, <1>3 DEF SuiteInv, EvidenceInv, Row
<1>7. ASSUME Valid(c), NEW r \in Of(c)
      PROVE  dir[r].done = {"completion"} /\ arm[r].result = "completed"
  <2>1. r \in Runs /\ r[2] \in Arms /\ r = <<c, r[2]>>
    BY OfCommand
  <2>2. evidence.rows[r[2]] = Row(r) /\ evidence.rows[r[2]].class = "completed"
    BY <1>2, <1>7, <2>1 DEF SuiteInv, EvidenceInv, Valid
  <2>3. arm[r].result = "completed"
    BY <2>2 DEF Row
  <2> QED
    BY <2>1, <2>3 DEF Inv, RunsInv, RunInv
<1>8. SuccessInv'
  BY <1>1, <1>7, Kinds DEF SuiteInv, SuccessInv
<1> QED
  BY <1>4, <1>5, <1>6, <1>8 DEF SuiteInv

LEMMA SuiteStep ==
    ASSUME Inv, SuiteInv, [Next]_vars
    PROVE  SuiteInv'
<1>1. CASE UNCHANGED <<cmd, claim, evidence, arm, dir, owned, tests>>
  BY <1>1
     DEF SuiteInv, HolderInv, OutcomeInv, EvidenceInv, SuccessInv, Holder, AllEnded,
         Row
<1>2. ASSUME NEW r \in Runs, RunNext(r)
      PROVE  SuiteInv'
  <2>1. CASE Effect(r)
    BY <2>1, RunSuite DEF Effect
  <2>2. CASE UNCHANGED vars
    BY <1>1, <2>2 DEF vars
  <2> QED
    BY <1>2, <2>1, <2>2, RunEffect
<1>3. ASSUME NEW r \in Runs, Admit(r)
      PROVE  SuiteInv'
  <2>1. UNCHANGED <<cmd, claim, evidence, arm, dir>>
    BY <1>3 DEF Admit, files
  <2> QED
    BY <2>1
       DEF SuiteInv, HolderInv, OutcomeInv, EvidenceInv, SuccessInv, Holder,
           AllEnded, Row
<1>4. ASSUME NEW c \in Commands, CommandNext(c) \/ Kill(c)
      PROVE  SuiteInv'
  <2> USE DEF Inv, TypeInv, CmdType
  <2>1. CASE TakeLock(c)
    <3>1. UNCHANGED <<arm, dir, claim, evidence>> /\ \A d \in Commands \ {c} : cmd'[d] = cmd[d]
      BY <2>1 DEF TakeLock
    <3>2. \/ cmd'[c] = "refused"
          \/ cmd'[c] = "locked" /\ c \in Concurrent
          \/ cmd'[c] = "running" /\ c \in Serial
      <4>1. cmd'[c] \in {"refused", IF c \in Serial THEN "running" ELSE "locked"}
        BY <2>1 DEF TakeLock
      <4> QED
        BY <4>1 DEF Commands
    <3> QED
      BY <3>1, <3>2, QuietCommand
  <2>2. CASE EndSerial(c)
    <3>1. /\ UNCHANGED <<arm, dir, claim, evidence>> /\ c \in Serial
          /\ \A d \in Commands \ {c} : cmd'[d] = cmd[d]
          /\ cmd'[c] \in {"failed", "ended"}
      BY <2>2 DEF EndSerial
    <3> QED
      BY <3>1, QuietCommand
  <2>3. CASE Collect(c)
    <3>1. /\ UNCHANGED <<arm, dir, claim, evidence>> /\ c \in Concurrent
          /\ \A d \in Commands \ {c} : cmd'[d] = cmd[d]
          /\ cmd'[c] = "collected" /\ cmd[c] = "running" /\ AllEnded(c)
      BY <2>3 DEF Collect
    <3> QED
      BY <3>1, QuietCommand
  <2>4. CASE Kill(c)
    <3>1. /\ UNCHANGED <<arm, dir, claim, evidence>> /\ cmd'[c] = "killed"
          /\ \A d \in Commands \ {c} : cmd'[d] = cmd[d]
      BY <2>4 DEF Kill, files
    <3> QED
      BY <3>1, QuietCommand
  <2> QED
    BY <1>4, <2>1, <2>2, <2>3, <2>4, ClaimSuite, EvidenceSuite, UnclaimSuite
       DEF CommandNext
<1> QED
  BY <1>1, <1>2, <1>3, <1>4, StepKinds

LEMMA SuiteAlways == Spec => [](Inv /\ SuiteInv)
<1>1. Init => Inv /\ SuiteInv
  BY InitInv, InitSuite
<1>2. Inv /\ SuiteInv /\ [Next]_vars => (Inv /\ SuiteInv)'
  BY InvStep, SuiteStep
<1> QED
  BY <1>1, <1>2, PTL DEF Spec

(* One command runs the arms of a suite identity, ever: lock, claim and     *)
(* evidence leave no gap to any number of commands (runner.py).             *)
THEOREM SuiteRunsOnlyOnce == Spec => []SuiteRunsOnce
<1>1. SuiteInv => SuiteRunsOnce
  BY DEF SuiteInv, HolderInv, Holder, SuiteRunsOnce
<1> QED
  BY <1>1, SuiteAlways, PTL

(* The evidence of a suite says of every arm what its directory says, and a *)
(* command that reports success has arms that all completed (runner.py).    *)
THEOREM EvidenceAlwaysTruthful == Spec => []EvidenceTruthful
<1>1. SuiteInv => EvidenceTruthful
  BY DEF SuiteInv, OutcomeInv, EvidenceInv, SuccessInv, EvidenceTruthful
<1> QED
  BY <1>1, SuiteAlways, PTL

(***************************************************************************)
(* One hierarchical MPC training: types.                                   *)
(***************************************************************************)
BatchRoles == {"holdout", "basic_reference", "fit", "validation"}
Roles == BatchRoles \cup {"report", "over"}
TrainingPcs == {"selecting", "searching", "closing", "failing", "failed", "installing",
                "completed", "killed"}
TaskStates == [st : {"pending", "running", "failed", "done"}, did : 0 .. EpisodeSteps,
               seen : Seq(Nat)]
LaneStates == [inits : Nat, stops : Nat, tried : BOOLEAN]
Episodes == [case : Cases, role : BatchRoles, no : Nat, lane : Nat, alone : BOOLEAN]
ReportStates == [case : Cases, at : Nat, zero : BOOLEAN, good : BOOLEAN, reward : Int]
LaneTestStates == [st : {"free", "live", "stopped"}, by : Seq(Nat)]

TrainingTypes ==
    /\ workers \in WorkerCounts /\ pc \in TrainingPcs /\ case \in Cases /\ err \in BOOLEAN
    /\ lanes \in Seq(LaneStates)
    /\ laneTests \in [TestIds -> LaneTestStates]
    /\ batch \in [tasks : Seq(TaskStates), cancel : BOOLEAN]
    /\ search \in [role : Roles, fits : Nat, at : 1 .. Len(Checkpoints), cands : Seq(ReportStates),
                   low : Nat]
    /\ bank \subseteq Episodes
    /\ reports \subseteq ReportStates /\ IsFiniteSet(reports)
    /\ staged \in Seq(ReportStates)

\* Where the search stands, and what the disk holds of the case.
SearchInv ==
    /\ pc # "searching" => batch = NoBatch
    /\ pc = "searching" => search.role # "over" /\ (search.role = "report" => batch = NoBatch)
    /\ search.role \in {"holdout", "basic_reference"} => search.fits = 0
    /\ search.role = "fit" => search.fits < Checkpoint
    /\ search.role \in {"validation", "report"} => search.fits = Checkpoint
    /\ pc \in {"selecting", "searching", "closing"} => Len(staged) = case - 1
    /\ pc = "selecting" => search = NewSearch
    /\ pc = "closing" /\ ~err => search.cands # <<>>
    /\ "failure" \in done => pc = "failed"

CaseOrder ==
    /\ \A e \in bank : e.case <= case
    /\ \A r \in reports : r.case <= case
    /\ pc = "selecting" \/ (pc = "searching" /\ batch = NoBatch /\ search.role = "holdout") =>
          \A e \in bank : e.case < case
    /\ pc = "selecting" => \A r \in reports : r.case < case
    /\ pc = "searching" =>
          \A r \in reports : r.case = case => \E j \in 1 .. search.at - 1 : r.at = Checkpoints[j]
    /\ \A r, q \in reports : r.case = q.case /\ r.at = q.at => r = q

(***************************************************************************)
(* Threads that share a lane.                                              *)
(***************************************************************************)
On(l) == {k \in Tasks : k % workers = l}
Unfinished(l) == {k \in On(l) : Task(k).st = "running" /\ Task(k).did < EpisodeSteps}
By(l) == laneTests[<<case, l>>].by
AllBy(k, n) == [s \in 1 .. n |-> k]

\* A thread will see that another one used its lane.
Disturbed(l) ==
    \E k \in Unfinished(l) :
        Len(By(l)) # Task(k).did \/ \E j \in Unfinished(l) : j # k

Undisturbed(l) ==
    /\ \A k \in Unfinished(l) : By(l) = AllBy(k, Task(k).did)
    /\ \A k \in On(l) : Task(k).did = EpisodeSteps => Task(k).seen = AllBy(k, EpisodeSteps)
    /\ \A e \in bank : e.case = case /\ e.lane = l => e.alone

BatchInv ==
    pc = "searching" /\ batch # NoBatch =>
        /\ Len(batch.tasks) = Count
        /\ \A k \in Tasks : Task(k).st = "pending" => Task(k).did = 0
        /\ batch.cancel => \E k \in Tasks : Task(k).st = "failed"
        /\ \A l \in LaneIds(workers) :
              Undisturbed(l) \/ (search.role = "holdout" /\ (batch.cancel \/ Disturbed(l)))
        /\ search.role = "holdout" =>
              \A k \in Tasks : k \in Numbers(case, "holdout") => Task(k).st = "done"

HoldoutMissing == \E n \in 0 .. Holdouts - 1 : n \notin Numbers(case, "holdout")

\* An episode that was not alone is a hold-out of the case that fails because of it.
AloneInv ==
    \A e \in bank : \/ e.alone
                    \/ /\ e.case = case /\ e.role = "holdout" /\ Len(staged) = case - 1
                       /\ e.lane \in LaneIds(workers)
                       /\ \/ pc = "searching" /\ batch # NoBatch /\ search.role = "holdout"
                          \/ pc = "killed"
                          \/ /\ pc \in {"failing", "failed"} \/ (pc = "closing" /\ err)
                             /\ HoldoutMissing

TrainingInv == TrainingTypes /\ SearchInv /\ CaseOrder /\ BatchInv /\ AloneInv

-----------------------------------------------------------------------------
LEMMA MaxOf ==
    ASSUME NEW S \in SUBSET Int, IsFiniteSet(S), S # {}
    PROVE  Max(S) \in S /\ \A y \in S : Max(S) >= y
<1> DEFINE Above(x) == {y \in S : y > x}
           R == StrictSubsetOrdering(S)
           T == {Above(x) : x \in S}
<1>1. IsWellFoundedOn(R, FiniteSubsetsOf(S))
  BY FS_StrictSubsetOrderingWellFounded
<1>2. T \subseteq FiniteSubsetsOf(S) /\ T # {}
  <2>1. ASSUME NEW x \in S  PROVE Above(x) \in FiniteSubsetsOf(S)
    <3>1. Above(x) \in SUBSET S
      OBVIOUS
    <3> QED
      BY <3>1, FS_Subset DEF FiniteSubsetsOf
  <2> HIDE DEF Above
  <2> QED
    BY <2>1
<1>3. \E U \in T : \A V \in T : <<V, U>> \notin R
  <2> HIDE DEF R, T
  <2> QED
    BY <1>1, <1>2, WFMin
<1>4. PICK x \in S : \A y \in S : <<Above(y), Above(x)>> \notin R
  BY <1>3
<1>5. ASSUME NEW y \in S, y > x  PROVE FALSE
  <2>0. x \in Int /\ y \in Int
    BY <1>4
  <2>1. Above(y) \subseteq Above(x)
    <3> SUFFICES ASSUME NEW z \in Above(y)
                 PROVE  z \in Above(x)
      OBVIOUS
    <3>1. z \in Int /\ z \in S
      OBVIOUS
    <3> QED
      BY <1>5, <2>0, <3>1
  <2>2. y \in Above(x) /\ y \notin Above(y)
    BY <1>5
  <2>3. <<Above(y), Above(x)>> \in R
    BY <2>1, <2>2 DEF StrictSubsetOrdering
  <2> QED
    BY <1>4, <2>3
<1>6. \A y \in S : x >= y
  BY <1>5
<1> QED
  BY <1>6 DEF Max
LEMMA MinOf ==
    ASSUME NEW S \in SUBSET Int, IsFiniteSet(S), S # {}
    PROVE  Min(S) \in S /\ \A y \in S : Min(S) <= y
<1> DEFINE Below(x) == {y \in S : y < x}
           R == StrictSubsetOrdering(S)
           T == {Below(x) : x \in S}
<1>1. IsWellFoundedOn(R, FiniteSubsetsOf(S))
  BY FS_StrictSubsetOrderingWellFounded
<1>2. T \subseteq FiniteSubsetsOf(S) /\ T # {}
  <2>1. ASSUME NEW x \in S  PROVE Below(x) \in FiniteSubsetsOf(S)
    <3>1. Below(x) \in SUBSET S
      OBVIOUS
    <3> QED
      BY <3>1, FS_Subset DEF FiniteSubsetsOf
  <2> HIDE DEF Below
  <2> QED
    BY <2>1
<1>3. \E U \in T : \A V \in T : <<V, U>> \notin R
  <2> HIDE DEF R, T
  <2> QED
    BY <1>1, <1>2, WFMin
<1>4. PICK x \in S : \A y \in S : <<Below(y), Below(x)>> \notin R
  BY <1>3
<1>5. ASSUME NEW y \in S, y < x  PROVE FALSE
  <2>0. x \in Int /\ y \in Int
    BY <1>4
  <2>1. Below(y) \subseteq Below(x)
    <3> SUFFICES ASSUME NEW z \in Below(y)
                 PROVE  z \in Below(x)
      OBVIOUS
    <3>1. z \in Int /\ z \in S
      OBVIOUS
    <3> QED
      BY <1>5, <2>0, <3>1
  <2>2. y \in Below(x) /\ y \notin Below(y)
    BY <1>5
  <2>3. <<Below(y), Below(x)>> \in R
    BY <2>1, <2>2 DEF StrictSubsetOrdering
  <2> QED
    BY <1>4, <2>3
<1>6. \A y \in S : x <= y
  BY <1>5
<1> QED
  BY <1>6 DEF Min
\* A finite set of reports has an earliest and a latest.
LEMMA EndReports ==
    ASSUME NEW Z, IsFiniteSet(Z), Z # {}, \A z \in Z : z.at \in Nat
    PROVE  /\ \E z \in Z : \A y \in Z : z.at <= y.at
           /\ \E z \in Z : z.at = Max({r.at : r \in Z}) /\ \A y \in Z : z.at >= y.at
<1> DEFINE A == {r.at : r \in Z}
           f == [z \in Z |-> z.at]
<1>1. IsFiniteSet(A)
  <2>1. f \in Surjection(Z, A)
    BY DEF Surjection
  <2> QED
    BY <2>1, FS_Surjection
<1>2. A \in SUBSET Int /\ A # {}
  OBVIOUS
<1>3. Min(A) \in A /\ \A y \in A : Min(A) <= y
  <2> HIDE DEF A
  <2> QED
    BY <1>1, <1>2, MinOf
<1>4. Max(A) \in A /\ \A y \in A : Max(A) >= y
  <2> HIDE DEF A
  <2> QED
    BY <1>1, <1>2, MaxOf
<1>5. PICK z \in Z : z.at = Min(A)
  BY <1>3
<1>6. PICK z2 \in Z : z2.at = Max(A)
  BY <1>4
<1>7. \A y \in Z : z.at <= y.at
  BY <1>3, <1>5
<1>8. \A y \in Z : z2.at >= y.at
  BY <1>4, <1>6
<1> QED
  BY <1>6, <1>7, <1>8

LEMMA PairCardinality ==
    ASSUME NEW x, NEW y, x # y
    PROVE  IsFiniteSet({x, y}) /\ Cardinality({x, y}) = 2
<1>1. IsFiniteSet({x}) /\ Cardinality({x}) = 1
  BY FS_Singleton
<1>2. Cardinality({x} \cup {y}) = IF y \in {x} THEN Cardinality({x}) ELSE Cardinality({x}) + 1
  BY <1>1, FS_AddElement
<1>3. IsFiniteSet({x} \cup {y})
  BY <1>1, FS_AddElement
<1>4. {x, y} = {x} \cup {y} /\ y \notin {x}
  OBVIOUS
<1>5. Cardinality({x} \cup {y}) = 2
  BY <1>1, <1>2, <1>4
<1> QED
  BY <1>3, <1>4, <1>5

\* The first two reports, and the last one behind them.
LEMMA TwoFirstReports ==
    ASSUME NEW Z, IsFiniteSet(Z), \A z \in Z : z.at \in Nat,
           \A y, z \in Z : y.at = z.at => y = z, Cardinality(Z) >= 2
    PROVE  LET A == {r.at : r \in {z \in Z : Cardinality({y \in Z : y.at < z.at}) < 2}}
           IN  /\ Cardinality(A) = 2
               /\ Cardinality(Z) > 2 => \A n \in A : n < Max({r.at : r \in Z})
<1> DEFINE Before(z) == {y \in Z : y.at < z.at}
           A == {r.at : r \in {z \in Z : Cardinality(Before(z)) < 2}}
<1>1. Z # {} /\ Cardinality(Z) \in Nat
  BY FS_EmptySet, FS_CardinalityType
<1>2. PICK first \in Z : \A y \in Z : first.at <= y.at
  BY <1>1, EndReports
<1>3. IsFiniteSet(Z \ {first}) /\ Cardinality(Z \ {first}) = Cardinality(Z) - 1
  BY FS_RemoveElement
<1>4. Z \ {first} # {}
  BY <1>1, <1>3, FS_EmptySet
<1>5. PICK second \in Z \ {first} : \A y \in Z \ {first} : second.at <= y.at
  BY <1>3, <1>4, EndReports
<1>6. \A y, z \in Z : y.at \in Nat /\ z.at \in Nat
  OBVIOUS
<1>7. first.at < second.at
  BY <1>2, <1>5, <1>6
<1>8. ASSUME NEW z \in Z  PROVE first.at < z.at <=> z # first
  BY <1>2, <1>6
<1>9. ASSUME NEW z \in Z  PROVE second.at < z.at <=> z \notin {first, second}
  <2>1. CASE z \in {first, second}
    BY <1>6, <1>7, <2>1
  <2>2. CASE z \notin {first, second}
    <3>1. second.at <= z.at /\ second.at # z.at
      BY <1>5, <2>2
    <3> QED
      BY <1>6, <2>2, <3>1
  <2> QED
    BY <2>1, <2>2
<1>10. Before(first) = {} /\ Cardinality(Before(first)) = 0
  <2>1. Before(first) = {}
    BY <1>2, <1>6
  <2> QED
    BY <2>1, FS_EmptySet
<1>11. Cardinality(Before(second)) = 1
  <2>1. ASSUME NEW y \in Z  PROVE y.at < second.at <=> y = first
    BY <1>5, <1>6, <1>7, <1>9
  <2>2. Before(second) = {first}
    BY <2>1
  <2> QED
    BY <2>2, FS_Singleton
<1>12. ASSUME NEW z \in Z, z \notin {first, second}
       PROVE  ~(Cardinality(Before(z)) < 2)
  <2>1. {first, second} \subseteq Before(z)
    BY <1>8, <1>9, <1>12
  <2>2. IsFiniteSet(Before(z))
    BY FS_Subset
  <2>3. Cardinality({first, second}) <= Cardinality(Before(z)) /\ Cardinality(Before(z)) \in Nat
    <3> HIDE DEF Before
    <3> QED
      BY <2>1, <2>2, FS_Subset, FS_CardinalityType
  <2>4. Cardinality({first, second}) = 2
    BY <1>5, PairCardinality
  <2> QED
    BY <2>3, <2>4
<1>13. {z \in Z : Cardinality(Before(z)) < 2} = {first, second}
  <2> HIDE DEF Before
  <2> QED
    BY <1>5, <1>10, <1>11, <1>12
<1>14. A = {first.at, second.at} /\ first.at # second.at
  <2>1. first.at # second.at
    BY <1>6, <1>7
  <2> HIDE DEF Before
  <2> QED
    BY <1>13, <2>1
<1>15. Cardinality(A) = 2
  <2> HIDE DEF A
  <2> QED
    BY <1>14, PairCardinality
<1>16. ASSUME Cardinality(Z) > 2  PROVE \A n \in A : n < Max({r.at : r \in Z})
  <2>1. PICK last \in Z : last.at = Max({r.at : r \in Z}) /\ \A y \in Z : last.at >= y.at
    BY <1>1, EndReports
  <2>2. PICK third \in Z : third \notin {first, second}
    <3> DEFINE Y == Z \ {first}
    <3>1. IsFiniteSet(Y \ {second}) /\ Cardinality(Y \ {second}) = Cardinality(Y) - 1
      <4>1. IsFiniteSet(Y) /\ second \in Y
        BY <1>3, <1>5
      <4> HIDE DEF Y
      <4> QED
        BY <4>1, FS_RemoveElement
    <3>2. Cardinality(Y \ {second}) > 0
      BY <1>1, <1>3, <1>16, <3>1
    <3>3. Y \ {second} # {}
      <4>1. Cardinality({}) = 0
        BY FS_EmptySet
      <4> QED
        BY <3>2, <4>1
    <3> QED
      BY <3>3
  <2>3. first.at < third.at /\ second.at < third.at /\ third.at <= last.at
    BY <1>8, <1>9, <2>1, <2>2
  <2>4. first.at < last.at /\ second.at < last.at
    BY <1>5, <1>6, <2>3
  <2> HIDE DEF A
  <2> QED
    BY <1>14, <2>1, <2>4
<1> QED
  BY <1>15, <1>16

-----------------------------------------------------------------------------
LEMMA Remainder ==
    ASSUME NEW w \in Nat \ {0}, NEW i \in Nat
    PROVE  i % w \in LaneIds(w) /\ i % w \in Nat /\ (i < w => i % w = i)
<1>1. i % w \in 0 .. w - 1
  OBVIOUS
<1>2. i < w => i % w = i
  OBVIOUS
<1> QED
  BY <1>1, <1>2 DEF LaneIds

LEMMA LeastOfTwo ==
    ASSUME NEW a \in Int, NEW b \in Int
    PROVE  Min({a, b}) \in {a, b} /\ Min({a, b}) <= a /\ Min({a, b}) <= b
<1>1. \E x \in {a, b} : \A y \in {a, b} : x <= y
  <2>1. a <= b \/ b <= a
    OBVIOUS
  <2> QED
    BY <2>1
<1>2. Min({a, b}) \in {a, b} /\ \A y \in {a, b} : Min({a, b}) <= y
  BY <1>1 DEF Min
<1> QED
  BY <1>2

LEMMA WorkersAndTests ==
    ASSUME workers \in WorkerCounts, case \in Cases
    PROVE  /\ workers \in Nat \ {0}
           /\ \A l \in LaneIds(workers) : <<case, l>> \in TestIds
<1>1. workers \in Nat \ {0} /\ WorkerCounts \in SUBSET Int /\ IsFiniteSet(WorkerCounts)
      /\ WorkerCounts # {}
  BY MpcTrainingAssumption
<1>2. Max(WorkerCounts) \in Int /\ workers <= Max(WorkerCounts)
  <2>1. Max(WorkerCounts) \in WorkerCounts /\ \A y \in WorkerCounts : Max(WorkerCounts) >= y
    BY <1>1, MaxOf
  <2> QED
    BY <1>1, <2>1
<1>3. \A l \in LaneIds(workers) : l \in LaneIds(Max(WorkerCounts))
  BY <1>1, <1>2 DEF LaneIds
<1> QED
  BY <1>1, <1>3 DEF TestIds

\* How a batch of each role is collected.
LEMMA RoleTable ==
    /\ search.role = "holdout" =>
          Count = Holdouts /\ First = 0 /\ \A f : NextRole(f) = "basic_reference"
    /\ search.role = "basic_reference" =>
          Count = 1 /\ First = 0 /\ \A f : NextRole(f) = "fit"
    /\ search.role = "fit" =>
          /\ Count = Min({workers, Checkpoint - search.fits}) /\ First = search.fits
          /\ \A f : NextRole(f) = IF f = Checkpoint THEN "validation" ELSE "fit"
    /\ search.role = "validation" =>
          Count = 1 /\ First = Checkpoint /\ \A f : NextRole(f) = "report"
<1>1. search.role = "holdout" =>
         Count = Holdouts /\ First = 0 /\ \A f : NextRole(f) = "basic_reference"
  BY DEF Count, First, NextRole
<1>2. search.role = "basic_reference" =>
         Count = 1 /\ First = 0 /\ \A f : NextRole(f) = "fit"
  BY DEF Count, First, NextRole
<1>3. search.role = "fit" =>
         /\ Count = Min({workers, Checkpoint - search.fits}) /\ First = search.fits
         /\ \A f : NextRole(f) = IF f = Checkpoint THEN "validation" ELSE "fit"
  BY DEF Count, First, NextRole
<1>4. search.role = "validation" =>
         Count = 1 /\ First = Checkpoint /\ \A f : NextRole(f) = "report"
  BY DEF Count, First, NextRole
<1> QED
  BY <1>1, <1>2, <1>3, <1>4

LEMMA CheckpointType ==
    ASSUME TrainingTypes
    PROVE  /\ Checkpoint \in Nat \ {0}
           /\ search.at < Len(Checkpoints) =>
                 Checkpoints[search.at + 1] \in Nat /\ Checkpoint < Checkpoints[search.at + 1]
           /\ \A j \in 1 .. search.at - 1 : Checkpoints[j] # Checkpoint
<1>1. search.at \in 1 .. Len(Checkpoints)
  BY DEF TrainingTypes
<1>2. Checkpoints \in Seq(Nat \ {0}) /\ DOMAIN Checkpoints = 1 .. Len(Checkpoints)
      /\ Len(Checkpoints) \in Nat
  BY MpcTrainingAssumption
<1>3. \A i, j \in 1 .. Len(Checkpoints) : i < j => Checkpoints[i] < Checkpoints[j]
  BY <1>2, MpcTrainingAssumption
<1>4. \A i \in 1 .. Len(Checkpoints) : Checkpoints[i] \in Nat \ {0}
  BY <1>2
<1>5. \A j \in 1 .. search.at - 1 : Checkpoints[j] # Checkpoints[search.at]
  <2> SUFFICES ASSUME NEW j \in 1 .. search.at - 1
               PROVE  Checkpoints[j] # Checkpoints[search.at]
    OBVIOUS
  <2>1. j \in 1 .. Len(Checkpoints) /\ j < search.at
    BY <1>1, <1>2
  <2>2. Checkpoints[j] < Checkpoints[search.at]
    BY <1>1, <1>3, <2>1
  <2> QED
    BY <1>1, <1>4, <2>1, <2>2
<1>6. ASSUME search.at < Len(Checkpoints)
      PROVE  /\ Checkpoints[search.at + 1] \in Nat
             /\ Checkpoints[search.at] < Checkpoints[search.at + 1]
  <2>1. search.at + 1 \in 1 .. Len(Checkpoints) /\ search.at < search.at + 1
    BY <1>1, <1>2, <1>6
  <2> QED
    BY <1>1, <1>3, <1>4, <2>1
<1> QED
  BY <1>1, <1>4, <1>5, <1>6 DEF Checkpoint

\* Only the hold-outs of a case may be more than the lanes.
LEMMA CountBounds ==
    ASSUME TrainingTypes, SearchInv, search.role \in BatchRoles
    PROVE  /\ Count \in Nat \ {0}
           /\ search.role # "holdout" => Count <= workers
           /\ search.role = "fit" => search.fits + Count <= Checkpoint
<1>1. workers \in Nat \ {0} /\ Checkpoint \in Nat \ {0} /\ search.fits \in Nat
  BY WorkersAndTests, CheckpointType DEF TrainingTypes
<1>2. CASE search.role = "holdout"
  BY <1>2, RoleTable, MpcTrainingAssumption
<1>3. CASE search.role = "fit"
  <2>1. search.fits < Checkpoint
    BY <1>3 DEF SearchInv
  <2>2. Count = Min({workers, Checkpoint - search.fits})
    BY <1>3, RoleTable
  <2>3. /\ Count \in {workers, Checkpoint - search.fits}
        /\ Count <= workers /\ Count <= Checkpoint - search.fits
    <3>1. workers \in Int /\ Checkpoint - search.fits \in Int
      BY <1>1
    <3> QED
      BY <2>2, <3>1, LeastOfTwo
  <2> QED
    BY <1>1, <1>3, <2>1, <2>3
<1>4. CASE search.role \in {"basic_reference", "validation"}
  <2>1. Count = 1
    BY <1>4, RoleTable
  <2> QED
    BY <1>1, <1>4, <2>1
<1> QED
  BY <1>2, <1>3, <1>4 DEF BatchRoles

-----------------------------------------------------------------------------
BatchStates == [tasks : Seq(TaskStates), cancel : BOOLEAN]

LEMMA TaskTypes ==
    ASSUME TrainingTypes
    PROVE  /\ Tasks = 0 .. Len(batch.tasks) - 1 /\ Len(batch.tasks) \in Nat
           /\ \A k \in Tasks : k \in Nat /\ Task(k) \in TaskStates /\ k + 1 \in DOMAIN batch.tasks
           /\ EpisodeSteps \in Nat \ {0}
<1>1. batch.tasks \in Seq(TaskStates)
  BY DEF TrainingTypes
<1>2. Len(batch.tasks) \in Nat /\ DOMAIN batch.tasks = 1 .. Len(batch.tasks)
      /\ \A k \in 1 .. Len(batch.tasks) : batch.tasks[k] \in TaskStates
  BY <1>1
<1>3. Tasks = 0 .. Len(batch.tasks) - 1
  BY DEF Tasks
<1>4. \A k \in Tasks : k \in Nat /\ k + 1 \in 1 .. Len(batch.tasks)
  BY <1>2, <1>3
<1>5. EpisodeSteps \in Nat \ {0}
  BY MpcTrainingAssumption
<1> QED
  BY <1>2, <1>3, <1>4, <1>5 DEF Task

LEMMA PutTask ==
    ASSUME TrainingTypes, NEW i \in Tasks, NEW task \in TaskStates
    PROVE  /\ Put(i, task) \in BatchStates
           /\ Put(i, task).cancel = batch.cancel
           /\ Len(Put(i, task).tasks) = Len(batch.tasks)
           /\ Put(i, task).tasks[i + 1] = task
           /\ \A k \in Tasks : k # i => Put(i, task).tasks[k + 1] = batch.tasks[k + 1]
<1>1. batch \in BatchStates /\ i + 1 \in 1 .. Len(batch.tasks) /\ i \in Nat
  BY TaskTypes DEF TrainingTypes, BatchStates
<1>2. batch.tasks \in Seq(TaskStates)
  BY <1>1 DEF BatchStates
<1>3. /\ [batch.tasks EXCEPT ![i + 1] = task] \in Seq(TaskStates)
      /\ Len([batch.tasks EXCEPT ![i + 1] = task]) = Len(batch.tasks)
      /\ \A k \in 1 .. Len(batch.tasks) : k # i + 1 =>
            [batch.tasks EXCEPT ![i + 1] = task][k] = batch.tasks[k]
      /\ [batch.tasks EXCEPT ![i + 1] = task][i + 1] = task
  BY <1>1, <1>2
<1>4. /\ Put(i, task).tasks = [batch.tasks EXCEPT ![i + 1] = task]
      /\ Put(i, task).cancel = batch.cancel
      /\ Put(i, task) = [tasks |-> Put(i, task).tasks, cancel |-> batch.cancel]
  BY <1>1 DEF Put, BatchStates
<1>5. \A k \in Tasks : k + 1 \in 1 .. Len(batch.tasks) /\ k \in Nat
  BY TaskTypes
<1>6. Put(i, task) \in BatchStates
  BY <1>1, <1>3, <1>4 DEF BatchStates
<1> QED
  BY <1>1, <1>3, <1>4, <1>5, <1>6

LEMMA FailTask ==
    ASSUME TrainingTypes, NEW i \in Tasks
    PROVE  /\ Fail(i) \in BatchStates
           /\ Fail(i).cancel = TRUE
           /\ Len(Fail(i).tasks) = Len(batch.tasks)
           /\ Fail(i).tasks[i + 1] = [Task(i) EXCEPT !.st = "failed"]
           /\ \A k \in Tasks : k # i => Fail(i).tasks[k + 1] = batch.tasks[k + 1]
<1> DEFINE task == [Task(i) EXCEPT !.st = "failed"]
<1>1. task \in TaskStates
  BY TaskTypes DEF TaskStates
<1>2. Put(i, task) \in BatchStates
  BY <1>1, PutTask
<1>3. Fail(i) = [Put(i, task) EXCEPT !.cancel = TRUE]
  BY DEF Fail, Put, Task, TrainingTypes
<1>4. Fail(i).tasks = Put(i, task).tasks /\ Fail(i).cancel = TRUE /\ Fail(i) \in BatchStates
  <2> HIDE DEF task
  <2> QED
    BY <1>2, <1>3 DEF BatchStates
<1> HIDE DEF task
<1>5. /\ Len(Put(i, task).tasks) = Len(batch.tasks)
      /\ Put(i, task).tasks[i + 1] = task
      /\ \A k \in Tasks : k # i => Put(i, task).tasks[k + 1] = batch.tasks[k + 1]
  BY <1>1, PutTask
<1> QED
  BY <1>4, <1>5 DEF task

-----------------------------------------------------------------------------
(* Lanes: what a step does to the tasks that share one. *)

\* Nothing happens on this lane.
LEMMA LaneKept ==
    ASSUME NEW l, workers' = workers, case' = case, Tasks' = Tasks,
           \A k \in On(l) : batch'.tasks[k + 1] = batch.tasks[k + 1],
           laneTests'[<<case, l>>].by = laneTests[<<case, l>>].by,
           \A e \in bank' : e.case = case /\ e.lane = l => e \in bank
    PROVE  /\ Undisturbed(l) => Undisturbed(l)'
           /\ Disturbed(l) => Disturbed(l)'
<1>1. On(l)' = On(l) /\ By(l)' = By(l)
  BY DEF On, By
<1>2. \A k \in On(l) : Task(k)' = Task(k)
  BY DEF Task
<1>3. Unfinished(l)' = Unfinished(l)
  BY <1>1, <1>2 DEF Unfinished
<1>4. \A k \in Unfinished(l) : Task(k)' = Task(k)
  BY <1>2 DEF Unfinished
<1>5. Undisturbed(l) => Undisturbed(l)'
  <2> SUFFICES ASSUME Undisturbed(l)
               PROVE  Undisturbed(l)'
    OBVIOUS
  <2>1. \A k \in Unfinished(l)' : By(l)' = AllBy(k, Task(k)'.did)
    BY <1>1, <1>3, <1>4 DEF Undisturbed
  <2>2. \A k \in On(l)' : Task(k)'.did = EpisodeSteps => Task(k)'.seen = AllBy(k, EpisodeSteps)
    BY <1>1, <1>2 DEF Undisturbed
  <2>3. \A e \in bank' : e.case = case /\ e.lane = l => e.alone
    BY DEF Undisturbed
  <2> QED
    BY <2>1, <2>2, <2>3 DEF Undisturbed, AllBy
<1>6. Disturbed(l) => Disturbed(l)'
  BY <1>1, <1>3, <1>4 DEF Disturbed
<1> QED
  BY <1>5, <1>6

\* Tasks that are less than the lanes have a lane each.
LEMMA OwnLanes ==
    ASSUME TrainingTypes, SearchInv, search.role \in BatchRoles, Len(batch.tasks) = Count,
           NEW i \in Tasks, NEW k \in Tasks, i # k, k % workers = i % workers
    PROVE  search.role = "holdout"
<1> SUFFICES ASSUME search.role # "holdout"
             PROVE  FALSE
  OBVIOUS
<1>1. workers \in Nat \ {0} /\ Count <= workers /\ Count \in Nat
  BY CountBounds, WorkersAndTests DEF TrainingTypes
<1>2. i \in Nat /\ k \in Nat /\ i < workers /\ k < workers
  BY <1>1, TaskTypes
<1> QED
  BY <1>1, <1>2, Remainder

\* A thread takes up a lane.
LEMMA LaneTaken ==
    ASSUME TrainingTypes, SearchInv, search.role \in BatchRoles, Len(batch.tasks) = Count,
           NEW i \in Tasks, Task(i).st = "pending", Task(i).did = 0,
           Undisturbed(i % workers) \/ (search.role = "holdout" /\ Disturbed(i % workers)),
           workers' = workers, case' = case, bank' = bank,
           batch' = Put(i, [Task(i) EXCEPT !.st = "running"]),
           laneTests'[<<case, i % workers>>].by = <<>>
    PROVE  \/ Undisturbed(i % workers)'
           \/ search.role = "holdout" /\ Disturbed(i % workers)'
<1> DEFINE l == i % workers
           task == [Task(i) EXCEPT !.st = "running"]
<1>1. Task(i) \in TaskStates /\ i \in Nat /\ EpisodeSteps \in Nat \ {0}
  BY TaskTypes
<1>2. task \in TaskStates /\ task.st = "running" /\ task.did = 0
  BY <1>1 DEF TaskStates
<1>3. Tasks' = Tasks /\ Task(i)' = task /\ \A k \in Tasks : k # i => Task(k)' = Task(k)
  <2>1. /\ Len(batch'.tasks) = Len(batch.tasks) /\ batch'.tasks[i + 1] = task
        /\ \A k \in Tasks : k # i => batch'.tasks[k + 1] = batch.tasks[k + 1]
    BY <1>2, PutTask
  <2> QED
    BY <2>1 DEF Tasks, Task
<1> HIDE DEF task
<1>4. On(l)' = On(l) /\ i \in On(l)
  BY <1>3 DEF On
<1>5. i \in Unfinished(l)' /\ i \notin Unfinished(l)
  BY <1>1, <1>2, <1>3, <1>4 DEF Unfinished
<1>6. ASSUME NEW k, k # i  PROVE k \in Unfinished(l)' <=> k \in Unfinished(l)
  BY <1>3, <1>4, <1>6 DEF Unfinished, On
<1>7. CASE Unfinished(l) = {}
  <2>1. Undisturbed(l)
    BY <1>7 DEF Disturbed
  <2>2. \A k \in Unfinished(l)' : k = i
    BY <1>6, <1>7
  <2>3. By(l)' = AllBy(i, 0)
    BY DEF By, AllBy
  <2>4. \A k \in On(l)' : Task(k)'.did = EpisodeSteps => Task(k)' = Task(k) /\ k \in On(l)
    BY <1>1, <1>2, <1>3, <1>4 DEF On
  <2>5. \A k \in Unfinished(l)' : By(l)' = AllBy(k, Task(k)'.did)
    BY <1>2, <1>3, <2>2, <2>3
  <2>6. \A k \in On(l)' : Task(k)'.did = EpisodeSteps =>
                             Task(k)'.seen = AllBy(k, EpisodeSteps)
    BY <2>1, <2>4 DEF Undisturbed
  <2> QED
    BY <2>1, <2>5, <2>6 DEF Undisturbed, AllBy
<1>8. CASE Unfinished(l) # {}
  <2>1. PICK k \in Unfinished(l) : TRUE
    BY <1>8
  <2>2. k # i /\ k \in Unfinished(l)' /\ k \in Tasks /\ k % workers = l
    BY <1>5, <1>6, <2>1 DEF Unfinished, On
  <2>3. Disturbed(l)'
    BY <1>5, <2>2 DEF Disturbed
  <2>4. search.role = "holdout"
    BY <2>2, OwnLanes
  <2> QED
    BY <2>3, <2>4
<1> QED
  BY <1>7, <1>8

\* A thread advances its test in time.
LEMMA LaneAdvanced ==
    ASSUME TrainingTypes, SearchInv, search.role \in BatchRoles, Len(batch.tasks) = Count,
           NEW i \in Tasks, Task(i).st = "running", Task(i).did < EpisodeSteps,
           Undisturbed(i % workers) \/ (search.role = "holdout" /\ Disturbed(i % workers)),
           workers' = workers, case' = case, bank' = bank,
           laneTests'[<<case, i % workers>>].by = Append(By(i % workers), i),
           Len(Append(By(i % workers), i)) = Task(i).did + 1,
           batch' = Put(i, [st |-> "running", did |-> Task(i).did + 1,
                            seen |-> Append(By(i % workers), i)])
    PROVE  \/ Undisturbed(i % workers)'
           \/ search.role = "holdout" /\ Disturbed(i % workers)'
<1> DEFINE l == i % workers
           task == [st |-> "running", did |-> Task(i).did + 1, seen |-> Append(By(l), i)]
<1>1. Task(i) \in TaskStates /\ i \in Nat /\ EpisodeSteps \in Nat \ {0} /\ Task(i).did \in Nat
  BY TaskTypes DEF TaskStates
<1>2. By(l) \in Seq(Nat)
  <2>1. <<case, l>> \in TestIds
    BY <1>1, Remainder, WorkersAndTests DEF TrainingTypes
  <2> QED
    BY <2>1 DEF By, TrainingTypes, LaneTestStates
<1>3. task \in TaskStates
  BY <1>1, <1>2 DEF TaskStates
<1>4. Tasks' = Tasks /\ Task(i)' = task /\ \A k \in Tasks : k # i => Task(k)' = Task(k)
  <2>1. /\ Len(batch'.tasks) = Len(batch.tasks) /\ batch'.tasks[i + 1] = task
        /\ \A k \in Tasks : k # i => batch'.tasks[k + 1] = batch.tasks[k + 1]
    BY <1>3, PutTask
  <2> QED
    BY <2>1 DEF Tasks, Task
<1>5. task.st = "running" /\ task.did = Task(i).did + 1 /\ task.seen = Append(By(l), i)
  OBVIOUS
<1> HIDE DEF task
<1>6. On(l)' = On(l) /\ i \in On(l) /\ By(l)' = Append(By(l), i)
  BY <1>4 DEF On, By
<1>7. i \in Unfinished(l) /\ (i \in Unfinished(l)' <=> Task(i).did + 1 # EpisodeSteps)
  BY <1>1, <1>4, <1>5, <1>6 DEF Unfinished
<1>8. ASSUME NEW k, k # i  PROVE k \in Unfinished(l)' <=> k \in Unfinished(l)
  BY <1>4, <1>6, <1>8 DEF Unfinished, On
<1>9. Len(By(l)) = Task(i).did /\ Len(By(l)') = Task(i).did + 1
  BY <1>1, <1>2, <1>6
<1>10. CASE \E k \in Unfinished(l) : k # i
  <2>1. PICK k \in Unfinished(l) : k # i
    BY <1>10
  <2>2. k \in Tasks /\ k % workers = l /\ Task(k).did < EpisodeSteps /\ k \in Unfinished(l)'
    BY <1>8, <2>1 DEF Unfinished, On
  <2>3. search.role = "holdout"
    BY <2>1, <2>2, OwnLanes
  <2>4. Task(k)' = Task(k)
    BY <1>4, <2>1, <2>2
  <2>5. CASE Task(i).did + 1 # EpisodeSteps
    BY <1>7, <2>1, <2>2, <2>3, <2>5 DEF Disturbed
  <2>6. CASE Task(i).did + 1 = EpisodeSteps
    <3>1. Len(By(l)') # Task(k)'.did
      BY <1>9, <2>2, <2>4, <2>6
    <3> QED
      BY <2>2, <2>3, <3>1 DEF Disturbed
  <2> QED
    BY <2>3, <2>5, <2>6
<1>11. CASE \A k \in Unfinished(l) : k = i
  <2>1. ~Disturbed(l)
    BY <1>9, <1>11 DEF Disturbed
  <2>2. Undisturbed(l)
    BY <2>1
  <2>3. By(l) = AllBy(i, Task(i).did)
    BY <1>7, <2>2 DEF Undisturbed
  <2>4. By(l)' = AllBy(i, Task(i).did + 1)
    <3>1. Append([s \in 1 .. Task(i).did |-> i], i) = [s \in 1 .. Task(i).did + 1 |-> i]
      BY <1>1
    <3> QED
      BY <1>6, <2>3, <3>1 DEF AllBy
  <2>5. \A k \in Unfinished(l)' : k = i
    BY <1>8, <1>11
  <2>6. \A k \in Unfinished(l)' : By(l)' = AllBy(k, Task(k)'.did)
    BY <1>4, <1>5, <2>4, <2>5
  <2>7. \A k \in On(l)' : Task(k)'.did = EpisodeSteps =>
                             Task(k)'.seen = AllBy(k, EpisodeSteps)
    <3> SUFFICES ASSUME NEW k \in On(l)', Task(k)'.did = EpisodeSteps
                 PROVE  Task(k)'.seen = AllBy(k, EpisodeSteps)
      OBVIOUS
    <3>1. k \in On(l) /\ k \in Tasks
      BY <1>6 DEF On
    <3>2. CASE k = i
      BY <1>4, <1>5, <1>6, <2>4, <3>2
    <3>3. CASE k # i
      BY <1>4, <2>2, <3>1, <3>3 DEF Undisturbed
    <3> QED
      BY <3>2, <3>3
  <2> QED
    BY <2>2, <2>6, <2>7 DEF Undisturbed, AllBy
<1> QED
  BY <1>10, <1>11

\* A task ends, well or not: it shares its lane with nobody any more.
LEMMA LaneLeft ==
    ASSUME TrainingTypes, NEW i \in Tasks,
           Undisturbed(i % workers), workers' = workers, case' = case, Tasks' = Tasks,
           batch'.tasks[i + 1].st # "running",
           batch'.tasks[i + 1].did = Task(i).did, batch'.tasks[i + 1].seen = Task(i).seen,
           \A k \in Tasks : k # i => batch'.tasks[k + 1] = batch.tasks[k + 1],
           \/ laneTests'[<<case, i % workers>>].by = By(i % workers)
           \/ \A k \in Tasks : k # i => k % workers # i % workers,
           \A e \in bank' : e \in bank \/ e.alone \/ e.lane # i % workers
    PROVE  Undisturbed(i % workers)'
<1> DEFINE l == i % workers
<1>1. Task(i)' = batch'.tasks[i + 1] /\ \A k \in Tasks : k # i => Task(k)' = Task(k)
  BY DEF Task
<1>2. On(l)' = On(l)
  BY DEF On
<1>3. ASSUME NEW k \in Unfinished(l)'
      PROVE  k \in Unfinished(l) /\ Task(k)' = Task(k) /\ By(l)' = By(l)
  <2>1. k \in On(l) /\ k \in Tasks /\ Task(k)'.st = "running"
    BY <1>2, <1>3 DEF Unfinished, On
  <2>2. k # i
    BY <1>1, <2>1
  <2>3. Task(k)' = Task(k) /\ Task(k)'.did < EpisodeSteps
    BY <1>1, <1>3, <2>1, <2>2 DEF Unfinished
  <2>4. k % workers = l
    BY <2>1 DEF On
  <2>5. By(l)' = By(l)
    BY <2>1, <2>2, <2>4 DEF By
  <2> QED
    BY <2>1, <2>3, <2>5 DEF Unfinished
<1>4. \A k \in Unfinished(l)' : By(l)' = AllBy(k, Task(k)'.did)
  BY <1>3 DEF Undisturbed
<1>5. \A k \in On(l)' : Task(k)'.did = EpisodeSteps => Task(k)'.seen = AllBy(k, EpisodeSteps)
  <2> SUFFICES ASSUME NEW k \in On(l)', Task(k)'.did = EpisodeSteps
               PROVE  Task(k)'.seen = AllBy(k, EpisodeSteps)
    OBVIOUS
  <2>1. k \in On(l) /\ k \in Tasks
    BY <1>2 DEF On
  <2>2. Task(k).did = Task(k)'.did /\ Task(k).seen = Task(k)'.seen
    BY <1>1, <2>1
  <2> QED
    BY <2>1, <2>2 DEF Undisturbed
<1>6. \A e \in bank' : e.case = case /\ e.lane = l => e.alone
  BY DEF Undisturbed
<1> QED
  BY <1>4, <1>5, <1>6 DEF Undisturbed, AllBy

LEMMA LaneStaysDisturbed ==
    ASSUME TrainingTypes, NEW i \in Tasks, Disturbed(i % workers), workers' = workers,
           case' = case, Tasks' = Tasks, Task(i).did = EpisodeSteps,
           batch'.tasks[i + 1].did = Task(i).did,
           \A k \in Tasks : k # i => batch'.tasks[k + 1] = batch.tasks[k + 1],
           laneTests'[<<case, i % workers>>].by = By(i % workers)
    PROVE  Disturbed(i % workers)'
<1> DEFINE l == i % workers
<1>1. Task(i)' = batch'.tasks[i + 1] /\ \A k \in Tasks : k # i => Task(k)' = Task(k)
  BY DEF Task
<1>2. On(l)' = On(l) /\ By(l)' = By(l)
  BY DEF On, By
<1>3. ASSUME NEW k \in Unfinished(l)  PROVE k \in Unfinished(l)' /\ Task(k)' = Task(k)
  <2>1. k \in On(l) /\ k \in Tasks /\ Task(k).did < EpisodeSteps
    BY <1>3 DEF Unfinished, On
  <2>2. EpisodeSteps \in Nat
    BY TaskTypes
  <2>3. k # i
    BY <2>1, <2>2
  <2> QED
    BY <1>1, <1>2, <1>3, <2>1, <2>3 DEF Unfinished
<1> QED
  BY <1>2, <1>3 DEF Disturbed

-----------------------------------------------------------------------------
(* The steps of a batch. *)

LEMMA CountKept ==
    ASSUME search' = search, workers' = workers
    PROVE  Count' = Count /\ Checkpoint' = Checkpoint /\ First' = First
BY DEF Count, Checkpoint, First

LEMMA InBatch ==
    ASSUME TrainingTypes, NEW i \in Tasks
    PROVE  /\ batch # NoBatch
           /\ \A b : Len(b.tasks) = Len(batch.tasks) => b # NoBatch
<1>1. Len(batch.tasks) \in Nat \ {0}
  BY TaskTypes
<1>2. Len(NoBatch.tasks) = 0
  BY DEF NoBatch
<1> QED
  BY <1>1, <1>2

LEMMA OtherLanes ==
    ASSUME TrainingTypes, NEW i \in Tasks, NEW l, l # i % workers,
           workers' = workers, case' = case, Len(batch'.tasks) = Len(batch.tasks),
           \A k \in Tasks : k # i => batch'.tasks[k + 1] = batch.tasks[k + 1],
           laneTests'[<<case, l>>].by = laneTests[<<case, l>>].by,
           \A e \in bank' : e \in bank \/ e.lane = i % workers
    PROVE  /\ Undisturbed(l) => Undisturbed(l)'
           /\ Disturbed(l) => Disturbed(l)'
<1>1. Tasks' = Tasks
  BY DEF Tasks
<1>2. \A k \in On(l) : batch'.tasks[k + 1] = batch.tasks[k + 1]
  BY DEF On
<1>3. \A e \in bank' : e.case = case /\ e.lane = l => e \in bank
  OBVIOUS
<1> QED
  BY <1>1, <1>2, <1>3, LaneKept

\* What remains to show of a step of a task that saves nothing.
LEMMA TaskStep ==
    ASSUME TrainingInv, NEW i \in Tasks,
           UNCHANGED <<workers, pc, case, err, search, bank, reports, staged, done>>,
           batch' \in BatchStates, Len(batch'.tasks) = Len(batch.tasks),
           lanes' \in Seq(LaneStates), laneTests' \in [TestIds -> LaneTestStates],
           pc = "searching", BatchInv'
    PROVE  TrainingInv'
<1>1. batch # NoBatch /\ batch' # NoBatch
  BY InBatch DEF TrainingInv
<1>2. TrainingTypes'
  BY DEF TrainingInv, TrainingTypes, BatchStates
<1>3. Checkpoint' = Checkpoint
  BY CountKept
<1>4. SearchInv'
  BY <1>1, <1>3 DEF TrainingInv, SearchInv
<1>5. CaseOrder'
  BY <1>1 DEF TrainingInv, CaseOrder
<1>6. HoldoutMissing' = HoldoutMissing
  BY DEF HoldoutMissing, Numbers
<1>7. AloneInv'
  BY <1>1, <1>6 DEF TrainingInv, AloneInv
<1> QED
  BY <1>2, <1>4, <1>5, <1>7 DEF TrainingInv

LEMMA LaneUpdate ==
    ASSUME TrainingTypes, NEW i \in Tasks, NEW by \in Seq(Nat),
           laneTests' = [laneTests EXCEPT ![LaneOf(i)].by = by]
    PROVE  /\ laneTests' \in [TestIds -> LaneTestStates]
           /\ laneTests'[<<case, i % workers>>].by = by
           /\ \A l : l # i % workers => laneTests'[<<case, l>>].by = laneTests[<<case, l>>].by
<1>1. LaneOf(i) \in TestIds /\ LaneOf(i) = <<case, i % workers>>
  BY TaskTypes, Remainder, WorkersAndTests DEF LaneOf, TrainingTypes
<1>2. laneTests \in [TestIds -> LaneTestStates]
  BY DEF TrainingTypes
<1>3. laneTests[LaneOf(i)] \in LaneTestStates
  BY <1>1, <1>2
<1>4. laneTests'[LaneOf(i)] = [laneTests[LaneOf(i)] EXCEPT !.by = by]
  BY <1>1, <1>2
<1>5. laneTests'[LaneOf(i)] \in LaneTestStates /\ laneTests'[LaneOf(i)].by = by
  BY <1>3, <1>4 DEF LaneTestStates
<1>6. \A t : t # LaneOf(i) => laneTests'[t] = laneTests[t]
  BY <1>2
<1>7. laneTests' \in [TestIds -> LaneTestStates]
  BY <1>2, <1>5, <1>6
<1>8. \A l : l # i % workers => <<case, l>> # LaneOf(i)
  BY <1>1
<1> QED
  BY <1>1, <1>5, <1>6, <1>7, <1>8

LEMMA BeginStep ==
    ASSUME TrainingInv, pc = "searching", NEW i \in Tasks, Begin(i)
    PROVE  TrainingInv'
<1> DEFINE task == [Task(i) EXCEPT !.st = "running"]
<1>1. /\ TrainingTypes /\ SearchInv /\ BatchInv /\ batch # NoBatch
      /\ search.role \in BatchRoles
  <2>1. TrainingTypes /\ SearchInv /\ BatchInv /\ batch # NoBatch
    BY InBatch DEF TrainingInv
  <2>2. search.role \in Roles
    BY <2>1 DEF TrainingTypes
  <2> QED
    BY <2>1, <2>2 DEF SearchInv, Roles
<1>2. /\ Task(i).st = "pending" /\ ~batch.cancel
      /\ laneTests' = [laneTests EXCEPT ![LaneOf(i)].by = <<>>]
      /\ lanes' = [lanes EXCEPT ![(i % workers) + 1].inits = @ + 1]
      /\ batch' = Put(i, task)
      /\ UNCHANGED <<workers, pc, case, err, search, bank, reports, staged, done>>
  BY DEF Begin, disk
<1>3. Task(i) \in TaskStates /\ task \in TaskStates /\ task.st = "running"
  BY TaskTypes, <1>1 DEF TaskStates
<1>4. Task(i).did = 0 /\ Len(batch.tasks) = Count
  BY <1>1, <1>2 DEF BatchInv
<1>5. /\ batch' \in BatchStates /\ batch'.cancel = batch.cancel
      /\ Len(batch'.tasks) = Len(batch.tasks) /\ batch'.tasks[i + 1] = task
      /\ \A k \in Tasks : k # i => batch'.tasks[k + 1] = batch.tasks[k + 1]
  BY <1>1, <1>2, <1>3, PutTask
<1>6. /\ laneTests' \in [TestIds -> LaneTestStates]
      /\ laneTests'[<<case, i % workers>>].by = <<>>
      /\ \A l : l # i % workers => laneTests'[<<case, l>>].by = laneTests[<<case, l>>].by
  <2>1. <<>> \in Seq(Nat)
    OBVIOUS
  <2> QED
    BY <1>1, <1>2, <2>1, LaneUpdate
<1>7. lanes' \in Seq(LaneStates)
  <2>1. lanes \in Seq(LaneStates)
    BY <1>1 DEF TrainingTypes
  <2> DEFINE j == (i % workers) + 1
  <2>2. Len(lanes) \in Nat /\ DOMAIN lanes = 1 .. Len(lanes)
        /\ \A l \in 1 .. Len(lanes) : lanes[l] \in LaneStates
    BY <2>1
  <2>3. ASSUME NEW l \in 1 .. Len(lanes)  PROVE lanes'[l] \in LaneStates
    <3>1. lanes'[l] = IF l = j THEN [lanes[l] EXCEPT !.inits = lanes[l].inits + 1] ELSE lanes[l]
      BY <1>2, <2>2
    <3>2. lanes[l] \in LaneStates /\ lanes[l].inits \in Nat
      BY <2>2 DEF LaneStates
    <3>3. [lanes[l] EXCEPT !.inits = lanes[l].inits + 1] \in LaneStates
      BY <3>2 DEF LaneStates
    <3> QED
      BY <3>1, <3>2, <3>3
  <2>4. DOMAIN lanes' = 1 .. Len(lanes) /\ lanes' = [l \in 1 .. Len(lanes) |-> lanes'[l]]
    BY <1>2, <2>2
  <2> QED
    BY <2>2, <2>3, <2>4
<1>8. ASSUME NEW l \in LaneIds(workers)
      PROVE  Undisturbed(l)' \/ (search.role = "holdout" /\ Disturbed(l)')
  <2>1. Undisturbed(l) \/ (search.role = "holdout" /\ Disturbed(l))
    BY <1>1, <1>2 DEF BatchInv
  <2>2. CASE l = i % workers
    BY <1>1, <1>2, <1>4, <1>6, <2>1, <2>2, LaneTaken
  <2>3. CASE l # i % workers
    BY <1>1, <1>2, <1>5, <1>6, <2>1, <2>3, OtherLanes
  <2> QED
    BY <2>2, <2>3
<1>9. Tasks' = Tasks /\ Task(i)' = task /\ \A k \in Tasks : k # i => Task(k)' = Task(k)
  BY <1>5 DEF Tasks, Task
<1> HIDE DEF task
<1>10. Numbers(case, "holdout")' = Numbers(case, "holdout")
  BY <1>2 DEF Numbers
<1>11. \A k \in Tasks' : k \in Numbers(case, "holdout")' /\ search.role = "holdout" =>
          Task(k)'.st = "done"
  <2> SUFFICES ASSUME NEW k \in Tasks, k \in Numbers(case, "holdout"), search.role = "holdout"
               PROVE  Task(k)'.st = "done"
    BY <1>9, <1>10
  <2>1. Task(k).st = "done"
    BY <1>1 DEF BatchInv
  <2> QED
    BY <1>2, <1>9, <2>1
<1>12. BatchInv'
  <2>1. Count' = Count
    BY <1>2, CountKept
  <2>2. \A k \in Tasks' : Task(k)'.st = "pending" => Task(k)'.did = 0
    BY <1>1, <1>3, <1>9 DEF BatchInv
  <2>3. batch'.cancel = FALSE
    BY <1>2, <1>5 DEF TrainingTypes
  <2> QED
    BY <1>2, <1>4, <1>5, <1>8, <1>11, <2>1, <2>2, <2>3 DEF BatchInv
<1> QED
  BY <1>2, <1>5, <1>6, <1>7, <1>12, TaskStep

\* A task that fails, or one whose thread was cancelled.
LEMMA FailStep ==
    ASSUME TrainingInv, pc = "searching", NEW i \in Running, batch' = Fail(i),
           UNCHANGED <<workers, pc, case, err, lanes, search, bank, reports, staged, done>>,
           laneTests' \in [TestIds -> LaneTestStates],
           \A l : l # i % workers => laneTests'[<<case, l>>].by = laneTests[<<case, l>>].by
    PROVE  (laneTests' = laneTests \/ Task(i).did < EpisodeSteps) => TrainingInv'
<1> SUFFICES ASSUME laneTests' = laneTests \/ Task(i).did < EpisodeSteps
             PROVE  TrainingInv'
  OBVIOUS
<1> DEFINE task == [Task(i) EXCEPT !.st = "failed"]
<1>1. /\ TrainingTypes /\ SearchInv /\ BatchInv /\ batch # NoBatch
      /\ search.role \in BatchRoles /\ i \in Tasks /\ Task(i).st = "running"
  <2>1. TrainingTypes /\ SearchInv /\ BatchInv /\ batch # NoBatch /\ i \in Tasks
    BY InBatch DEF TrainingInv, Running
  <2>2. search.role \in Roles
    BY <2>1 DEF TrainingTypes
  <2> QED
    BY <2>1, <2>2 DEF SearchInv, Roles, Running
<1>2. Task(i) \in TaskStates
  BY <1>1, TaskTypes
<1>3. /\ task.st = "failed" /\ task.did = Task(i).did /\ task.seen = Task(i).seen
  BY <1>2 DEF TaskStates
<1>4. /\ batch' \in BatchStates /\ batch'.cancel = TRUE
      /\ Len(batch'.tasks) = Len(batch.tasks) /\ batch'.tasks[i + 1] = task
      /\ \A k \in Tasks : k # i => batch'.tasks[k + 1] = batch.tasks[k + 1]
  BY <1>1, FailTask
<1>5. Tasks' = Tasks /\ Task(i)' = task /\ \A k \in Tasks : k # i => Task(k)' = Task(k)
  BY <1>4 DEF Tasks, Task
<1> HIDE DEF task
<1>6. ASSUME NEW l \in LaneIds(workers), search.role # "holdout"
      PROVE  Undisturbed(l)'
  <2>1. Undisturbed(l)
    BY <1>1, <1>6 DEF BatchInv
  <2>2. CASE l = i % workers
    <3>1. \A k \in Tasks : k # i => k % workers # i % workers
      BY <1>1, <1>6, OwnLanes DEF BatchInv
    <3>2. batch'.tasks[i + 1].st # "running"
      BY <1>3, <1>4
    <3>3. batch'.tasks[i + 1].did = Task(i).did /\ batch'.tasks[i + 1].seen = Task(i).seen
      BY <1>3, <1>4
    <3> QED
      BY <1>1, <1>4, <1>5, <2>1, <2>2, <3>1, <3>2, <3>3, LaneLeft
  <2>3. CASE l # i % workers
    BY <1>1, <1>4, <2>1, <2>3, OtherLanes
  <2> QED
    BY <2>2, <2>3
<1>7. Numbers(case, "holdout")' = Numbers(case, "holdout")
  BY DEF Numbers
<1>8. \A k \in Tasks' : k \in Numbers(case, "holdout")' /\ search.role = "holdout" =>
          Task(k)'.st = "done"
  <2> SUFFICES ASSUME NEW k \in Tasks, k \in Numbers(case, "holdout"), search.role = "holdout"
               PROVE  Task(k)'.st = "done"
    BY <1>5, <1>7
  <2>1. Task(k).st = "done"
    BY <1>1 DEF BatchInv
  <2> QED
    BY <1>1, <1>5, <2>1
<1>9. BatchInv'
  <2>1. Count' = Count
    BY CountKept
  <2>2. \A k \in Tasks' : Task(k)'.st = "pending" => Task(k)'.did = 0
    BY <1>1, <1>3, <1>5 DEF BatchInv
  <2>3. \E k \in Tasks' : Task(k)'.st = "failed"
    BY <1>1, <1>3, <1>5
  <2>4. Len(batch.tasks) = Count
    BY <1>1 DEF BatchInv
  <2> QED
    BY <1>4, <1>6, <1>8, <2>1, <2>2, <2>3, <2>4 DEF BatchInv
<1>10. lanes' \in Seq(LaneStates)
  BY <1>1 DEF TrainingTypes
<1> QED
  BY <1>1, <1>4, <1>9, <1>10, TaskStep

LEMMA StepStep ==
    ASSUME TrainingInv, pc = "searching", NEW i \in Tasks, Step(i)
    PROVE  TrainingInv'
<1> DEFINE by == Append(laneTests[LaneOf(i)].by, i)
           task == [st |-> "running", did |-> Task(i).did + 1, seen |-> by]
<1>1. /\ i \in Running /\ Task(i).did < EpisodeSteps
      /\ UNCHANGED <<workers, pc, case, err, lanes, search, bank, reports, staged, done>>
  BY DEF Step, disk
<1>2. /\ TrainingTypes /\ SearchInv /\ BatchInv /\ batch # NoBatch
      /\ search.role \in BatchRoles /\ Task(i).st = "running"
  <2>1. TrainingTypes /\ SearchInv /\ BatchInv /\ batch # NoBatch
    BY InBatch DEF TrainingInv
  <2>2. search.role \in Roles
    BY <2>1 DEF TrainingTypes
  <2> QED
    BY <1>1, <2>1, <2>2 DEF SearchInv, Roles, Running
<1>3. LaneOf(i) = <<case, i % workers>> /\ by = Append(By(i % workers), i)
  BY DEF LaneOf, By
<1>4. by \in Seq(Nat) /\ i \in Nat /\ Task(i) \in TaskStates
  <2>1. i \in Nat /\ Task(i) \in TaskStates
    BY <1>2, TaskTypes
  <2>2. LaneOf(i) \in TestIds
    <3>1. workers \in Nat \ {0} /\ \A l \in LaneIds(workers) : <<case, l>> \in TestIds
      BY <1>2, WorkersAndTests DEF TrainingTypes
    <3>2. i % workers \in LaneIds(workers)
      BY <2>1, <3>1, Remainder
    <3> QED
      BY <1>3, <3>1, <3>2
  <2>3. laneTests[LaneOf(i)].by \in Seq(Nat)
    BY <1>2, <2>2 DEF TrainingTypes, LaneTestStates
  <2> QED
    BY <2>1, <2>3
<1> HIDE DEF by
<1>5. CASE batch.cancel
  <2>1. batch' = Fail(i) /\ laneTests' = laneTests
    BY <1>5 DEF Step
  <2>2. laneTests' \in [TestIds -> LaneTestStates]
    BY <1>2, <2>1 DEF TrainingTypes
  <2> QED
    BY <1>1, <2>1, <2>2, FailStep
<1>6. CASE ~batch.cancel /\ ~InTime(i, by)
  <2>1. batch' = Fail(i) /\ laneTests' = [laneTests EXCEPT ![LaneOf(i)].by = by]
    BY <1>6 DEF Step, by
  <2>2. /\ laneTests' \in [TestIds -> LaneTestStates]
        /\ \A l : l # i % workers => laneTests'[<<case, l>>].by = laneTests[<<case, l>>].by
    BY <1>2, <1>4, <2>1, LaneUpdate
  <2> QED
    BY <1>1, <2>1, <2>2, FailStep
<1>7. CASE ~batch.cancel /\ InTime(i, by)
  <2>1. batch' = Put(i, task) /\ laneTests' = [laneTests EXCEPT ![LaneOf(i)].by = by]
    BY <1>7 DEF Step, by
  <2>2. /\ laneTests' \in [TestIds -> LaneTestStates]
        /\ laneTests'[<<case, i % workers>>].by = by
        /\ \A l : l # i % workers => laneTests'[<<case, l>>].by = laneTests[<<case, l>>].by
    BY <1>2, <1>4, <2>1, LaneUpdate
  <2>3. task \in TaskStates /\ task.st = "running"
    BY <1>1, <1>4, MpcTrainingAssumption DEF TaskStates
  <2>4. /\ batch' \in BatchStates /\ batch'.cancel = batch.cancel
        /\ Len(batch'.tasks) = Len(batch.tasks) /\ batch'.tasks[i + 1] = task
        /\ \A k \in Tasks : k # i => batch'.tasks[k + 1] = batch.tasks[k + 1]
    BY <1>2, <2>1, <2>3, PutTask
  <2>5. Len(batch.tasks) = Count
    BY <1>2 DEF BatchInv
  <2>6. ASSUME NEW l \in LaneIds(workers)
        PROVE  Undisturbed(l)' \/ (search.role = "holdout" /\ Disturbed(l)')
    <3>1. Undisturbed(l) \/ (search.role = "holdout" /\ Disturbed(l))
      BY <1>2, <1>7 DEF BatchInv
    <3>2. CASE l = i % workers
      <4>1. Len(by) = Task(i).did + 1
        BY <1>7 DEF InTime
      <4> QED
        BY <1>1, <1>2, <1>3, <2>1, <2>2, <2>5, <3>1, <3>2, <4>1, LaneAdvanced
    <3>3. CASE l # i % workers
      BY <1>1, <1>2, <2>2, <2>4, <3>1, <3>3, OtherLanes
    <3> QED
      BY <3>2, <3>3
  <2>7. Tasks' = Tasks /\ Task(i)' = task /\ \A k \in Tasks : k # i => Task(k)' = Task(k)
    BY <2>4 DEF Tasks, Task
  <2> HIDE DEF task
  <2>8. Numbers(case, "holdout")' = Numbers(case, "holdout")
    BY <1>1 DEF Numbers
  <2>9. \A k \in Tasks' : k \in Numbers(case, "holdout")' /\ search.role = "holdout" =>
            Task(k)'.st = "done"
    <3> SUFFICES ASSUME NEW k \in Tasks, k \in Numbers(case, "holdout"), search.role = "holdout"
                 PROVE  Task(k)'.st = "done"
      BY <2>7, <2>8
    <3>1. Task(k).st = "done"
      BY <1>1, <1>2 DEF BatchInv
    <3> QED
      BY <1>2, <2>7, <3>1
  <2>10. BatchInv'
    <3>1. Count' = Count
      BY <1>1, CountKept
    <3>2. \A k \in Tasks' : Task(k)'.st = "pending" => Task(k)'.did = 0
      BY <1>2, <2>3, <2>7 DEF BatchInv
    <3>3. batch'.cancel = FALSE
      BY <1>2, <1>7, <2>4 DEF TrainingTypes
    <3> QED
      BY <1>1, <2>4, <2>5, <2>6, <2>9, <3>1, <3>2, <3>3 DEF BatchInv
  <2>11. lanes' \in Seq(LaneStates)
    BY <1>1, <1>2 DEF TrainingTypes
  <2> QED
    BY <1>1, <2>2, <2>4, <2>10, <2>11, TaskStep
<1> QED
  BY <1>5, <1>6, <1>7

LEMMA EpisodeFailsStep ==
    ASSUME TrainingInv, pc = "searching", NEW i \in Tasks, EpisodeFails(i)
    PROVE  TrainingInv'
<1>1. /\ i \in Running /\ batch' = Fail(i) /\ laneTests' = laneTests
      /\ UNCHANGED <<workers, pc, case, err, lanes, search, bank, reports, staged, done>>
  BY DEF EpisodeFails, disk
<1>2. laneTests' \in [TestIds -> LaneTestStates]
  BY <1>1 DEF TrainingInv, TrainingTypes
<1> QED
  BY <1>1, <1>2, FailStep

LEMMA SaveStep ==
    ASSUME TrainingInv, pc = "searching", NEW i \in Tasks, Save(i)
    PROVE  TrainingInv'
<1> DEFINE task == [Task(i) EXCEPT !.st = "done"]
           whole == Task(i).seen = [s \in 1 .. EpisodeSteps |-> i]
           episode == [case |-> case, role |-> search.role, no |-> First + i,
                       lane |-> i % workers, alone |-> whole]
<1>1. /\ i \in Running /\ Task(i).did = EpisodeSteps
      /\ bank' = bank \cup {episode} /\ batch' = Put(i, task)
      /\ UNCHANGED <<workers, pc, case, err, lanes, laneTests, search, reports, staged, done>>
  BY DEF Save
<1>2. /\ TrainingTypes /\ SearchInv /\ CaseOrder /\ BatchInv /\ AloneInv /\ batch # NoBatch
      /\ search.role \in BatchRoles /\ Task(i).st = "running"
  <2>1. TrainingTypes /\ SearchInv /\ CaseOrder /\ BatchInv /\ AloneInv /\ batch # NoBatch
    BY InBatch DEF TrainingInv
  <2>2. search.role \in Roles
    BY <2>1 DEF TrainingTypes
  <2> QED
    BY <1>1, <2>1, <2>2 DEF SearchInv, Roles, Running
<1>3. /\ i \in Nat /\ Task(i) \in TaskStates /\ task \in TaskStates
      /\ task.st = "done" /\ task.did = Task(i).did /\ task.seen = Task(i).seen
  BY <1>2, TaskTypes DEF TaskStates
<1>4. /\ batch' \in BatchStates /\ batch'.cancel = batch.cancel
      /\ Len(batch'.tasks) = Len(batch.tasks) /\ batch'.tasks[i + 1] = task
      /\ \A k \in Tasks : k # i => batch'.tasks[k + 1] = batch.tasks[k + 1]
  BY <1>1, <1>2, <1>3, PutTask
<1>5. Tasks' = Tasks /\ Task(i)' = task /\ \A k \in Tasks : k # i => Task(k)' = Task(k)
  BY <1>4 DEF Tasks, Task
<1> HIDE DEF task
<1>6. batch' # NoBatch
  BY <1>2, <1>4, InBatch
<1>7. i % workers \in LaneIds(workers) /\ i % workers \in Nat
  BY <1>2, <1>3, Remainder, WorkersAndTests DEF TrainingTypes
<1>8. First \in Nat /\ (search.role = "holdout" => First = 0)
  <2>1. Checkpoint \in Nat /\ search.fits \in Nat
    BY <1>2, CheckpointType DEF TrainingTypes
  <2> QED
    BY <1>2, <2>1, RoleTable DEF BatchRoles
<1>9. whole \in BOOLEAN /\ (whole <=> Task(i).seen = AllBy(i, EpisodeSteps))
  BY DEF AllBy
<1> HIDE DEF whole
<1>10. /\ episode \in Episodes /\ episode.case = case /\ episode.role = search.role
       /\ episode.no = First + i /\ episode.lane = i % workers /\ episode.alone = whole
  <2>1. case \in Cases
    BY <1>2 DEF TrainingTypes
  <2> QED
    BY <1>2, <1>3, <1>7, <1>8, <1>9, <2>1 DEF Episodes
<1> HIDE DEF episode
<1>11. TrainingTypes'
  <2>1. bank' \subseteq Episodes
    BY <1>1, <1>2, <1>10 DEF TrainingTypes
  <2> QED
    BY <1>1, <1>2, <1>4, <2>1 DEF TrainingTypes, BatchStates
<1>12. SearchInv'
  <2>1. Checkpoint' = Checkpoint
    BY <1>1, CountKept
  <2>2. search.role # "report"
    BY <1>2 DEF BatchRoles
  <2> QED
    BY <1>1, <1>2, <2>1, <2>2 DEF SearchInv
<1>13. CaseOrder'
  <2>1. \A e \in bank' : e.case <= case
    BY <1>1, <1>2, <1>10 DEF CaseOrder, TrainingTypes, Cases
  <2> QED
    BY <1>1, <1>2, <1>6, <2>1 DEF CaseOrder
<1>14. Undisturbed(i % workers) => whole
  <2>1. i \in On(i % workers)
    BY DEF On
  <2> QED
    BY <1>1, <1>9, <2>1 DEF Undisturbed
<1>15. ASSUME NEW l \in LaneIds(workers)
       PROVE  \/ Undisturbed(l)'
              \/ search.role = "holdout" /\ (batch'.cancel \/ Disturbed(l)')
  <2>1. Undisturbed(l) \/ (search.role = "holdout" /\ (batch.cancel \/ Disturbed(l)))
    BY <1>2 DEF BatchInv
  <2>2. CASE l # i % workers
    <3>1. \A e \in bank' : e \in bank \/ e.lane = i % workers
      BY <1>1, <1>10
    <3> QED
      BY <1>1, <1>2, <1>4, <2>1, <2>2, <3>1, OtherLanes
  <2>3. CASE l = i % workers /\ Undisturbed(l)
    <3>1. batch'.tasks[i + 1].st # "running"
      BY <1>3, <1>4
    <3>2. batch'.tasks[i + 1].did = Task(i).did /\ batch'.tasks[i + 1].seen = Task(i).seen
      BY <1>3, <1>4
    <3>3. \A e \in bank' : e \in bank \/ e.alone
      BY <1>1, <1>10, <1>14, <2>3
    <3>4. laneTests'[<<case, i % workers>>].by = By(i % workers)
      BY <1>1 DEF By
    <3> QED
      BY <1>1, <1>2, <1>4, <1>5, <2>3, <3>1, <3>2, <3>3, <3>4, LaneLeft
  <2>4. CASE l = i % workers /\ Disturbed(l) /\ search.role = "holdout"
    <3>1. batch'.tasks[i + 1].did = Task(i).did
      BY <1>3, <1>4
    <3>2. laneTests'[<<case, i % workers>>].by = By(i % workers)
      BY <1>1 DEF By
    <3> QED
      BY <1>1, <1>2, <1>4, <1>5, <2>4, <3>1, <3>2, LaneStaysDisturbed
  <2> QED
    BY <1>4, <2>1, <2>2, <2>3, <2>4
<1>16. ASSUME NEW k \in Tasks, search.role = "holdout", k \in Numbers(case, "holdout")'
       PROVE  Task(k)'.st = "done"
  <2>1. PICK e \in bank' : e.case = case /\ e.role = "holdout" /\ e.no = k
    BY <1>1, <1>16 DEF Numbers
  <2>2. CASE e = episode
    <3>1. k = i
      BY <1>3, <1>8, <1>10, <1>16, <2>1, <2>2
    <3> QED
      BY <1>3, <1>5, <3>1
  <2>3. CASE e \in bank
    <3>1. Task(k).st = "done"
      BY <1>2, <1>16, <2>1, <2>3 DEF BatchInv, Numbers
    <3> QED
      BY <1>3, <1>5, <3>1
  <2> QED
    BY <1>1, <2>1, <2>2, <2>3
<1>17. BatchInv'
  <2>1. Count' = Count
    BY <1>1, CountKept
  <2>2. \A k \in Tasks' : Task(k)'.st = "pending" => Task(k)'.did = 0
    BY <1>2, <1>3, <1>5 DEF BatchInv
  <2>3. batch'.cancel => \E k \in Tasks' : Task(k)'.st = "failed"
    BY <1>2, <1>4, <1>5 DEF BatchInv
  <2>4. Len(batch.tasks) = Count
    BY <1>2 DEF BatchInv
  <2> QED
    BY <1>1, <1>4, <1>5, <1>15, <1>16, <2>1, <2>2, <2>3, <2>4 DEF BatchInv
<1>18. AloneInv'
  <2> SUFFICES ASSUME NEW e \in bank', ~e.alone
               PROVE  /\ e.case = case /\ e.role = "holdout" /\ Len(staged) = case - 1
                      /\ e.lane \in LaneIds(workers) /\ search.role = "holdout"
    BY <1>1, <1>6 DEF AloneInv
  <2>1. CASE e \in bank
    BY <1>2, <2>1 DEF AloneInv
  <2>2. CASE e = episode
    <3>1. search.role = "holdout"
      BY <1>2, <1>7, <1>10, <1>14, <2>2 DEF BatchInv
    <3>2. Len(staged) = case - 1
      BY <1>2 DEF SearchInv
    <3> QED
      BY <1>7, <1>10, <2>2, <3>1, <3>2
  <2> QED
    BY <1>1, <2>1, <2>2
<1> QED
  BY <1>11, <1>12, <1>13, <1>17, <1>18 DEF TrainingInv

\* Between two batches every episode was alone.
LEMMA AllAlone ==
    ASSUME AloneInv,
           \/ pc \in {"selecting", "installing", "completed"}
           \/ pc = "searching" /\ batch = NoBatch
           \/ pc = "closing" /\ ~err
    PROVE  \A e \in bank : e.alone
BY DEF AloneInv

LEMMA StartBatchStep ==
    ASSUME TrainingInv, StartBatch
    PROVE  TrainingInv'
<1> DEFINE task == [st |-> "pending", did |-> 0, seen |-> <<>>]
           fresh == [k \in 1 .. Count |-> task]
<1>1. /\ pc = "searching" /\ batch = NoBatch /\ search.role # "report"
      /\ batch' = [NoBatch EXCEPT !.tasks = fresh]
      /\ UNCHANGED <<workers, pc, case, err, lanes, laneTests, search, bank, reports, staged, done>>
  BY DEF StartBatch, disk
<1>2. /\ TrainingTypes /\ SearchInv /\ CaseOrder /\ AloneInv /\ search.role \in BatchRoles
  <2>1. TrainingTypes /\ SearchInv /\ CaseOrder /\ AloneInv
    BY DEF TrainingInv
  <2>2. search.role \in Roles
    BY <2>1 DEF TrainingTypes
  <2> QED
    BY <1>1, <2>1, <2>2 DEF SearchInv, Roles
<1>3. Count \in Nat \ {0} /\ EpisodeSteps \in Nat \ {0}
  BY <1>2, CountBounds, MpcTrainingAssumption
<1>4. task \in TaskStates /\ task.st = "pending" /\ task.did = 0
  BY <1>3 DEF TaskStates
<1> HIDE DEF task
<1>5. fresh \in Seq(TaskStates) /\ Len(fresh) = Count /\ \A k \in 1 .. Count : fresh[k] = task
  BY <1>3, <1>4
<1> HIDE DEF fresh
<1>6. batch'.tasks = fresh /\ batch'.cancel = FALSE /\ batch' \in BatchStates
  BY <1>1, <1>5 DEF NoBatch, BatchStates
<1>7. Tasks' = 0 .. Count - 1 /\ \A k \in Tasks' : Task(k)' = task
  BY <1>3, <1>5, <1>6 DEF Tasks, Task
<1>8. TrainingTypes'
  BY <1>1, <1>2, <1>6 DEF TrainingTypes, BatchStates
<1>9. Count' = Count /\ Checkpoint' = Checkpoint
  BY <1>1, CountKept
<1>10. SearchInv'
  BY <1>1, <1>2, <1>9 DEF SearchInv
<1>11. batch' # NoBatch
  BY <1>3, <1>5, <1>6 DEF NoBatch
<1>12. CaseOrder'
  BY <1>1, <1>2, <1>11 DEF CaseOrder
<1>13. \A e \in bank : e.alone
  BY <1>1, <1>2, AllAlone
<1>14. AloneInv'
  BY <1>1, <1>13 DEF AloneInv
<1>15. ASSUME NEW l \in LaneIds(workers)  PROVE Undisturbed(l)'
  <2>1. Unfinished(l)' = {}
    BY <1>4, <1>7 DEF Unfinished, On
  <2>2. \A k \in On(l)' : Task(k)'.did # EpisodeSteps
    BY <1>3, <1>4, <1>7 DEF On
  <2> QED
    BY <1>1, <1>13, <2>1, <2>2 DEF Undisturbed
<1>16. search.role = "holdout" => Numbers(case, "holdout")' = {}
  <2>1. search.role = "holdout" => \A e \in bank : e.case # case
    BY <1>1, <1>2 DEF CaseOrder, TrainingTypes, Cases, Episodes
  <2> QED
    BY <1>1, <2>1 DEF Numbers
<1>17. BatchInv'
  BY <1>1, <1>4, <1>5, <1>6, <1>7, <1>9, <1>15, <1>16 DEF BatchInv
<1> QED
  BY <1>8, <1>10, <1>12, <1>14, <1>17 DEF TrainingInv

-----------------------------------------------------------------------------
(* The other steps. *)

LEMMA NewSearchFacts ==
    /\ NewSearch \in [role : Roles, fits : Nat, at : 1 .. Len(Checkpoints),
                      cands : Seq(ReportStates), low : Nat]
    /\ NewSearch.role = "holdout" /\ NewSearch.fits = 0 /\ NewSearch.at = 1
    /\ NoBatch \in BatchStates
<1>1. 1 \in 1 .. Len(Checkpoints)
  BY MpcTrainingAssumption
<1>2. <<>> \in Seq(ReportStates) /\ <<>> \in Seq(TaskStates)
  OBVIOUS
<1> QED
  BY <1>1, <1>2 DEF NewSearch, NoBatch, Roles, BatchRoles, BatchStates

\* No batch is running: what the steps between batches share.
LEMMA BetweenBatches ==
    ASSUME batch' = NoBatch
    PROVE  BatchInv'
BY DEF BatchInv

LEMMA SelectLaneStep ==
    ASSUME TrainingInv, SelectLane
    PROVE  TrainingInv'
<1>1. TrainingTypes /\ SearchInv /\ CaseOrder /\ AloneInv
  BY DEF TrainingInv
<1>2. /\ pc = "selecting" /\ pc' \in {"searching", "selecting"}
      /\ laneTests' = [laneTests EXCEPT ![<<case, Len(lanes)>>].st = "live"]
      /\ lanes' = Append(lanes, [inits |-> 0, stops |-> 0, tried |-> FALSE])
      /\ UNCHANGED <<workers, case, err, batch, search, bank, reports, staged, done>>
  BY DEF SelectLane, disk
<1>3. batch' = NoBatch /\ search = NewSearch
  BY <1>1, <1>2 DEF SearchInv
<1>4. laneTests' \in [TestIds -> LaneTestStates]
  BY <1>1, <1>2 DEF TrainingTypes, LaneTestStates
<1>5. lanes' \in Seq(LaneStates)
  <2>1. [inits |-> 0, stops |-> 0, tried |-> FALSE] \in LaneStates
    BY DEF LaneStates
  <2>2. lanes \in Seq(LaneStates)
    BY <1>1 DEF TrainingTypes
  <2> QED
    BY <1>2, <2>1, <2>2
<1>6. TrainingTypes'
  BY <1>1, <1>2, <1>4, <1>5 DEF TrainingTypes, TrainingPcs
<1>7. Checkpoint' = Checkpoint
  BY <1>2, CountKept
<1>8. SearchInv'
  BY <1>1, <1>2, <1>3, <1>7, NewSearchFacts DEF SearchInv
<1>9. CaseOrder'
  <2>1. \A r \in reports : r.case # case
    BY <1>1, <1>2 DEF CaseOrder, TrainingTypes, ReportStates, Cases
  <2> QED
    BY <1>1, <1>2, <2>1 DEF CaseOrder
<1>10. AloneInv'
  BY <1>1, <1>2, AllAlone DEF AloneInv
<1> QED
  BY <1>3, <1>6, <1>8, <1>9, <1>10, BetweenBatches DEF TrainingInv

\* The case fails between batches: its lanes are about to be stopped.
LEMMA UnwindStep ==
    ASSUME TrainingInv, pc \in {"selecting", "searching"}, batch = NoBatch, Unwind,
           UNCHANGED <<workers, case, lanes, batch, bank, reports, staged, done>>,
           laneTests' \in [TestIds -> LaneTestStates]
    PROVE  TrainingInv'
<1>1. TrainingTypes /\ SearchInv /\ CaseOrder /\ AloneInv
  BY DEF TrainingInv
<1>2. pc' = "closing" /\ err' = TRUE /\ search' = NewSearch
  BY DEF Unwind
<1>3. TrainingTypes'
  BY <1>1, <1>2, NewSearchFacts DEF TrainingTypes, TrainingPcs
<1>4. SearchInv'
  BY <1>1, <1>2, NewSearchFacts DEF SearchInv
<1>5. CaseOrder'
  BY <1>1, <1>2 DEF CaseOrder
<1>6. AloneInv'
  BY <1>1, <1>2, AllAlone DEF AloneInv
<1> QED
  BY <1>3, <1>4, <1>5, <1>6, BetweenBatches DEF TrainingInv

LEMMA LaneSelectFailsStep ==
    ASSUME TrainingInv, LaneSelectFails
    PROVE  TrainingInv'
<1>1. /\ pc = "selecting" /\ Unwind
      /\ UNCHANGED <<workers, case, lanes, batch, bank, reports, staged, done>>
      /\ \/ laneTests' = [laneTests EXCEPT ![<<case, Len(lanes)>>].st = "live"]
         \/ laneTests' = laneTests
  BY DEF LaneSelectFails, disk
<1>2. batch = NoBatch
  BY <1>1 DEF TrainingInv, SearchInv
<1>3. laneTests' \in [TestIds -> LaneTestStates]
  <2>1. laneTests \in [TestIds -> LaneTestStates]
    BY DEF TrainingInv, TrainingTypes
  <2>2. [laneTests EXCEPT ![<<case, Len(lanes)>>].st = "live"] \in [TestIds -> LaneTestStates]
    BY <2>1 DEF LaneTestStates
  <2> QED
    BY <1>1, <2>1, <2>2
<1> QED
  BY <1>1, <1>2, <1>3, UnwindStep

LEMMA NoBatchMoreStep ==
    ASSUME TrainingInv, NoBatchMore
    PROVE  TrainingInv'
<1>1. /\ pc = "searching" /\ batch = NoBatch /\ Unwind /\ laneTests' = laneTests
      /\ UNCHANGED <<workers, case, lanes, batch, bank, reports, staged, done>>
  BY DEF NoBatchMore, disk
<1>2. laneTests' \in [TestIds -> LaneTestStates]
  BY <1>1 DEF TrainingInv, TrainingTypes
<1> QED
  BY <1>1, <1>2, UnwindStep

LEMMA EndBatchStep ==
    ASSUME TrainingInv, EndBatch
    PROVE  TrainingInv'
<1>1. /\ pc = "searching" /\ batch # NoBatch /\ AllAwaited /\ batch' = NoBatch
      /\ UNCHANGED <<workers, case, lanes, laneTests, bank, reports, staged, done>>
  BY DEF EndBatch, disk
<1>2. /\ TrainingTypes /\ SearchInv /\ CaseOrder /\ BatchInv /\ AloneInv
      /\ search.role \in BatchRoles
  <2>1. TrainingTypes /\ SearchInv /\ CaseOrder /\ BatchInv /\ AloneInv
    BY DEF TrainingInv
  <2>2. search.role \in Roles
    BY <2>1 DEF TrainingTypes
  <2> QED
    BY <1>1, <2>1, <2>2 DEF SearchInv, Roles
<1>3. BatchInv'
  BY <1>1, BetweenBatches
<1>4. CASE batch.cancel
  <2>1. pc' = "closing" /\ err' = TRUE /\ search' = NewSearch
    BY <1>4 DEF EndBatch, Unwind
  <2>2. TrainingTypes'
    BY <1>1, <1>2, <2>1, NewSearchFacts DEF TrainingTypes, TrainingPcs, BatchStates
  <2>3. SearchInv'
    BY <1>1, <1>2, <2>1, NewSearchFacts DEF SearchInv
  <2>4. CaseOrder'
    BY <1>1, <1>2, <2>1 DEF CaseOrder
  <2>5. search.role = "holdout" => HoldoutMissing
    <3> SUFFICES ASSUME search.role = "holdout"  PROVE HoldoutMissing
      OBVIOUS
    <3>1. PICK k \in Tasks : Task(k).st = "failed"
      BY <1>1, <1>2, <1>4 DEF BatchInv
    <3>2. k \notin Numbers(case, "holdout")
      BY <1>1, <1>2, <3>1 DEF BatchInv
    <3>3. Len(batch.tasks) = Holdouts
      BY <1>1, <1>2, RoleTable DEF BatchInv
    <3>4. k \in 0 .. Holdouts - 1
      BY <3>3 DEF Tasks
    <3> QED
      BY <3>2, <3>4 DEF HoldoutMissing
  <2>6. HoldoutMissing' = HoldoutMissing
    BY <1>1 DEF HoldoutMissing, Numbers
  <2>7. AloneInv'
    BY <1>1, <1>2, <2>1, <2>5, <2>6 DEF AloneInv
  <2> QED
    BY <1>3, <2>2, <2>3, <2>4, <2>7 DEF TrainingInv
<1>5. CASE ~batch.cancel
  <2> DEFINE fits == search.fits + (IF search.role = "fit" THEN Count ELSE 0)
  <2>1. /\ search' = [search EXCEPT !.fits = fits, !.role = NextRole(fits)]
        /\ pc' = pc /\ err' = err
    BY <1>5 DEF EndBatch
  <2>2. Count \in Nat \ {0} /\ search.fits \in Nat /\ Checkpoint \in Nat \ {0}
    BY <1>2, CountBounds, CheckpointType DEF TrainingTypes
  <2>3. fits \in Nat
    BY <2>2
  <2>4. /\ NextRole(fits) \in {"basic_reference", "fit", "validation", "report"}
        /\ NextRole(fits) = "basic_reference" => fits = 0
        /\ NextRole(fits) = "fit" => fits < Checkpoint
        /\ NextRole(fits) \in {"validation", "report"} => fits = Checkpoint
    <3>1. CASE search.role = "holdout"
      BY <1>2, <2>2, <3>1, RoleTable DEF SearchInv
    <3>2. CASE search.role = "basic_reference"
      <4>1. fits = 0
        BY <1>2, <3>2 DEF SearchInv
      <4> HIDE DEF fits
      <4> QED
        BY <2>2, <3>2, <4>1, RoleTable
    <3>3. CASE search.role = "fit"
      <4>1. fits <= Checkpoint
        BY <1>2, <2>2, <3>3, CountBounds
      <4> HIDE DEF fits
      <4> QED
        BY <2>2, <2>3, <3>3, <4>1, RoleTable
    <3>4. CASE search.role = "validation"
      <4>1. fits = Checkpoint
        BY <1>2, <2>2, <3>4 DEF SearchInv
      <4> HIDE DEF fits
      <4> QED
        BY <3>4, <4>1, RoleTable
    <3> QED
      BY <1>2, <3>1, <3>2, <3>3, <3>4 DEF BatchRoles
  <2> HIDE DEF fits
  <2>5. /\ search' \in [role : Roles, fits : Nat, at : 1 .. Len(Checkpoints),
                        cands : Seq(ReportStates), low : Nat]
        /\ search'.role = NextRole(fits) /\ search'.fits = fits /\ search'.at = search.at
    BY <1>2, <2>1, <2>3, <2>4 DEF TrainingTypes, Roles, BatchRoles
  <2>6. Checkpoint' = Checkpoint
    BY <2>5 DEF Checkpoint
  <2>7. TrainingTypes'
    BY <1>1, <1>2, <2>1, <2>5, NewSearchFacts DEF TrainingTypes, BatchStates
  <2>8. SearchInv'
    BY <1>1, <1>2, <2>1, <2>4, <2>5, <2>6 DEF SearchInv
  <2>9. CaseOrder'
    BY <1>1, <1>2, <2>1, <2>4, <2>5 DEF CaseOrder
  <2>10. \A l \in LaneIds(workers) : Undisturbed(l)
    <3>1. \A k \in Tasks : Task(k).st = "done"
      BY <1>1, <1>5 DEF AllAwaited
    <3>2. \A l : Unfinished(l) = {}
      BY <3>1 DEF Unfinished, On
    <3> QED
      BY <1>1, <1>2, <1>5, <3>2 DEF BatchInv, Disturbed
  <2>11. \A e \in bank : e.alone
    BY <1>2, <2>10 DEF AloneInv, Undisturbed
  <2>12. AloneInv'
    BY <1>1, <2>11 DEF AloneInv
  <2> QED
    BY <1>3, <2>7, <2>8, <2>9, <2>12 DEF TrainingInv
<1> QED
  BY <1>4, <1>5

LEMMA ReportStep ==
    ASSUME TrainingInv, NEW zero \in BOOLEAN, NEW good \in BOOLEAN, NEW reward \in Rewards,
           Report(zero, good, reward)
    PROVE  TrainingInv'
<1> DEFINE found == Eligible([zero |-> zero, good |-> good])
           report == [case |-> case, at |-> Checkpoint, zero |-> zero, good |-> good,
                      reward |-> IF found THEN reward ELSE 0]
           cands == IF found THEN Append(search.cands, report) ELSE search.cands
           low == IF ~found THEN search.low ELSE IF Low(reward) THEN search.low + 1 ELSE 0
           over == (found /\ low >= Patience) \/ search.at = Len(Checkpoints)
           role == IF over THEN "over" ELSE "fit"
           at == IF over THEN search.at ELSE search.at + 1
<1>1. /\ pc = "searching" /\ search.role = "report"
      /\ reports' = reports \cup {report}
      /\ search' = [search EXCEPT !.cands = cands, !.low = low, !.role = role, !.at = at]
      /\ pc' = IF over THEN "closing" ELSE "searching"
      /\ err' = (over /\ cands = <<>>)
      /\ UNCHANGED <<workers, case, lanes, laneTests, batch, bank, staged, done>>
  BY DEF Report
<1>2. TrainingTypes /\ SearchInv /\ CaseOrder /\ AloneInv /\ batch = NoBatch
  BY <1>1 DEF TrainingInv, SearchInv
<1>3. /\ search \in [role : Roles, fits : Nat, at : 1 .. Len(Checkpoints),
                     cands : Seq(ReportStates), low : Nat]
      /\ case \in Cases /\ Len(Checkpoints) \in Nat
  BY <1>2, MpcTrainingAssumption DEF TrainingTypes
<1>4. Checkpoint \in Nat /\ search.fits = Checkpoint
  BY <1>1, <1>2, CheckpointType DEF SearchInv
<1>5. /\ report \in ReportStates /\ report.case = case /\ report.at = Checkpoint
  <2>1. (IF found THEN reward ELSE 0) \in Int
    BY MpcTrainingAssumption
  <2> HIDE DEF found
  <2> QED
    BY <1>3, <1>4, <2>1 DEF ReportStates
<1>6. low \in Nat
  BY <1>3
<1> HIDE DEF found, report, low
<1>7. cands \in Seq(ReportStates)
  BY <1>3, <1>5
<1> HIDE DEF cands
<1>8. ~over => search.at < Len(Checkpoints)
  BY <1>3
<1>9. over \in BOOLEAN
  OBVIOUS
<1> HIDE DEF over
<1>10. at \in 1 .. Len(Checkpoints) /\ role \in {"over", "fit"} /\ (over <=> role = "over")
  BY <1>3, <1>8
<1>11. /\ search' \in [role : Roles, fits : Nat, at : 1 .. Len(Checkpoints),
                       cands : Seq(ReportStates), low : Nat]
       /\ search'.role = role /\ search'.at = at /\ search'.fits = search.fits
       /\ search'.cands = cands
  <2>1. search' = [search EXCEPT !.cands = cands, !.low = low, !.role = role, !.at = at]
    BY <1>1
  <2> HIDE DEF role, at
  <2>2. role \in Roles
    BY <1>10 DEF Roles, BatchRoles
  <2> QED
    BY <1>3, <1>6, <1>7, <1>10, <2>1, <2>2
<1>12. TrainingTypes'
  <2>1. reports' \subseteq ReportStates
    BY <1>1, <1>2, <1>5 DEF TrainingTypes
  <2>2. IsFiniteSet(reports')
    BY <1>1, <1>2, FS_AddElement DEF TrainingTypes
  <2>3. pc' \in TrainingPcs /\ err' \in BOOLEAN
    BY <1>1, <1>9 DEF TrainingPcs
  <2> QED
    BY <1>1, <1>2, <1>11, <2>1, <2>2, <2>3 DEF TrainingTypes
<1>13. ~over => search.fits < Checkpoint'
  <2>1. ~over => Checkpoint' = Checkpoints[search.at + 1]
    BY <1>11 DEF Checkpoint
  <2> QED
    BY <1>2, <1>4, <1>8, <2>1, CheckpointType
<1>14. SearchInv'
  BY <1>1, <1>2, <1>9, <1>10, <1>11, <1>13 DEF SearchInv
<1>15. ASSUME NEW r \in reports, r.case = case  PROVE r.at # Checkpoint
  BY <1>1, <1>2, <1>15, CheckpointType DEF CaseOrder
<1>16. \A r, q \in reports' : r.case = q.case /\ r.at = q.at => r = q
  BY <1>1, <1>2, <1>5, <1>15 DEF CaseOrder
<1>17. \A r \in reports' : r.case <= case
  BY <1>1, <1>2, <1>3, <1>5 DEF CaseOrder, Cases
<1>18. pc' = "searching" =>
          \A r \in reports' : r.case = case => \E j \in 1 .. at - 1 : r.at = Checkpoints[j]
  <2> SUFFICES ASSUME ~over, NEW r \in reports', r.case = case
               PROVE  \E j \in 1 .. at - 1 : r.at = Checkpoints[j]
    BY <1>1
  <2>1. at = search.at + 1
    OBVIOUS
  <2>2. CASE r = report
    <3>1. search.at \in 1 .. at - 1 /\ r.at = Checkpoints[search.at]
      BY <1>3, <1>5, <2>1, <2>2 DEF Checkpoint
    <3> QED
      BY <3>1
  <2>3. CASE r \in reports
    <3>1. PICK j \in 1 .. search.at - 1 : r.at = Checkpoints[j]
      BY <1>1, <1>2, <2>3 DEF CaseOrder
    <3>2. j \in 1 .. at - 1
      BY <1>3, <2>1
    <3> QED
      BY <3>1, <3>2
  <2> QED
    BY <1>1, <2>2, <2>3
<1>19. CaseOrder'
  <2>1. pc' # "selecting" /\ search'.role # "holdout"
    BY <1>1, <1>10, <1>11
  <2> QED
    BY <1>1, <1>2, <1>11, <1>16, <1>17, <1>18, <2>1 DEF CaseOrder
<1>20. AloneInv'
  BY <1>1, <1>2, AllAlone DEF AloneInv
<1> QED
  BY <1>1, <1>2, <1>12, <1>14, <1>19, <1>20, BetweenBatches DEF TrainingInv

\* What a step that ends nothing but lanes, the command or its files has to show.
LEMMA QuietStep ==
    ASSUME TrainingInv, pc # "searching", pc' # "searching", pc' # "selecting",
           UNCHANGED <<workers, case, bank, reports, staged>>,
           batch' = NoBatch, search' \in {search, NewSearch},
           lanes' \in Seq(LaneStates), laneTests' \in [TestIds -> LaneTestStates],
           pc' \in TrainingPcs, err' \in BOOLEAN,
           pc' = "closing" => pc = "closing" /\ search' = search /\ (err => err'),
           pc' = "closing" \/ pc' = "killed" \/ pc' \in {"installing", "completed"}
              \/ pc' \in {"failing", "failed"},
           pc' = "completed" => pc \in {"installing", "completed"},
           pc' = "installing" => pc = "installing",
           pc' \in {"failing", "failed"} =>
              pc \in {"failing", "failed", "installing"} \/ (pc = "closing" /\ (err \/ \A e \in bank : e.alone)),
           "failure" \in done' => pc' = "failed"
    PROVE  TrainingInv'
<1>1. TrainingTypes /\ SearchInv /\ CaseOrder /\ AloneInv
  BY DEF TrainingInv
<1>2. TrainingTypes'
  BY <1>1, NewSearchFacts DEF TrainingTypes, BatchStates
<1>3. search' = search => Checkpoint' = Checkpoint
  BY DEF Checkpoint
<1>4. SearchInv'
  BY <1>1, <1>3, NewSearchFacts DEF SearchInv
<1>5. CaseOrder'
  BY <1>1 DEF CaseOrder
<1>6. HoldoutMissing' = HoldoutMissing
  BY DEF HoldoutMissing, Numbers
<1>7. AloneInv'
  BY <1>1, <1>6 DEF AloneInv
<1> QED
  BY <1>2, <1>4, <1>5, <1>7, BetweenBatches DEF TrainingInv

LEMMA StopStep ==
    ASSUME TrainingInv, StopLane \/ LaneStopFails
    PROVE  TrainingInv'
<1>1. TrainingTypes /\ pc = "closing" /\ batch = NoBatch /\ "failure" \notin done
  BY DEF TrainingInv, SearchInv, StopLane, LaneStopFails
<1>2. /\ UNCHANGED <<workers, pc, case, batch, search, bank, reports, staged, done>>
      /\ err' = err \/ err' = TRUE
      /\ \/ /\ lanes' = [lanes EXCEPT ![NextLane].tried = TRUE, ![NextLane].stops = 1]
            /\ laneTests' = [laneTests EXCEPT ![<<case, NextLane - 1>>].st = "stopped"]
         \/ /\ lanes' = [lanes EXCEPT ![NextLane].tried = TRUE]
            /\ laneTests' = laneTests
  BY DEF StopLane, LaneStopFails, disk
<1>3. lanes \in Seq(LaneStates) /\ laneTests \in [TestIds -> LaneTestStates] /\ err \in BOOLEAN
  BY <1>1 DEF TrainingTypes
<1>4. [laneTests EXCEPT ![<<case, NextLane - 1>>].st = "stopped"] \in [TestIds -> LaneTestStates]
  BY <1>3 DEF LaneTestStates
<1>5. lanes' \in Seq(LaneStates)
  <2>1. Len(lanes) \in Nat /\ lanes \in [1 .. Len(lanes) -> LaneStates]
    BY <1>3
  <2>2. [lanes EXCEPT ![NextLane].tried = TRUE] \in [1 .. Len(lanes) -> LaneStates]
    BY <2>1 DEF LaneStates
  <2>3. [lanes EXCEPT ![NextLane].tried = TRUE, ![NextLane].stops = 1]
           \in [1 .. Len(lanes) -> LaneStates]
    BY <2>1 DEF LaneStates
  <2>4. lanes' \in [1 .. Len(lanes) -> LaneStates]
    BY <1>2, <2>2, <2>3
  <2> QED
    BY <2>1, <2>4
<1>6. pc' = "closing" /\ pc' \in TrainingPcs
  BY <1>1, <1>2 DEF TrainingPcs
<1>7. laneTests' \in [TestIds -> LaneTestStates] /\ err' \in BOOLEAN /\ (err => err')
  BY <1>2, <1>3, <1>4
<1> QED
  BY <1>1, <1>2, <1>5, <1>6, <1>7, QuietStep

\* The candidate that is staged is one of the search's.
LEMMA BestCandidate ==
    ASSUME NEW cands \in Seq(ReportStates), cands # <<>>
    PROVE  /\ \E i \in DOMAIN cands : Best(cands) = cands[i]
           /\ \A j \in DOMAIN cands : cands[j].reward <= Best(cands).reward
<1> DEFINE Better(i, j) == \/ cands[j].reward < cands[i].reward
                           \/ cands[j].reward = cands[i].reward /\ i <= j
           A == {cands[i].reward : i \in DOMAIN cands}
           f == [i \in DOMAIN cands |-> cands[i].reward]
<1>1. Len(cands) \in Nat \ {0} /\ DOMAIN cands = 1 .. Len(cands)
      /\ \A i \in DOMAIN cands : cands[i].reward \in Int /\ i \in Int
  <2>1. Len(cands) \in Nat \ {0} /\ DOMAIN cands = 1 .. Len(cands)
    OBVIOUS
  <2>2. \A i \in DOMAIN cands : cands[i] \in ReportStates
    OBVIOUS
  <2> QED
    BY <2>1, <2>2 DEF ReportStates
<1>2. IsFiniteSet(DOMAIN cands)
  BY <1>1, FS_Interval
<1>3. IsFiniteSet(A) /\ A \in SUBSET Int /\ A # {}
  <2>1. f \in Surjection(DOMAIN cands, A)
    BY DEF Surjection
  <2>2. 1 \in DOMAIN cands
    BY <1>1
  <2> QED
    BY <1>1, <1>2, <2>1, <2>2, FS_Surjection
<1>4. Max(A) \in A /\ \A y \in A : Max(A) >= y
  <2> HIDE DEF A
  <2> QED
    BY <1>3, MaxOf
<1> DEFINE I == {i \in DOMAIN cands : cands[i].reward = Max(A)}
<1>5. I \in SUBSET Int /\ I # {} /\ IsFiniteSet(I)
  <2>1. I \subseteq DOMAIN cands
    OBVIOUS
  <2>2. IsFiniteSet(I)
    <3> HIDE DEF I
    <3> QED
      BY <1>2, <2>1, FS_Subset
  <2> QED
    BY <1>1, <1>4, <2>2
<1>6. Min(I) \in I /\ \A y \in I : Min(I) <= y
  <2> HIDE DEF I
  <2> QED
    BY <1>5, MinOf
<1>7. \A j \in DOMAIN cands : Better(Min(I), j)
  <2> SUFFICES ASSUME NEW j \in DOMAIN cands
               PROVE  Better(Min(I), j)
    OBVIOUS
  <2>1. cands[j].reward <= Max(A) /\ cands[Min(I)].reward = Max(A)
    BY <1>4, <1>6
  <2>2. cands[j].reward = Max(A) => Min(I) <= j
    BY <1>6
  <2>3. cands[j].reward \in Int /\ Max(A) \in Int
    BY <1>1, <1>3, <1>4
  <2> HIDE DEF A, I
  <2>4. cands[j].reward < Max(A) \/ cands[j].reward = Max(A)
    BY <2>1, <2>3
  <2> QED
    BY <2>1, <2>2, <2>4
<1>8. PICK i \in DOMAIN cands : Best(cands) = cands[i] /\ \A j \in DOMAIN cands : Better(i, j)
  <2>1. Min(I) \in DOMAIN cands
    BY <1>6
  <2> QED
    BY <1>7, <2>1 DEF Best
<1> QED
  BY <1>1, <1>8

LEMMA EndCaseStep ==
    ASSUME TrainingInv, EndCase
    PROVE  TrainingInv'
<1>1. TrainingTypes /\ SearchInv /\ CaseOrder /\ AloneInv
  BY DEF TrainingInv
<1>2. /\ pc = "closing" /\ UNCHANGED <<workers, err, laneTests, batch, bank, reports, done>>
  BY DEF EndCase
<1>3. batch = NoBatch /\ "failure" \notin done /\ Len(staged) = case - 1
  BY <1>1, <1>2 DEF SearchInv
<1>4. /\ case \in Cases /\ case \in Nat /\ lanes \in Seq(LaneStates) /\ <<>> \in Seq(LaneStates)
      /\ laneTests \in [TestIds -> LaneTestStates] /\ err \in BOOLEAN
  BY <1>1, MpcTrainingAssumption DEF TrainingTypes, Cases
<1>5. CASE err \/ ~LanesValid
  <2>1. pc' = "failing" /\ lanes' = <<>> /\ UNCHANGED <<case, search, staged>>
    BY <1>5 DEF EndCase
  <2>2. err \/ \A e \in bank : e.alone
    BY <1>1, <1>2, AllAlone
  <2>3. pc' \in TrainingPcs
    BY <2>1 DEF TrainingPcs
  <2> QED
    BY <1>2, <1>3, <1>4, <2>1, <2>2, <2>3, QuietStep
<1>6. CASE ~(err \/ ~LanesValid)
  <2>1. staged' = Append(staged, Best(search.cands)) /\ ~err
    BY <1>6 DEF EndCase
  <2>2. staged' \in Seq(ReportStates) /\ Len(staged') = case
    <3>1. search.cands \in Seq(ReportStates) /\ search.cands # <<>>
      BY <1>1, <1>2, <2>1 DEF TrainingTypes, SearchInv
    <3>2. Best(search.cands) \in ReportStates
      <4>1. PICK i \in DOMAIN search.cands : Best(search.cands) = search.cands[i]
        BY <3>1, BestCandidate
      <4> QED
        BY <3>1, <4>1
    <3>3. staged \in Seq(ReportStates)
      BY <1>1 DEF TrainingTypes
    <3> QED
      BY <1>3, <1>4, <2>1, <3>2, <3>3
  <2>3. \A e \in bank : e.alone
    BY <1>1, <1>2, <2>1, AllAlone
  <2>4. CASE case = NumCases
    <3>1. pc' = "installing" /\ UNCHANGED <<case, lanes, search>>
      BY <1>6, <2>4 DEF EndCase
    <3>2. TrainingTypes'
      BY <1>1, <1>2, <2>2, <3>1 DEF TrainingTypes, TrainingPcs
    <3>3. Checkpoint' = Checkpoint
      BY <3>1 DEF Checkpoint
    <3>4. SearchInv'
      BY <1>1, <1>2, <1>3, <3>1, <3>3 DEF SearchInv
    <3>5. CaseOrder'
      BY <1>1, <1>2, <3>1 DEF CaseOrder
    <3>6. AloneInv'
      BY <1>2, <2>3 DEF AloneInv
    <3> QED
      BY <1>2, <1>3, <3>2, <3>4, <3>5, <3>6, BetweenBatches DEF TrainingInv
  <2>5. CASE case # NumCases
    <3>1. pc' = "selecting" /\ case' = case + 1 /\ lanes' = <<>> /\ search' = NewSearch
      BY <1>6, <2>5 DEF EndCase
    <3>2. case' \in Cases
      BY <1>4, <2>5, <3>1, MpcTrainingAssumption DEF Cases
    <3>3. TrainingTypes'
      BY <1>1, <1>2, <1>4, <2>2, <3>1, <3>2, NewSearchFacts
         DEF TrainingTypes, TrainingPcs
    <3>4. SearchInv'
      BY <1>2, <1>3, <1>4, <2>2, <3>1, NewSearchFacts DEF SearchInv
    <3>5. CaseOrder'
      <4>1. \A e \in bank : e.case \in Nat /\ e.case <= case
        BY <1>1 DEF CaseOrder, TrainingTypes, Episodes, Cases
      <4>2. \A r \in reports : r.case \in Nat /\ r.case <= case
        BY <1>1 DEF CaseOrder, TrainingTypes, ReportStates, Cases
      <4>3. \A e \in bank : e.case < case + 1 /\ e.case <= case + 1
        BY <1>4, <4>1
      <4>4. \A r \in reports : r.case < case + 1 /\ r.case <= case + 1
        BY <1>4, <4>2
      <4> QED
        BY <1>1, <1>2, <3>1, <4>3, <4>4 DEF CaseOrder
    <3>6. AloneInv'
      BY <1>2, <2>3 DEF AloneInv
    <3> QED
      BY <1>2, <1>3, <3>3, <3>4, <3>5, <3>6, BetweenBatches DEF TrainingInv
  <2> QED
    BY <2>4, <2>5
<1> QED
  BY <1>5, <1>6

\* The end of the command, and a kill.
LEMMA LastSteps ==
    ASSUME TrainingInv,
           Install \/ InstallFails \/ WriteCompletion \/ WriteFailure \/ KillTraining
    PROVE  TrainingInv'
<1>1. TrainingTypes /\ SearchInv /\ AloneInv /\ CaseOrder
  BY DEF TrainingInv
<1>2. /\ lanes \in Seq(LaneStates) /\ <<>> \in Seq(LaneStates) /\ err \in BOOLEAN
      /\ laneTests \in [TestIds -> LaneTestStates] /\ pc \in TrainingPcs
  BY <1>1 DEF TrainingTypes
<1>3. pc # "failed" => "failure" \notin done
  BY <1>1 DEF SearchInv
<1>4. CASE Install \/ InstallFails \/ WriteCompletion \/ WriteFailure
  <2>1. /\ UNCHANGED <<workers, case, err, lanes, laneTests, batch, search, bank, reports, staged>>
        /\ \/ pc = "installing" /\ pc' \in {"installing", "failing"} /\ done' = done
           \/ pc = "installing" /\ pc' = "completed" /\ done' = done \cup {"completion"}
           \/ pc = "failing" /\ pc' = "failed"
    BY <1>4 DEF Install, InstallFails, WriteCompletion, WriteFailure, disk
  <2>2. batch = NoBatch
    BY <1>1, <2>1 DEF SearchInv
  <2>3. pc' \in TrainingPcs
    BY <2>1 DEF TrainingPcs
  <2>4. "failure" \in done' => pc' = "failed"
    BY <1>3, <2>1
  <2> QED
    BY <1>2, <2>1, <2>2, <2>3, <2>4, QuietStep
<1>5. CASE KillTraining
  <2>1. /\ ~Over /\ pc' = "killed" /\ batch' = NoBatch /\ search' = NewSearch /\ lanes' = <<>>
        /\ UNCHANGED <<workers, case, err, laneTests, bank, reports, staged, done>>
    BY <1>5 DEF KillTraining, disk
  <2>2. "failure" \notin done
    BY <1>3, <2>1 DEF Over
  <2>3. TrainingTypes'
    BY <1>1, <1>2, <2>1, NewSearchFacts DEF TrainingTypes, TrainingPcs, BatchStates
  <2>4. SearchInv'
    BY <2>1, <2>2, NewSearchFacts DEF SearchInv
  <2>5. CaseOrder'
    BY <1>1, <2>1 DEF CaseOrder
  <2>6. AloneInv'
    BY <1>1, <2>1 DEF AloneInv
  <2> QED
    BY <2>1, <2>3, <2>4, <2>5, <2>6, BetweenBatches DEF TrainingInv
<1> QED
  BY <1>4, <1>5

-----------------------------------------------------------------------------
LEMMA TrainingInitInv == TrainingInit => TrainingInv
<1> SUFFICES ASSUME TrainingInit
             PROVE  TrainingInv
  OBVIOUS
<1>1. /\ workers \in WorkerCounts /\ pc = "selecting" /\ case = 1 /\ err = FALSE /\ lanes = <<>>
      /\ laneTests = [t \in TestIds |-> [st |-> "free", by |-> <<>>]]
      /\ batch = NoBatch /\ search = NewSearch
      /\ bank = {} /\ reports = {} /\ staged = <<>> /\ done = {}
  BY DEF TrainingInit
<1>2. 1 \in Cases
  BY MpcTrainingAssumption DEF Cases
<1>3. laneTests \in [TestIds -> LaneTestStates]
  <2>1. [st |-> "free", by |-> <<>>] \in LaneTestStates
    BY DEF LaneTestStates
  <2> QED
    BY <1>1, <2>1
<1>4. TrainingTypes
  <2>1. <<>> \in Seq(LaneStates) /\ <<>> \in Seq(ReportStates) /\ IsFiniteSet({})
    BY FS_EmptySet
  <2>2. pc \in TrainingPcs /\ err \in BOOLEAN
    BY <1>1 DEF TrainingPcs
  <2> QED
    BY <1>1, <1>2, <1>3, <2>1, <2>2, NewSearchFacts DEF TrainingTypes, BatchStates
<1>5. SearchInv
  BY <1>1, NewSearchFacts DEF SearchInv
<1>6. CaseOrder /\ BatchInv /\ AloneInv
  BY <1>1 DEF CaseOrder, BatchInv, AloneInv
<1> QED
  BY <1>4, <1>5, <1>6 DEF TrainingInv

LEMMA TrainingNextInv == TrainingInv /\ [TrainingNext]_trainingVars => TrainingInv'
<1> SUFFICES ASSUME TrainingInv, [TrainingNext]_trainingVars
             PROVE  TrainingInv'
  OBVIOUS
<1>1. CASE SelectLane \/ LaneSelectFails
  BY <1>1, SelectLaneStep, LaneSelectFailsStep
<1>2. CASE StartBatch \/ NoBatchMore \/ EndBatch
  BY <1>2, StartBatchStep, NoBatchMoreStep, EndBatchStep
<1>3. CASE pc = "searching" /\ \E i \in Tasks : Begin(i) \/ Step(i) \/ Save(i) \/ EpisodeFails(i)
  BY <1>3, BeginStep, StepStep, SaveStep, EpisodeFailsStep
<1>4. CASE \E zero, good \in BOOLEAN, reward \in Rewards : Report(zero, good, reward)
  BY <1>4, ReportStep
<1>5. CASE StopLane \/ LaneStopFails \/ EndCase
  BY <1>5, StopStep, EndCaseStep
<1>6. CASE Install \/ InstallFails \/ WriteCompletion \/ WriteFailure \/ KillTraining
  BY <1>6, LastSteps
<1>7. CASE UNCHANGED trainingVars
  <2>1. /\ TrainingTypes' /\ CaseOrder' /\ SearchInv'
    BY <1>7
       DEF TrainingInv, TrainingTypes, CaseOrder, SearchInv, Checkpoint,
           trainingVars
  <2>2. HoldoutMissing' = HoldoutMissing
    BY <1>7 DEF HoldoutMissing, Numbers, trainingVars
  <2>3. AloneInv'
    BY <1>7, <2>2 DEF TrainingInv, AloneInv, trainingVars
  <2>4. BatchInv'
    <3>1. Tasks' = Tasks /\ Count' = Count /\ Numbers(case, "holdout")' = Numbers(case, "holdout")
      BY <1>7, CountKept DEF Tasks, Numbers, trainingVars
    <3>2. \A l : (Undisturbed(l) => Undisturbed(l)') /\ (Disturbed(l) => Disturbed(l)')
      BY <1>7, <3>1, LaneKept DEF trainingVars
    <3>3. \A k : Task(k)' = Task(k)
      BY <1>7 DEF Task, trainingVars
    <3> QED
      BY <1>7, <3>1, <3>2, <3>3 DEF TrainingInv, BatchInv, trainingVars
  <2> QED
    BY <2>1, <2>3, <2>4 DEF TrainingInv
<1> QED
  BY <1>1, <1>2, <1>3, <1>4, <1>5, <1>6, <1>7 DEF TrainingNext

\* The invariant holds for any cases, worker counts, hold-outs, checkpoints, steps and
\* rewards and any number of faults and kills.
THEOREM TrainingInvariance == TrainingSpec => []TrainingInv
  BY TrainingInitInv, TrainingNextInv, PTL DEF TrainingSpec

\* A source a refit accepts has every hold-out, so the case whose threads met is not its.
LEMMA TrainingAlone == TrainingInv => EpisodesAlone
<1> SUFFICES ASSUME TrainingInv
             PROVE  EpisodesAlone
  OBVIOUS
<1>1. TrainingTypes /\ SearchInv /\ CaseOrder /\ AloneInv
  BY DEF TrainingInv
<1>2. pc = "searching" /\ batch = NoBatch => \A e \in bank : e.alone
  BY <1>1, AllAlone
<1>3. ASSUME NEW e \in bank, e.case \in DOMAIN staged
      PROVE  e.alone
  <2>1. Len(staged) \in Nat /\ DOMAIN staged = 1 .. Len(staged) /\ case \in Nat
    BY <1>1, MpcTrainingAssumption DEF TrainingTypes, Cases
  <2> QED
    BY <1>1, <1>3, <2>1 DEF AloneInv
<1>4. ASSUME NEW e \in bank, RefitSource
      PROVE  e.alone
  <2> SUFFICES ASSUME ~e.alone
               PROVE  FALSE
    BY <1>3
  <2>1. pc = "failed" /\ AllCaseRoles
    BY <1>1, <1>4 DEF RefitSource, SearchInv
  <2>2. HoldoutMissing
    BY <1>1, <2>1 DEF AloneInv
  <2>3. case \in Cases
    BY <1>1 DEF TrainingTypes
  <2>4. Numbers(case, "holdout") = 0 .. Holdouts - 1
    BY <2>1, <2>3 DEF AllCaseRoles, CaseRoles
  <2> QED
    BY <2>2, <2>4 DEF HoldoutMissing
<1>5. pc = "searching" \/ Running = {}
  <2> SUFFICES ASSUME pc # "searching"
               PROVE  Tasks = {}
    BY DEF Running
  <2>1. batch = NoBatch
    BY <1>1 DEF SearchInv
  <2> QED
    BY <2>1 DEF Tasks, NoBatch
<1> QED
  BY <1>2, <1>3, <1>4, <1>5 DEF EpisodesAlone

LEMMA TrainingSourceWhole == TrainingInv => RefitSourceWhole
<1> SUFFICES ASSUME TrainingInv, RefitSource
             PROVE  /\ pc = "failed" /\ case = NumCases
                    /\ \A c \in Cases :
                        /\ Cardinality(Adaptive(c)) = 2
                        /\ MinZero > 2 => \A n \in Adaptive(c) : n < Calibration(c)
                        /\ 0 .. Calibration(c) - 1 \subseteq Numbers(c, "fit")
  BY DEF RefitSourceWhole
<1>1. TrainingTypes /\ SearchInv /\ CaseOrder
  BY DEF TrainingInv
<1>2. pc = "failed" /\ \A c \in Cases : CaseRoles(c)
  BY <1>1 DEF RefitSource, SearchInv, AllCaseRoles
<1>3. case = NumCases
  <2>1. NumCases \in Cases /\ case \in Cases /\ NumCases \in Nat
    BY <1>1, MpcTrainingAssumption DEF TrainingTypes, Cases
  <2>2. PICK e \in bank : e.case = NumCases
    <3>1. Numbers(NumCases, "basic_reference") = {0}
      BY <1>2, <2>1 DEF CaseRoles
    <3> QED
      BY <3>1 DEF Numbers
  <2>3. NumCases <= case
    BY <1>1, <2>2 DEF CaseOrder
  <2> QED
    BY <2>1, <2>3 DEF Cases
<1>4. ASSUME NEW c \in Cases
      PROVE  /\ Cardinality(Adaptive(c)) = 2
             /\ MinZero > 2 => \A n \in Adaptive(c) : n < Calibration(c)
             /\ 0 .. Calibration(c) - 1 \subseteq Numbers(c, "fit")
  <2> DEFINE Z == Zero(c)
             fits == Numbers(c, "fit")
  <2>1. Z \subseteq reports /\ Z \subseteq ReportsOf(c)
    BY DEF Zero, ReportsOf
  <2>2. IsFiniteSet(Z)
    BY <1>1, <2>1, FS_Subset DEF TrainingTypes
  <2>3. \A z \in Z : z.at \in Nat
    BY <1>1, <2>1 DEF TrainingTypes, ReportStates
  <2>4. \A y, z \in Z : y.at = z.at => y = z
    BY <1>1 DEF Zero, ReportsOf, CaseOrder
  <2>5. Cardinality(Z) >= MinZero /\ MinZero \in Nat /\ MinZero >= 2 /\ Cardinality(Z) \in Nat
    <3>1. Cardinality(Z) >= MinZero
      BY <1>2 DEF CaseRoles
    <3> QED
      BY <2>2, <3>1, FS_CardinalityType, MpcTrainingAssumption
  <2>6. /\ Cardinality(fits) \in ToSet(Checkpoints)
        /\ fits = 0 .. Cardinality(fits) - 1
        /\ \A r \in ReportsOf(c) : r.at <= Cardinality(fits)
    <3>1. /\ Cardinality(fits) \in ToSet(Checkpoints)
          /\ fits = 0 .. Cardinality(fits) - 1
          /\ {r.at : r \in ReportsOf(c)} = {n \in ToSet(Checkpoints) : n <= Cardinality(fits)}
      BY <1>2 DEF CaseRoles
    <3> HIDE DEF fits
    <3> QED
      BY <3>1
  <2>7. Z # {}
    BY <2>5, FS_EmptySet
  <2>8. PICK last \in Z : last.at = Calibration(c) /\ \A y \in Z : last.at >= y.at
    <3>1. PICK z \in Z : z.at = Max({r.at : r \in Z}) /\ \A y \in Z : z.at >= y.at
      BY <2>2, <2>3, <2>7, EndReports
    <3> QED
      BY <3>1 DEF Calibration
  <2>9. 0 .. Calibration(c) - 1 \subseteq fits
    <3>1. Cardinality(fits) \in Nat
      BY <2>6, MpcTrainingAssumption DEF ToSet
    <3>2. Calibration(c) \in Nat /\ Calibration(c) <= Cardinality(fits)
      BY <2>1, <2>3, <2>6, <2>8
    <3> HIDE DEF fits
    <3> QED
      BY <2>6, <3>1, <3>2
  <2>10. /\ Cardinality(Adaptive(c)) = 2
         /\ Cardinality(Z) > 2 => \A n \in Adaptive(c) : n < Calibration(c)
    <3>1. Cardinality(Z) >= 2
      BY <2>5
    <3>2. Adaptive(c) = {r.at : r \in {z \in Z : Cardinality({y \in Z : y.at < z.at}) < 2}}
      BY DEF Adaptive
    <3>3. Calibration(c) = Max({r.at : r \in Z})
      BY DEF Calibration
    <3> HIDE DEF Z
    <3> QED
      BY <2>2, <2>3, <2>4, <3>1, <3>2, <3>3, TwoFirstReports
  <2> QED
    BY <2>5, <2>9, <2>10
<1> QED
  BY <1>2, <1>3, <1>4

\* Where a search goes on, a model is staged or a refit accepts the run, every episode was
\* advanced by one thread alone (collect_batch and _collect_episode of mpc/training.py).
THEOREM EpisodesAlwaysAlone == TrainingSpec => []EpisodesAlone
  BY TrainingInvariance, TrainingAlone, PTL

\* A run a refit accepts has all cases, two validations that join the fit, a later one that
\* calibrates it, and all fits before that (_case_roles of mpc/refit.py).
THEOREM RefitSourceAlwaysWhole == TrainingSpec => []RefitSourceWhole
  BY TrainingInvariance, TrainingSourceWhole, PTL

-----------------------------------------------------------------------------
(***************************************************************************)
(* What is staged, and what is left behind.                                *)
(***************************************************************************)
SoundReports(c) == {r \in ReportsOf(c) : r.zero /\ r.good}

\* The episodes of the case stand for how far its search is.
SearchFits ==
    pc = "searching" =>
        /\ 0 .. search.fits - 1 \subseteq Numbers(case, "fit")
        /\ search.role = "report" => Checkpoint \in Numbers(case, "validation")
        /\ \A k \in Tasks : Task(k).st = "done" => First + k \in Numbers(case, search.role)

\* A report has the episodes its model was fitted on and validated with.
ReportFits ==
    \A r \in reports : /\ 0 .. r.at - 1 \subseteq Numbers(r.case, "fit")
                       /\ r.at \in Numbers(r.case, "validation")

\* The candidates of a search that goes on are the eligible reports of the case.
Candidates ==
    pc \in {"selecting", "searching"} \/ (pc = "closing" /\ ~err) =>
        {search.cands[j] : j \in DOMAIN search.cands} = SoundReports(case)

BestStaged ==
    \A c \in DOMAIN staged : /\ staged[c] \in SoundReports(c)
                             /\ \A r \in SoundReports(c) : r.reward <= staged[c].reward

FitInv == SearchFits /\ ReportFits /\ Candidates /\ BestStaged

\* The test of a lane that is still to be stopped.
ToStop(t) ==
    /\ pc \in {"selecting", "searching", "closing"}
    /\ t[1] = case /\ t[2] + 1 \in DOMAIN lanes /\ ~lanes[t[2] + 1].tried

\* A live test is in a lane that will be stopped, or lost, and a test is lost only by a
\* command that fails or is killed.
LiveInv == \A t \in TestIds : LaneLive(t) => t \in lostLanes \/ ToStop(t)
LostInv == lostLanes # {} => (pc = "closing" /\ err) \/ pc \in {"failing", "failed", "killed"}

FilesLeft ==
    /\ pc \in {"installing", "completed"} => case = NumCases /\ Len(staged) = NumCases
    /\ installed \subseteq DOMAIN staged
    /\ pc = "completed" => installed = Cases /\ done = {"completion"}
    /\ pc = "failed" => done = {"failure"}
    /\ pc \notin {"completed", "failed"} => done = {}

AccountInv == LiveInv /\ LostInv /\ FilesLeft

-----------------------------------------------------------------------------
\* Episodes are added and never removed.
LEMMA NumbersGrow ==
    ASSUME bank \subseteq bank'
    PROVE  \A c, role : Numbers(c, role) \subseteq Numbers(c, role)'
BY DEF Numbers

LEMMA DiskKept ==
    ASSUME UNCHANGED <<bank, reports, staged>>
    PROVE  /\ \A c, role : Numbers(c, role)' = Numbers(c, role)
           /\ \A c : SoundReports(c)' = SoundReports(c)
           /\ ReportFits => ReportFits'
           /\ BestStaged => BestStaged'
<1>1. \A c, role : Numbers(c, role)' = Numbers(c, role)
  BY DEF Numbers
<1>2. \A c : SoundReports(c)' = SoundReports(c)
  BY DEF SoundReports, ReportsOf
<1>3. ReportFits => ReportFits'
  BY <1>1 DEF ReportFits
<1>4. BestStaged => BestStaged'
  BY <1>2 DEF BestStaged
<1> QED
  BY <1>1, <1>2, <1>3, <1>4

\* A step that neither searches nor writes an episode, a report or a model.
LEMMA FitQuiet ==
    ASSUME FitInv, UNCHANGED <<bank, reports, staged>>, pc' \notin {"selecting", "searching"},
           pc' = "closing" /\ ~err' => pc = "closing" /\ ~err /\ search' = search /\ case' = case
    PROVE  FitInv'
<1>1. SearchFits'
  BY DEF SearchFits
<1>2. Candidates'
  BY DiskKept DEF FitInv, Candidates
<1> QED
  BY <1>1, <1>2, DiskKept DEF FitInv

\* A step of a thread that saves nothing.
LEMMA FitTask ==
    ASSUME FitInv, UNCHANGED <<workers, pc, case, err, search, bank, reports, staged>>,
           Tasks' = Tasks, \A k \in Tasks : Task(k)'.st = "done" => Task(k).st = "done"
    PROVE  FitInv'
<1>1. Checkpoint' = Checkpoint /\ First' = First
  BY CountKept
<1>2. SearchFits'
  BY <1>1, DiskKept DEF FitInv, SearchFits
<1>3. Candidates'
  BY DiskKept DEF FitInv, Candidates
<1> QED
  BY <1>2, <1>3, DiskKept DEF FitInv

LEMMA ThreadFits ==
    ASSUME TrainingInv, FitInv, NEW i \in Tasks, Begin(i) \/ Step(i) \/ EpisodeFails(i)
    PROVE  FitInv'
<1>1. TrainingTypes
  BY DEF TrainingInv
<1>2. /\ UNCHANGED <<workers, pc, case, err, search, bank, reports, staged>>
      /\ \/ batch' = Fail(i)
         \/ batch' = Put(i, [Task(i) EXCEPT !.st = "running"])
         \/ \E seen : batch' = Put(i, [st |-> "running", did |-> Task(i).did + 1, seen |-> seen])
                      /\ seen \in Seq(Nat) /\ Task(i).did < EpisodeSteps
  <2>1. CASE Begin(i) \/ EpisodeFails(i)
    BY <2>1 DEF Begin, EpisodeFails, disk
  <2>2. CASE Step(i)
    <3>1. UNCHANGED <<workers, pc, case, err, search, bank, reports, staged>>
      BY <2>2 DEF Step, disk
    <3>2. Append(laneTests[LaneOf(i)].by, i) \in Seq(Nat)
      <4>1. LaneOf(i) \in TestIds /\ i \in Nat
        BY <1>1, TaskTypes, Remainder, WorkersAndTests DEF LaneOf, TrainingTypes
      <4>2. laneTests[LaneOf(i)] \in LaneTestStates
        BY <1>1, <4>1 DEF TrainingTypes
      <4> QED
        BY <4>1, <4>2 DEF LaneTestStates
    <3>3. \/ batch' = Fail(i)
          \/ batch' = Put(i, [st |-> "running", did |-> Task(i).did + 1,
                              seen |-> Append(laneTests[LaneOf(i)].by, i)])
             /\ Task(i).did < EpisodeSteps
      BY <2>2 DEF Step
    <3> QED
      BY <3>1, <3>2, <3>3
  <2> QED
    BY <2>1, <2>2
<1>3. Task(i) \in TaskStates /\ EpisodeSteps \in Nat
  BY <1>1, TaskTypes
<1>4. PICK task \in TaskStates :
         /\ task.st # "done" /\ Len(batch'.tasks) = Len(batch.tasks) /\ batch'.tasks[i + 1] = task
         /\ \A k \in Tasks : k # i => batch'.tasks[k + 1] = batch.tasks[k + 1]
  <2>1. CASE batch' = Fail(i)
    <3>1. [Task(i) EXCEPT !.st = "failed"] \in TaskStates
      BY <1>3 DEF TaskStates
    <3>2. [Task(i) EXCEPT !.st = "failed"].st = "failed"
      BY <1>3 DEF TaskStates
    <3> QED
      BY <1>1, <2>1, <3>1, <3>2, FailTask
  <2>2. CASE batch' = Put(i, [Task(i) EXCEPT !.st = "running"])
    <3>1. [Task(i) EXCEPT !.st = "running"] \in TaskStates
      BY <1>3 DEF TaskStates
    <3>2. [Task(i) EXCEPT !.st = "running"].st = "running"
      BY <1>3 DEF TaskStates
    <3> QED
      BY <1>1, <2>2, <3>1, <3>2, PutTask
  <2>3. CASE \E seen : batch' = Put(i, [st |-> "running", did |-> Task(i).did + 1, seen |-> seen])
                       /\ seen \in Seq(Nat) /\ Task(i).did < EpisodeSteps
    <3>1. PICK seen : batch' = Put(i, [st |-> "running", did |-> Task(i).did + 1, seen |-> seen])
                      /\ seen \in Seq(Nat) /\ Task(i).did < EpisodeSteps
      BY <2>3
    <3>2. Task(i).did \in 0 .. EpisodeSteps
      BY <1>3 DEF TaskStates
    <3>3. Task(i).did + 1 \in 0 .. EpisodeSteps
      BY <1>3, <3>1, <3>2
    <3>4. [st |-> "running", did |-> Task(i).did + 1, seen |-> seen] \in TaskStates
      BY <3>1, <3>3 DEF TaskStates
    <3> QED
      BY <1>1, <3>1, <3>4, PutTask
  <2> QED
    BY <1>2, <2>1, <2>2, <2>3
<1>5. Tasks' = Tasks
  BY <1>4 DEF Tasks
<1>6. \A k \in Tasks : Task(k)'.st = "done" => Task(k).st = "done"
  BY <1>4 DEF Task
<1> QED
  BY <1>2, <1>5, <1>6, FitTask

LEMMA SaveFits ==
    ASSUME TrainingInv, FitInv, pc = "searching", NEW i \in Tasks, Save(i)
    PROVE  FitInv'
<1> DEFINE task == [Task(i) EXCEPT !.st = "done"]
           episode == [case |-> case, role |-> search.role, no |-> First + i,
                       lane |-> i % workers,
                       alone |-> Task(i).seen = [s \in 1 .. EpisodeSteps |-> i]]
<1>1. /\ i \in Running /\ bank' = bank \cup {episode} /\ batch' = Put(i, task)
      /\ UNCHANGED <<workers, pc, case, err, search, reports, staged>>
  BY DEF Save
<1>2. task \in TaskStates
  BY TaskTypes DEF TrainingInv, TaskStates
<1>3. /\ Len(batch'.tasks) = Len(batch.tasks)
      /\ \A k \in Tasks : k # i => batch'.tasks[k + 1] = batch.tasks[k + 1]
  BY <1>1, <1>2, PutTask DEF TrainingInv
<1>4. Tasks' = Tasks /\ \A k \in Tasks : k # i => Task(k)' = Task(k)
  BY <1>3 DEF Tasks, Task
<1>5. episode.case = case /\ episode.role = search.role /\ episode.no = First + i
  OBVIOUS
<1> HIDE DEF task, episode
<1>6. First + i \in Numbers(case, search.role)'
  BY <1>1, <1>5 DEF Numbers
<1>7. \A c, role : Numbers(c, role) \subseteq Numbers(c, role)'
  BY <1>1, NumbersGrow
<1>8. Checkpoint' = Checkpoint /\ First' = First
  BY <1>1, CountKept
<1>9. SearchFits'
  <2>1. ASSUME NEW k \in Tasks, Task(k)'.st = "done"
        PROVE  First + k \in Numbers(case, search.role)'
    <3>1. CASE k = i
      BY <1>6, <3>1
    <3>2. CASE k # i
      <4>1. First + k \in Numbers(case, search.role)
        BY <1>4, <2>1, <3>2 DEF FitInv, SearchFits
      <4>2. Numbers(case, search.role) \subseteq Numbers(case, search.role)'
        BY <1>1, <1>7
      <4> QED
        BY <4>1, <4>2
    <3> QED
      BY <3>1, <3>2
  <2> QED
    BY <1>1, <1>4, <1>7, <1>8, <2>1 DEF FitInv, SearchFits
<1>10. ReportFits'
  <2> SUFFICES ASSUME NEW r \in reports
               PROVE  /\ 0 .. r.at - 1 \subseteq Numbers(r.case, "fit")'
                      /\ r.at \in Numbers(r.case, "validation")'
    BY <1>1 DEF ReportFits
  <2> QED
    BY <1>7 DEF FitInv, ReportFits
<1>11. \A c : SoundReports(c)' = SoundReports(c)
  BY <1>1 DEF SoundReports, ReportsOf
<1> QED
  BY <1>1, <1>9, <1>10, <1>11 DEF FitInv, Candidates, BestStaged

LEMMA SelectsFit ==
    ASSUME TrainingInv, TrainingInv', FitInv, SelectLane
    PROVE  FitInv'
<1>1. /\ pc = "selecting" /\ pc' \in {"searching", "selecting"}
      /\ UNCHANGED <<workers, case, err, batch, search, bank, reports, staged>>
  BY DEF SelectLane, disk
<1>2. batch = NoBatch /\ search = NewSearch
  BY <1>1 DEF TrainingInv, SearchInv
<1>3. Tasks' = {} /\ 0 .. search.fits - 1 = {} /\ search.role # "report"
  BY <1>1, <1>2, NewSearchFacts DEF Tasks, NoBatch
<1>4. SearchFits'
  BY <1>1, <1>3 DEF SearchFits
<1>5. Candidates'
  BY <1>1, DiskKept DEF FitInv, Candidates
<1> QED
  BY <1>1, <1>4, <1>5, DiskKept DEF FitInv

LEMMA StartFits ==
    ASSUME TrainingInv, FitInv, StartBatch
    PROVE  FitInv'
<1> DEFINE task == [st |-> "pending", did |-> 0, seen |-> <<>>]
           fresh == [k \in 1 .. Count |-> task]
<1>1. /\ pc = "searching" /\ batch = NoBatch /\ search.role # "report"
      /\ batch' = [NoBatch EXCEPT !.tasks = fresh]
      /\ UNCHANGED <<workers, pc, case, err, search, bank, reports, staged>>
  BY DEF StartBatch, disk
<1>2. Count \in Nat
  <2>1. search.role \in BatchRoles
    BY <1>1 DEF TrainingInv, TrainingTypes, SearchInv, Roles
  <2> QED
    BY <2>1, CountBounds DEF TrainingInv
<1>3. task.st = "pending"
  OBVIOUS
<1> HIDE DEF task
<1>4. Len(fresh) = Count /\ \A k \in 1 .. Count : fresh[k] = task
  BY <1>2
<1> HIDE DEF fresh
<1>5. batch'.tasks = fresh
  BY <1>1 DEF NoBatch
<1>6. \A k \in Tasks' : Task(k)'.st # "done"
  BY <1>2, <1>3, <1>4, <1>5 DEF Tasks, Task
<1>7. Checkpoint' = Checkpoint
  BY <1>1, CountKept
<1>8. SearchFits'
  BY <1>1, <1>6, <1>7, DiskKept DEF FitInv, SearchFits
<1>9. Candidates'
  BY <1>1, DiskKept DEF FitInv, Candidates
<1> QED
  BY <1>1, <1>8, <1>9, DiskKept DEF FitInv

\* A batch that ends well has the episodes that were asked for.
LEMMA EndFits ==
    ASSUME TrainingInv, FitInv, EndBatch
    PROVE  FitInv'
<1>1. /\ pc = "searching" /\ batch # NoBatch /\ AllAwaited /\ batch' = NoBatch
      /\ UNCHANGED <<workers, case, bank, reports, staged>>
  BY DEF EndBatch, disk
<1>2. TrainingTypes /\ SearchInv /\ BatchInv
  BY DEF TrainingInv
<1>3. CASE batch.cancel
  <2>1. pc' = "closing" /\ err' = TRUE
    BY <1>3 DEF EndBatch, Unwind
  <2> QED
    BY <1>1, <2>1, FitQuiet
<1>4. CASE ~batch.cancel
  <2> DEFINE fits == search.fits + (IF search.role = "fit" THEN Count ELSE 0)
  <2>1. /\ search' = [search EXCEPT !.fits = fits, !.role = NextRole(fits)]
        /\ pc' = pc /\ err' = err
    BY <1>4 DEF EndBatch
  <2>2. /\ search'.fits = fits /\ search'.role = NextRole(fits) /\ search'.at = search.at
        /\ search'.cands = search.cands
    BY <1>2, <2>1 DEF TrainingTypes
  <2>3. search.role \in BatchRoles
    BY <1>1, <1>2 DEF TrainingTypes, SearchInv, Roles
  <2>4. Count \in Nat \ {0} /\ search.fits \in Nat /\ Checkpoint \in Nat \ {0}
    BY <1>2, <2>3, CountBounds, CheckpointType DEF TrainingTypes
  <2>5. Tasks = 0 .. Count - 1
    BY <1>1, <1>2 DEF BatchInv, Tasks
  <2>6. \A k \in 0 .. Count - 1 : First + k \in Numbers(case, search.role)
    BY <1>1, <1>4, <2>5 DEF AllAwaited, FitInv, SearchFits
  <2>7. Tasks' = {} /\ Checkpoint' = Checkpoint
    BY <1>1, <2>2 DEF Tasks, NoBatch, Checkpoint
  <2>8. 0 .. search.fits - 1 \subseteq Numbers(case, "fit")
    BY <1>1 DEF FitInv, SearchFits
  <2>9. 0 .. fits - 1 \subseteq Numbers(case, "fit")
    <3>1. CASE search.role = "fit"
      <4> SUFFICES ASSUME NEW n \in 0 .. fits - 1
                   PROVE  n \in Numbers(case, "fit")
        OBVIOUS
      <4>1. First = search.fits /\ fits = search.fits + Count
        BY <3>1, RoleTable
      <4>2. CASE n < search.fits
        BY <2>4, <2>8, <4>1, <4>2
      <4>3. CASE ~(n < search.fits)
        <5>1. n - search.fits \in 0 .. Count - 1 /\ search.fits + (n - search.fits) = n
          BY <2>4, <4>1, <4>3
        <5> HIDE DEF fits
        <5> QED
          BY <2>6, <3>1, <4>1, <5>1
      <4> QED
        BY <4>2, <4>3
    <3>2. CASE search.role # "fit"
      BY <2>4, <2>8, <3>2
    <3> QED
      BY <3>1, <3>2
  <2> HIDE DEF fits
  <2>10. NextRole(fits) = "report" => Checkpoint \in Numbers(case, "validation")
    <3> SUFFICES ASSUME NextRole(fits) = "report"
                 PROVE  Checkpoint \in Numbers(case, "validation")
      OBVIOUS
    <3>1. search.role = "validation"
      BY <2>3, RoleTable DEF BatchRoles
    <3>2. First + 0 \in Numbers(case, "validation") /\ First = Checkpoint
      BY <2>4, <2>6, <3>1, RoleTable
    <3> QED
      BY <2>4, <3>2
  <2>11. SearchFits'
    BY <1>1, <2>2, <2>7, <2>9, <2>10, DiskKept DEF SearchFits
  <2>12. Candidates'
    BY <1>1, <2>1, <2>2, DiskKept DEF FitInv, Candidates
  <2> QED
    BY <1>1, <2>11, <2>12, DiskKept DEF FitInv
<1> QED
  BY <1>3, <1>4

LEMMA ReportFit ==
    ASSUME TrainingInv, TrainingInv', FitInv, NEW zero \in BOOLEAN, NEW good \in BOOLEAN,
           NEW reward \in Rewards, Report(zero, good, reward)
    PROVE  FitInv'
<1> DEFINE found == Eligible([zero |-> zero, good |-> good])
           report == [case |-> case, at |-> Checkpoint, zero |-> zero, good |-> good,
                      reward |-> IF found THEN reward ELSE 0]
           cands == IF found THEN Append(search.cands, report) ELSE search.cands
           low == IF ~found THEN search.low ELSE IF Low(reward) THEN search.low + 1 ELSE 0
           over == (found /\ low >= Patience) \/ search.at = Len(Checkpoints)
           role == IF over THEN "over" ELSE "fit"
           at == IF over THEN search.at ELSE search.at + 1
<1>1. /\ pc = "searching" /\ search.role = "report"
      /\ reports' = reports \cup {report}
      /\ search' = [search EXCEPT !.cands = cands, !.low = low, !.role = role, !.at = at]
      /\ UNCHANGED <<workers, case, batch, bank, staged>>
  BY DEF Report
<1>2. TrainingTypes /\ SearchInv /\ batch = NoBatch
  BY <1>1 DEF TrainingInv, SearchInv
<1>3. /\ report.case = case /\ report.at = Checkpoint /\ report.zero = zero /\ report.good = good
      /\ (found <=> zero /\ good)
  BY DEF Eligible
<1> HIDE DEF report, found, low
<1>4. search'.cands = cands /\ search'.role = role /\ search'.fits = search.fits
  BY <1>1, <1>2 DEF TrainingTypes
<1>5. role # "report" /\ search.fits = Checkpoint
  BY <1>1, <1>2 DEF SearchInv
<1> HIDE DEF over, role, at
<1>6. {cands[j] : j \in DOMAIN cands} = SoundReports(case)'
  <2>1. {search.cands[j] : j \in DOMAIN search.cands} = SoundReports(case)
    BY <1>1 DEF FitInv, Candidates
  <2>2. SoundReports(case)' = IF found THEN SoundReports(case) \cup {report} ELSE SoundReports(case)
    BY <1>1, <1>3 DEF SoundReports, ReportsOf
  <2>3. CASE found
    <3>1. cands = Append(search.cands, report) /\ search.cands \in Seq(ReportStates)
      BY <1>2, <2>3 DEF TrainingTypes
    <3>2. /\ DOMAIN cands = DOMAIN search.cands \cup {Len(search.cands) + 1}
          /\ \A j \in DOMAIN search.cands : cands[j] = search.cands[j]
          /\ cands[Len(search.cands) + 1] = report
      BY <3>1
    <3> HIDE DEF cands
    <3> QED
      BY <2>1, <2>2, <2>3, <3>2
  <2>4. CASE ~found
    BY <2>1, <2>2, <2>4
  <2> QED
    BY <2>3, <2>4
<1> HIDE DEF cands
<1>7. Candidates'
  BY <1>1, <1>4, <1>6 DEF Candidates
<1>8. \A c, r : Numbers(c, r)' = Numbers(c, r)
  BY <1>1 DEF Numbers
<1>9. 0 .. Checkpoint - 1 \subseteq Numbers(case, "fit") /\ Checkpoint \in Numbers(case, "validation")
  BY <1>1, <1>5 DEF FitInv, SearchFits
<1>10. SearchFits'
  <2>1. Tasks' = {}
    BY <1>1, <1>2 DEF Tasks, NoBatch
  <2> QED
    BY <1>1, <1>4, <1>5, <1>8, <1>9, <2>1 DEF SearchFits
<1>11. ReportFits'
  <2> SUFFICES ASSUME NEW r \in reports'
               PROVE  /\ 0 .. r.at - 1 \subseteq Numbers(r.case, "fit")
                      /\ r.at \in Numbers(r.case, "validation")
    BY <1>8 DEF ReportFits
  <2>1. CASE r = report
    BY <1>3, <1>9, <2>1
  <2>2. CASE r \in reports
    BY <2>2 DEF FitInv, ReportFits
  <2> QED
    BY <1>1, <2>1, <2>2
<1>12. BestStaged'
  <2>1. \A c \in DOMAIN staged : c # case
    <3>1. Len(staged) = case - 1
      BY <1>1, <1>2 DEF SearchInv
    <3>2. case \in Nat
      BY <1>2, MpcTrainingAssumption DEF TrainingTypes, Cases
    <3>3. DOMAIN staged = 1 .. Len(staged)
      BY <1>2 DEF TrainingTypes
    <3> QED
      BY <3>1, <3>2, <3>3
  <2>2. \A c \in DOMAIN staged : SoundReports(c)' = SoundReports(c)
    BY <1>1, <1>3, <2>1 DEF SoundReports, ReportsOf
  <2> QED
    BY <1>1, <2>2 DEF FitInv, BestStaged
<1> QED
  BY <1>7, <1>10, <1>11, <1>12 DEF FitInv

LEMMA EndCaseFits ==
    ASSUME TrainingInv, TrainingInv', FitInv, EndCase
    PROVE  FitInv'
<1>1. /\ pc = "closing" /\ UNCHANGED <<workers, err, batch, bank, reports>>
  BY DEF EndCase
<1>2. TrainingTypes /\ SearchInv
  BY DEF TrainingInv
<1>3. CASE err \/ ~LanesValid
  <2>1. pc' = "failing" /\ UNCHANGED staged
    BY <1>3 DEF EndCase
  <2> QED
    BY <1>1, <2>1, FitQuiet
<1>4. CASE ~(err \/ ~LanesValid)
  <2>1. /\ staged' = Append(staged, Best(search.cands)) /\ ~err
        /\ pc' \in {"installing", "selecting"}
    BY <1>4 DEF EndCase
  <2>2. /\ search.cands \in Seq(ReportStates) /\ search.cands # <<>> /\ staged \in Seq(ReportStates)
        /\ Len(staged) = case - 1 /\ case \in Nat
    BY <1>1, <1>2, <2>1, MpcTrainingAssumption DEF TrainingTypes, SearchInv, Cases
  <2>3. {search.cands[j] : j \in DOMAIN search.cands} = SoundReports(case)
    BY <1>1, <2>1 DEF FitInv, Candidates
  <2>4. /\ Best(search.cands) \in SoundReports(case)
        /\ \A r \in SoundReports(case) : r.reward <= Best(search.cands).reward
    <3>1. PICK j \in DOMAIN search.cands : Best(search.cands) = search.cands[j]
      BY <2>2, BestCandidate
    <3>2. \A j2 \in DOMAIN search.cands : search.cands[j2].reward <= Best(search.cands).reward
      BY <2>2, BestCandidate
    <3> QED
      BY <2>3, <3>1, <3>2
  <2>5. /\ DOMAIN staged' = DOMAIN staged \cup {case}
        /\ staged'[case] = Best(search.cands)
        /\ \A c \in DOMAIN staged : staged'[c] = staged[c]
    <3>1. Len(staged) + 1 = case
      BY <2>2
    <3> HIDE DEF Best
    <3> QED
      BY <2>1, <2>2, <3>1
  <2>6. /\ \A c, role : Numbers(c, role)' = Numbers(c, role)
        /\ \A c : SoundReports(c)' = SoundReports(c)
    BY <1>1 DEF Numbers, SoundReports, ReportsOf
  <2>7. BestStaged'
    BY <2>4, <2>5, <2>6 DEF FitInv, BestStaged
  <2>8. ReportFits'
    BY <1>1, <2>6 DEF FitInv, ReportFits
  <2>9. SearchFits'
    BY <2>1 DEF SearchFits
  <2>10. Candidates'
    <3> SUFFICES ASSUME pc' = "selecting"
                 PROVE  {search'.cands[j] : j \in DOMAIN search'.cands} = SoundReports(case)'
      BY <2>1 DEF Candidates
    <3>1. search' = NewSearch /\ \A r \in reports' : r.case < case'
      BY DEF TrainingInv, SearchInv, CaseOrder
    <3>2. \A r \in reports' : r.case # case'
      <4>1. case' \in Nat /\ \A r \in reports' : r.case \in Nat
        <5>1. case' \in Cases /\ reports' \subseteq ReportStates
          BY DEF TrainingInv, TrainingTypes
        <5>2. Cases \subseteq Nat
          BY MpcTrainingAssumption DEF Cases
        <5> QED
          BY <5>1, <5>2 DEF ReportStates
      <4> QED
        BY <3>1, <4>1
    <3>3. SoundReports(case)' = {}
      BY <3>2 DEF SoundReports, ReportsOf
    <3>4. search'.cands = <<>>
      BY <3>1 DEF NewSearch
    <3> QED
      BY <3>3, <3>4
  <2> QED
    BY <2>7, <2>8, <2>9, <2>10 DEF FitInv
<1> QED
  BY <1>3, <1>4

LEMMA FitNext ==
    ASSUME TrainingInv, TrainingInv', FitInv, [TrainingNext]_trainingVars
    PROVE  FitInv'
<1>1. CASE SelectLane \/ StartBatch \/ EndBatch \/ EndCase
  BY <1>1, SelectsFit, StartFits, EndFits, EndCaseFits
<1>2. CASE pc = "searching" /\ \E i \in Tasks : Begin(i) \/ Step(i) \/ Save(i) \/ EpisodeFails(i)
  BY <1>2, ThreadFits, SaveFits
<1>3. CASE \E zero, good \in BOOLEAN, reward \in Rewards : Report(zero, good, reward)
  BY <1>3, ReportFit
<1>4. CASE LaneSelectFails \/ NoBatchMore
  <2>1. pc' = "closing" /\ err' = TRUE /\ UNCHANGED <<bank, reports, staged>>
    BY <1>4 DEF LaneSelectFails, NoBatchMore, Unwind, disk
  <2> QED
    BY <2>1, FitQuiet
<1>5. CASE StopLane \/ LaneStopFails
  <2>1. /\ pc' = "closing" /\ pc = "closing" /\ UNCHANGED <<case, search, bank, reports, staged>>
        /\ err' = err \/ err' = TRUE
    BY <1>5 DEF StopLane, LaneStopFails, disk
  <2> QED
    BY <2>1, FitQuiet
<1>6. CASE Install \/ InstallFails \/ WriteCompletion \/ WriteFailure \/ KillTraining
  <2>1. /\ pc' \in {"installing", "failing", "completed", "failed", "killed"}
        /\ UNCHANGED <<bank, reports, staged>>
    BY <1>6 DEF Install, InstallFails, WriteCompletion, WriteFailure, KillTraining, disk
  <2> QED
    BY <2>1, FitQuiet
<1>7. CASE UNCHANGED trainingVars
  <2>1. UNCHANGED <<workers, pc, case, err, batch, search, bank, reports, staged>>
    BY <1>7 DEF trainingVars
  <2>2. Tasks' = Tasks /\ \A k \in Tasks : Task(k)' = Task(k)
    BY <2>1 DEF Tasks, Task
  <2> QED
    BY <2>1, <2>2, FitTask
<1> QED
  BY <1>1, <1>2, <1>3, <1>4, <1>5, <1>6, <1>7 DEF TrainingNext

-----------------------------------------------------------------------------
(* Lanes and files. *)

\* NextLane is the first lane nobody tried to stop, or 0.
LEMMA NextLaneIs ==
    ASSUME TrainingTypes
    PROVE  /\ NextLane = 0 => \A l \in DOMAIN lanes : lanes[l].tried
           /\ NextLane # 0 => NextLane \in DOMAIN lanes
<1> DEFINE I == {l \in 1 .. Len(lanes) : ~lanes[l].tried}
<1>1. DOMAIN lanes = 1 .. Len(lanes) /\ Len(lanes) \in Nat
  BY DEF TrainingTypes
<1>2. NextLane = IF I # {} THEN Min(I) ELSE 0
  BY DEF NextLane, SelectInSeq
<1>3. IsFiniteSet(I) /\ I \in SUBSET Int
  <2>1. IsFiniteSet(1 .. Len(lanes)) /\ I \subseteq 1 .. Len(lanes)
    BY <1>1, FS_Interval
  <2> QED
    BY <1>1, <2>1, FS_Subset
<1>4. I # {} => Min(I) \in I
  <2> HIDE DEF I
  <2> QED
    BY <1>3, MinOf
<1>5. I # {} => Min(I) \in 1 .. Len(lanes) /\ Min(I) # 0
  BY <1>1, <1>4
<1>6. I = {} => \A l \in 1 .. Len(lanes) : lanes[l].tried
  OBVIOUS
<1> HIDE DEF I
<1> QED
  BY <1>1, <1>2, <1>5, <1>6

\* A step that stops nothing.
LEMMA LiveKept ==
    ASSUME LiveInv, case' = case, lostLanes \subseteq lostLanes',
           pc' \in {"selecting", "searching", "closing"},
           DOMAIN lanes' = DOMAIN lanes, \A l \in DOMAIN lanes : lanes'[l].tried = lanes[l].tried,
           \A t \in TestIds : LaneLive(t)' => LaneLive(t)
    PROVE  LiveInv'
<1> SUFFICES ASSUME NEW t \in TestIds, LaneLive(t)', t \notin lostLanes'
             PROVE  ToStop(t)'
  BY DEF LiveInv
<1>1. ToStop(t)
  BY DEF LiveInv
<1> QED
  BY <1>1 DEF ToStop

LEMMA SameState ==
    ASSUME TrainingTypes, NEW u, NEW by, laneTests' = [laneTests EXCEPT ![u].by = by]
    PROVE  \A t \in TestIds : LaneLive(t)' = LaneLive(t)
<1> SUFFICES ASSUME NEW t \in TestIds
             PROVE  laneTests'[t].st = laneTests[t].st
  BY DEF LaneLive
<1>1. laneTests \in [TestIds -> LaneTestStates] /\ laneTests[t] \in LaneTestStates
  BY DEF TrainingTypes
<1>2. CASE t = u
  <2>1. laneTests'[t] = [laneTests[t] EXCEPT !.by = by]
    BY <1>1, <1>2
  <2> QED
    BY <1>1, <2>1 DEF LaneTestStates
<1>3. CASE t # u
  BY <1>1, <1>3
<1> QED
  BY <1>2, <1>3

LEMMA StateSet ==
    ASSUME TrainingTypes, NEW u, NEW st, laneTests' = [laneTests EXCEPT ![u].st = st]
    PROVE  /\ \A t \in TestIds : t # u => LaneLive(t)' = LaneLive(t)
           /\ u \in TestIds => laneTests'[u].st = st
<1>1. laneTests \in [TestIds -> LaneTestStates]
  BY DEF TrainingTypes
<1>2. \A t \in TestIds : t # u => laneTests'[t] = laneTests[t]
  BY <1>1
<1>3. u \in TestIds => laneTests'[u] = [laneTests[u] EXCEPT !.st = st]
  BY <1>1
<1>4. u \in TestIds => laneTests'[u].st = st
  BY <1>1, <1>3 DEF LaneTestStates
<1> QED
  BY <1>2, <1>4 DEF LaneLive

\* What the steps of a search leave alone.
LEMMA SearchFrame ==
    ASSUME \/ NoBatchMore \/ StartBatch \/ EndBatch
           \/ pc = "searching" /\ \E i \in Tasks : Begin(i) \/ Step(i) \/ Save(i) \/ EpisodeFails(i)
           \/ \E zero, good \in BOOLEAN, reward \in Rewards : Report(zero, good, reward)
    PROVE  /\ pc = "searching" /\ pc' \in {"searching", "closing"}
           /\ UNCHANGED <<case, staged, installed, done, lostLanes>>
           /\ \/ lanes' = lanes
              \/ \E l : lanes' = [lanes EXCEPT ![l].inits = @ + 1]
           /\ \/ laneTests' = laneTests
              \/ \E u, by : laneTests' = [laneTests EXCEPT ![u].by = by]
<1>1. CASE NoBatchMore \/ StartBatch \/ EndBatch
  <2>1. /\ pc = "searching" /\ pc' \in {pc, "closing"} /\ lanes' = lanes /\ laneTests' = laneTests
        /\ UNCHANGED <<case, staged, installed, done, lostLanes>>
    BY <1>1 DEF NoBatchMore, StartBatch, EndBatch, Unwind, disk
  <2> QED
    BY <2>1
<1>2. CASE pc = "searching" /\ \E i \in Tasks : Begin(i) \/ Step(i) \/ Save(i) \/ EpisodeFails(i)
  <2>1. PICK i \in Tasks : Begin(i) \/ Step(i) \/ Save(i) \/ EpisodeFails(i)
    BY <1>2
  <2>2. UNCHANGED <<pc, case, staged, installed, done, lostLanes>>
    BY <2>1 DEF Begin, Step, Save, EpisodeFails, disk
  <2>3. lanes' = lanes \/ lanes' = [lanes EXCEPT ![(i % workers) + 1].inits = @ + 1]
    BY <2>1 DEF Begin, Step, Save, EpisodeFails
  <2>4. \/ laneTests' = laneTests
        \/ \E by : laneTests' = [laneTests EXCEPT ![LaneOf(i)].by = by]
    BY <2>1 DEF Begin, Step, Save, EpisodeFails
  <2> QED
    BY <1>2, <2>2, <2>3, <2>4
<1>3. CASE \E zero, good \in BOOLEAN, reward \in Rewards : Report(zero, good, reward)
  <2>1. PICK zero \in BOOLEAN, good \in BOOLEAN, reward \in Rewards : Report(zero, good, reward)
    BY <1>3
  <2>2. /\ pc = "searching" /\ pc' \in {"searching", "closing"}
        /\ UNCHANGED <<case, lanes, laneTests, staged, installed, done, lostLanes>>
    BY <2>1 DEF Report
  <2> QED
    BY <2>2
<1> QED
  BY <1>1, <1>2, <1>3

LEMMA SearchLeaves ==
    ASSUME TrainingInv, AccountInv,
           \/ NoBatchMore \/ StartBatch \/ EndBatch
           \/ pc = "searching" /\ \E i \in Tasks : Begin(i) \/ Step(i) \/ Save(i) \/ EpisodeFails(i)
           \/ \E zero, good \in BOOLEAN, reward \in Rewards : Report(zero, good, reward)
    PROVE  AccountInv'
<1>1. TrainingTypes
  BY DEF TrainingInv
<1>2. /\ pc = "searching" /\ pc' \in {"searching", "closing"}
      /\ UNCHANGED <<case, staged, installed, done, lostLanes>>
  BY SearchFrame
<1>3. DOMAIN lanes' = DOMAIN lanes /\ \A l \in DOMAIN lanes : lanes'[l].tried = lanes[l].tried
  <2>1. lanes \in [DOMAIN lanes -> LaneStates]
    BY <1>1 DEF TrainingTypes
  <2>2. CASE lanes' = lanes
    BY <2>2
  <2>3. CASE \E k : lanes' = [lanes EXCEPT ![k].inits = @ + 1]
    <3>1. PICK k : lanes' = [lanes EXCEPT ![k].inits = @ + 1]
      BY <2>3
    <3>2. \A l \in DOMAIN lanes : l # k => lanes'[l] = lanes[l]
      BY <2>1, <3>1
    <3>3. k \in DOMAIN lanes => lanes'[k].tried = lanes[k].tried
      BY <2>1, <3>1 DEF LaneStates
    <3> QED
      BY <2>1, <3>1, <3>2, <3>3
  <2> QED
    BY <2>2, <2>3, SearchFrame
<1>4. \A t \in TestIds : LaneLive(t)' = LaneLive(t)
  <2>1. CASE laneTests' = laneTests
    BY <2>1 DEF LaneLive
  <2>2. CASE \E u, by : laneTests' = [laneTests EXCEPT ![u].by = by]
    BY <1>1, <2>2, SameState
  <2> QED
    BY <2>1, <2>2, SearchFrame
<1>5. LiveInv'
  BY <1>2, <1>3, <1>4, LiveKept DEF AccountInv
<1>6. LostInv' /\ FilesLeft'
  BY <1>2 DEF AccountInv, LostInv, FilesLeft
<1> QED
  BY <1>5, <1>6 DEF AccountInv

LEMMA SelectLeaves ==
    ASSUME TrainingInv, AccountInv, SelectLane \/ LaneSelectFails
    PROVE  AccountInv'
<1> DEFINE u == <<case, Len(lanes)>>
<1>1. TrainingTypes /\ Len(lanes) \in Nat /\ DOMAIN lanes = 1 .. Len(lanes)
  BY DEF TrainingInv, TrainingTypes
<1>2. /\ pc = "selecting" /\ pc' \in {"selecting", "searching", "closing"}
      /\ UNCHANGED <<case, staged, installed, done>>
  BY DEF SelectLane, LaneSelectFails, Unwind, disk
<1>3. lostLanes = {}
  BY <1>2 DEF AccountInv, LostInv
<1>4. FilesLeft'
  BY <1>2 DEF AccountInv, FilesLeft
<1>5. CASE SelectLane
  <2>1. /\ laneTests' = [laneTests EXCEPT ![u].st = "live"]
        /\ lanes' = Append(lanes, [inits |-> 0, stops |-> 0, tried |-> FALSE])
        /\ lostLanes' = lostLanes
    BY <1>5 DEF SelectLane
  <2>2. /\ DOMAIN lanes' = 1 .. Len(lanes) + 1 /\ lanes'[Len(lanes) + 1].tried = FALSE
        /\ \A l \in DOMAIN lanes : l \in DOMAIN lanes' /\ lanes'[l] = lanes[l]
    BY <1>1, <2>1
  <2>3. ASSUME NEW t \in TestIds, LaneLive(t)'  PROVE ToStop(t)'
    <3>1. CASE t = u
      BY <1>1, <1>2, <2>2, <3>1 DEF ToStop
    <3>2. CASE t # u
      <4>1. LaneLive(t)
        BY <1>1, <2>1, <2>3, <3>2, StateSet
      <4>2. ToStop(t)
        BY <1>3, <4>1 DEF AccountInv, LiveInv
      <4> QED
        BY <1>2, <2>2, <4>2 DEF ToStop
    <3> QED
      BY <3>1, <3>2
  <2>4. LiveInv'
    BY <2>3 DEF LiveInv
  <2>5. LostInv'
    BY <1>3, <2>1 DEF LostInv
  <2> QED
    BY <1>4, <2>4, <2>5 DEF AccountInv
<1>6. CASE LaneSelectFails
  <2>1. /\ pc' = "closing" /\ err' = TRUE /\ lanes' = lanes
        /\ \/ /\ laneTests' = [laneTests EXCEPT ![u].st = "live"]
              /\ lostLanes' = lostLanes \cup {u}
           \/ laneTests' = laneTests /\ lostLanes' = lostLanes
    BY <1>6 DEF LaneSelectFails, Unwind
  <2>2. ASSUME NEW t \in TestIds, LaneLive(t)', t \notin lostLanes'  PROVE ToStop(t)'
    <3>1. LaneLive(t)
      <4>1. CASE laneTests' = laneTests
        BY <2>2, <4>1 DEF LaneLive
      <4>2. CASE laneTests' = [laneTests EXCEPT ![u].st = "live"] /\ lostLanes' = lostLanes \cup {u}
        BY <1>1, <2>2, <4>2, StateSet
      <4> QED
        BY <2>1, <4>1, <4>2
    <3>2. ToStop(t)
      BY <1>3, <3>1 DEF AccountInv, LiveInv
    <3> QED
      BY <1>2, <2>1, <3>2 DEF ToStop
  <2>3. LiveInv' /\ LostInv'
    BY <2>1, <2>2 DEF LiveInv, LostInv
  <2> QED
    BY <1>4, <2>3 DEF AccountInv
<1> QED
  BY <1>5, <1>6

LEMMA StopLeaves ==
    ASSUME TrainingInv, AccountInv, StopLane \/ LaneStopFails
    PROVE  AccountInv'
<1> DEFINE u == <<case, NextLane - 1>>
<1>1. TrainingTypes
  BY DEF TrainingInv
<1>2. /\ pc = "closing" /\ pc' = "closing" /\ NextLane # 0
      /\ UNCHANGED <<case, staged, installed, done>>
  BY DEF StopLane, LaneStopFails, disk
<1>3. FilesLeft'
  BY <1>2 DEF AccountInv, FilesLeft
<1>4. NextLane \in DOMAIN lanes /\ NextLane \in Int
  BY <1>1, <1>2, NextLaneIs DEF TrainingTypes
<1>5. /\ \/ lanes' = [lanes EXCEPT ![NextLane].tried = TRUE, ![NextLane].stops = 1]
         \/ lanes' = [lanes EXCEPT ![NextLane].tried = TRUE]
  BY DEF StopLane, LaneStopFails
<1> HIDE DEF NextLane
<1>6. DOMAIN lanes' = DOMAIN lanes /\ \A l \in DOMAIN lanes : l # NextLane => lanes'[l] = lanes[l]
  BY <1>5
<1>7. ASSUME NEW t \in TestIds, t # u, ToStop(t)  PROVE ToStop(t)'
  <2>1. t = <<t[1], t[2]>> /\ t[2] \in Int
    <3>1. t \in Cases \X LaneIds(Max(WorkerCounts))
      BY DEF TestIds
    <3>2. t[2] \in LaneIds(Max(WorkerCounts)) /\ t = <<t[1], t[2]>>
      BY <3>1
    <3> QED
      BY <3>2 DEF LaneIds
  <2>2. t[2] + 1 # NextLane
    BY <1>4, <1>7, <2>1 DEF ToStop
  <2> QED
    BY <1>2, <1>6, <1>7, <2>2 DEF ToStop
<1>8. CASE StopLane
  <2>1. laneTests' = [laneTests EXCEPT ![u].st = "stopped"] /\ UNCHANGED <<err, lostLanes>>
    BY <1>8 DEF StopLane
  <2>2. ASSUME NEW t \in TestIds, LaneLive(t)'  PROVE t # u /\ LaneLive(t)
    <3>1. t # u
      <4>1. u \in TestIds => laneTests'[u].st = "stopped"
        BY <1>1, <2>1, StateSet
      <4> QED
        BY <2>2, <4>1 DEF LaneLive
    <3> QED
      BY <1>1, <2>1, <2>2, <3>1, StateSet
  <2>3. LiveInv'
    BY <1>7, <2>1, <2>2 DEF AccountInv, LiveInv
  <2>4. LostInv'
    BY <1>2, <2>1 DEF AccountInv, LostInv
  <2> QED
    BY <1>3, <2>3, <2>4 DEF AccountInv
<1>9. CASE LaneStopFails
  <2>1. laneTests' = laneTests /\ err' = TRUE /\ lostLanes' = lostLanes \cup {u}
    BY <1>9 DEF LaneStopFails
  <2>2. \A t \in TestIds : LaneLive(t)' => LaneLive(t)
    BY <2>1 DEF LaneLive
  <2>3. LiveInv'
    BY <1>7, <2>1, <2>2 DEF AccountInv, LiveInv
  <2>4. LostInv'
    BY <1>2, <2>1 DEF LostInv
  <2> QED
    BY <1>3, <2>3, <2>4 DEF AccountInv
<1> QED
  BY <1>8, <1>9

\* After the last lane nothing of the case is left to be stopped.
LEMMA EndCaseLeaves ==
    ASSUME TrainingInv, AccountInv, EndCase
    PROVE  AccountInv'
<1>1. TrainingTypes /\ SearchInv
  BY DEF TrainingInv
<1>2. /\ pc = "closing" /\ NextLane = 0
      /\ UNCHANGED <<err, laneTests, installed, done, lostLanes>>
  BY DEF EndCase
<1>3. \A t \in TestIds : LaneLive(t)' => t \in lostLanes'
  <2>1. \A l \in DOMAIN lanes : lanes[l].tried
    BY <1>1, <1>2, NextLaneIs
  <2>2. \A t \in TestIds : ~ToStop(t)
    BY <2>1 DEF ToStop
  <2> QED
    BY <1>2, <2>2 DEF AccountInv, LiveInv, LaneLive
<1>4. LiveInv'
  BY <1>3 DEF LiveInv
<1>5. installed \subseteq DOMAIN staged /\ done = {}
  BY <1>2 DEF AccountInv, FilesLeft
<1>6. CASE err \/ ~LanesValid
  <2>1. pc' = "failing" /\ UNCHANGED staged
    BY <1>6 DEF EndCase
  <2> QED
    BY <1>2, <1>4, <1>5, <2>1 DEF AccountInv, LostInv, FilesLeft
<1>7. CASE ~(err \/ ~LanesValid)
  <2>1. /\ staged' = Append(staged, Best(search.cands)) /\ ~err
        /\ pc' = "selecting" \/ (pc' = "installing" /\ case' = case /\ case = NumCases)
    BY <1>7 DEF EndCase
  <2>2. lostLanes = {}
    BY <1>2, <2>1 DEF AccountInv, LostInv
  <2>3. /\ DOMAIN staged \subseteq DOMAIN staged'
        /\ Len(staged) = case - 1 /\ Len(staged') = Len(staged) + 1
    <3>1. staged \in Seq(ReportStates) /\ Len(staged) = case - 1
      BY <1>1, <1>2 DEF TrainingTypes, SearchInv
    <3> HIDE DEF Best
    <3> QED
      BY <2>1, <3>1
  <2>4. case \in Nat
    BY <1>1, MpcTrainingAssumption DEF TrainingTypes, Cases
  <2>5. FilesLeft'
    BY <1>2, <1>5, <2>1, <2>3, <2>4 DEF FilesLeft
  <2>6. LostInv'
    BY <1>2, <2>2 DEF LostInv
  <2> QED
    BY <1>4, <2>5, <2>6 DEF AccountInv
<1> QED
  BY <1>6, <1>7

LEMMA LastLeaves ==
    ASSUME TrainingInv, AccountInv,
           Install \/ InstallFails \/ WriteCompletion \/ WriteFailure \/ KillTraining
    PROVE  AccountInv'
<1>1. TrainingTypes
  BY DEF TrainingInv
<1>2. CASE KillTraining
  <2>1. /\ ~Over /\ pc' = "killed" /\ UNCHANGED <<laneTests, staged, installed, done>>
        /\ lostLanes' = lostLanes \cup {t \in TestIds : LaneLive(t)}
    BY <1>2 DEF KillTraining, disk
  <2>2. LiveInv'
    BY <2>1 DEF LiveInv, LaneLive
  <2>3. FilesLeft'
    BY <2>1 DEF AccountInv, FilesLeft, Over
  <2>4. LostInv'
    BY <2>1 DEF LostInv
  <2> QED
    BY <2>2, <2>3, <2>4 DEF AccountInv
<1>3. CASE Install \/ InstallFails \/ WriteCompletion \/ WriteFailure
  <2>1. /\ UNCHANGED <<case, laneTests, staged, lostLanes>>
        /\ pc \in {"installing", "failing"}
    BY <1>3 DEF Install, InstallFails, WriteCompletion, WriteFailure, disk
  <2>2. LiveInv'
    <3>1. \A t \in TestIds : LaneLive(t) => t \in lostLanes
      BY <2>1 DEF AccountInv, LiveInv, ToStop
    <3> QED
      BY <2>1, <3>1 DEF LiveInv, LaneLive
  <2>3. CASE Install
    <3>1. /\ pc = "installing" /\ pc' = pc /\ done' = done /\ installed # Cases
          /\ installed' = installed \cup {Min(Cases \ installed)}
      BY <2>3 DEF Install
    <3>2. staged \in Seq(ReportStates) /\ Len(staged) = NumCases /\ installed \subseteq DOMAIN staged
      BY <1>1, <3>1 DEF TrainingTypes, AccountInv, FilesLeft
    <3>3. DOMAIN staged = Cases
      BY <3>2 DEF Cases
    <3>4. Min(Cases \ installed) \in Cases \ installed
      <4>1. Cases \in SUBSET Int /\ IsFiniteSet(Cases)
        BY MpcTrainingAssumption, FS_Interval DEF Cases
      <4>2. IsFiniteSet(Cases \ installed) /\ Cases \ installed \in SUBSET Int
        BY <4>1, FS_Subset
      <4>3. Cases \ installed # {}
        BY <3>1, <3>2, <3>3
      <4> QED
        BY <4>2, <4>3, MinOf
    <3>5. FilesLeft'
      BY <2>1, <3>1, <3>2, <3>3, <3>4 DEF AccountInv, FilesLeft
    <3>6. LostInv'
      BY <2>1, <3>1 DEF AccountInv, LostInv
    <3> QED
      BY <2>2, <3>5, <3>6 DEF AccountInv
  <2>4. CASE InstallFails
    <3>1. pc = "installing" /\ pc' = "failing" /\ UNCHANGED <<done, installed>>
      BY <2>4 DEF InstallFails, disk
    <3> QED
      BY <2>1, <2>2, <3>1 DEF AccountInv, LostInv, FilesLeft
  <2>5. CASE WriteCompletion
    <3>1. /\ pc = "installing" /\ pc' = "completed" /\ installed' = installed /\ installed = Cases
          /\ done' = done \cup {"completion"}
      BY <2>5 DEF WriteCompletion, MayComplete
    <3> QED
      BY <2>1, <2>2, <3>1 DEF AccountInv, LostInv, FilesLeft
  <2>6. CASE WriteFailure
    <3>1. /\ pc = "failing" /\ pc' = "failed" /\ installed' = installed
          /\ done' = done \cup {"failure"}
      BY <2>6 DEF WriteFailure
    <3> QED
      BY <2>1, <2>2, <3>1 DEF AccountInv, LostInv, FilesLeft
  <2> QED
    BY <1>3, <2>3, <2>4, <2>5, <2>6
<1> QED
  BY <1>2, <1>3

LEMMA AccountNext ==
    ASSUME TrainingInv, AccountInv, [TrainingNext]_trainingVars
    PROVE  AccountInv'
<1>1. CASE \/ NoBatchMore \/ StartBatch \/ EndBatch
           \/ pc = "searching" /\ \E i \in Tasks : Begin(i) \/ Step(i) \/ Save(i) \/ EpisodeFails(i)
           \/ \E zero, good \in BOOLEAN, reward \in Rewards : Report(zero, good, reward)
  BY <1>1, SearchLeaves
<1>2. CASE SelectLane \/ LaneSelectFails
  BY <1>2, SelectLeaves
<1>3. CASE StopLane \/ LaneStopFails \/ EndCase
  BY <1>3, StopLeaves, EndCaseLeaves
<1>4. CASE Install \/ InstallFails \/ WriteCompletion \/ WriteFailure \/ KillTraining
  BY <1>4, LastLeaves
<1>5. CASE UNCHANGED trainingVars
  BY <1>5
     DEF AccountInv, LiveInv, LostInv, FilesLeft, ToStop, LaneLive, trainingVars
<1> QED
  BY <1>1, <1>2, <1>3, <1>4, <1>5 DEF TrainingNext

-----------------------------------------------------------------------------
LEMMA LeftInit == TrainingInit => FitInv /\ AccountInv
<1> SUFFICES ASSUME TrainingInit
             PROVE  FitInv /\ AccountInv
  OBVIOUS
<1>1. /\ pc = "selecting" /\ laneTests = [t \in TestIds |-> [st |-> "free", by |-> <<>>]]
      /\ search.cands = <<>> /\ bank = {} /\ reports = {} /\ staged = <<>>
      /\ installed = {} /\ done = {} /\ lostLanes = {}
  BY DEF TrainingInit, NewSearch
<1>2. FitInv
  BY <1>1 DEF FitInv, SearchFits, ReportFits, Candidates, BestStaged, SoundReports, ReportsOf
<1>3. \A t \in TestIds : ~LaneLive(t)
  BY <1>1 DEF LaneLive
<1>4. AccountInv
  BY <1>1, <1>3 DEF AccountInv, LiveInv, LostInv, FilesLeft
<1> QED
  BY <1>2, <1>4

\* What is staged and what is left, for any cases, lanes, checkpoints, rewards and faults.
THEOREM TrainingLeaves == TrainingSpec => [](TrainingInv /\ FitInv /\ AccountInv)
<1>1. TrainingInv /\ FitInv /\ AccountInv /\ [TrainingNext]_trainingVars
         => (TrainingInv /\ FitInv /\ AccountInv)'
  BY TrainingNextInv, FitNext, AccountNext
<1> QED
  BY <1>1, TrainingInitInv, LeftInit, PTL DEF TrainingSpec

\* A staged model is the best eligible one of its case, on episodes that are all there
\* (_fit_case of mpc/training.py).
THEOREM StagedAlwaysSound == TrainingSpec => []StagedSound
<1>1. TrainingInv /\ FitInv => StagedSound
  <2> SUFFICES ASSUME FitInv, NEW c \in DOMAIN staged
               PROVE  /\ staged[c].case = c /\ staged[c].zero /\ staged[c].good
                      /\ \A r \in ReportsOf(c) : r.zero /\ r.good => r.reward <= staged[c].reward
                      /\ 0 .. staged[c].at - 1 \subseteq Numbers(c, "fit")
                      /\ staged[c].at \in Numbers(c, "validation")
    BY DEF StagedSound
  <2>1. staged[c] \in SoundReports(c) /\ \A r \in SoundReports(c) : r.reward <= staged[c].reward
    BY DEF FitInv, BestStaged
  <2>2. staged[c] \in reports /\ staged[c].case = c /\ staged[c].zero /\ staged[c].good
    BY <2>1 DEF SoundReports, ReportsOf
  <2>3. \A r \in ReportsOf(c) : r.zero /\ r.good => r.reward <= staged[c].reward
    BY <2>1 DEF SoundReports
  <2> QED
    BY <2>2, <2>3 DEF FitInv, ReportFits
<1> QED
  BY <1>1, TrainingLeaves, PTL

\* One terminal file, all cases installed at a completion, and no test left but those whose
\* select or stop went wrong (train_hierarchical_mpc and its lanes).
THEOREM EndAlwaysTruthful == TrainingSpec => []EndTruthful
<1>1. TrainingInv /\ AccountInv => EndTruthful
  <2> SUFFICES ASSUME AccountInv
               PROVE  EndTruthful
    OBVIOUS
  <2>1. LiveInv /\ LostInv /\ FilesLeft
    BY DEF AccountInv
  <2>2. pc \in {"completed", "failed"} => Cardinality(done) = 1
    BY <2>1, FS_Singleton DEF FilesLeft
  <2>3. Over => \A t \in TestIds : LaneLive(t) => t \in lostLanes
    BY <2>1 DEF LiveInv, Over, ToStop
  <2>4. "completion" \in done => pc = "completed"
    BY <2>1 DEF FilesLeft
  <2>5. "completion" \in done => installed = Cases /\ Len(staged) = NumCases /\ lostLanes = {}
    BY <2>1, <2>4 DEF FilesLeft, LostInv
  <2> QED
    BY <2>1, <2>2, <2>3, <2>5 DEF EndTruthful, FilesLeft
<1> QED
  BY <1>1, TrainingLeaves, PTL
================================================================================
