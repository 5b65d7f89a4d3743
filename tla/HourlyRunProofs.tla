-------------------------- MODULE HourlyRunProofs ---------------------------
(***************************************************************************)
(* Proofs about the hourly agent runs, for any numbers of hours, steps and *)
(* runs, any zones and retries, and any faults.  The invariant says that a *)
(* run directory holds, in each of its streams, the rows of the hours that *)
(* are closed and of the one that is open, at the places where the runner  *)
(* writes them, that a resumed run holds its source's rows for the hours   *)
(* it replays, and that the process remembers what its directory says.     *)
(* From the places of the rows follow the three properties: the verifier   *)
(* finds nothing but the digits of a replayed prefix, a transport failure  *)
(* leaves a directory that can be resumed, and no replayed hour is asked.  *)
(***************************************************************************)
EXTENDS HourlyRun, FiniteSetTheorems, TLAPS

-----------------------------------------------------------------------------
(* Types. *)

Programs == [Zones -> Nat]
Callers == Zones \cup {"orchestrator", "reflector"}
CallRows == [hour : Nat, ord : Nat, who : Callers, tries : 1 .. RetryLimit + 1, ok : BOOLEAN,
             good : BOOLEAN, by : Nat]
UpdateRows == [hour : Nat, zone : Zones, before : Nat, after : Nat, good : BOOLEAN]
StepRows == [num : Nat, versions : Programs, test : Nat]
MemoryRows == [hour : Nat, zone : Zones, by : Nat]
DecisionRows == [hour : Nat, alloc : Nat \X Nat, fallback : BOOLEAN, versions : Programs]
Checkpoints == [next : Nat, test : Nat, versions : Programs]
Counted == {RetriesOf(calls) : calls \in Seq(CallRows)} \cup {0}
Errors == {"none", "terminal_transport_error", "terminal_runtime_error", "verification_failed"}
Ends == Errors \cup {"open", "killed", "stop_raised", "release_pass", "degraded"}
Directories ==
    [src : Nat, cut : Nat, dispatch : {"created", "selected", "running", "stopped"},
     resume : Seq({"started", "completed"}),
     lifecycle : Seq({"initialized", "evaluation_started", "evaluation_completed", "stopped"}),
     retries : Counted, fallbacks : Nat, scanned : BOOLEAN, calls : Seq(CallRows),
     updates : Seq(UpdateRows), steps : Seq(StepRows), caol : Seq(MemoryRows),
     decisions : Seq(DecisionRows), ckpt : Checkpoints, end : Ends]
Pcs == {"idle", "select", "queued", "import", "hour", "executors", "step", "hour_end", "stop",
        "verify", "failing"}
Processes == [pc : Pcs, run : Nat, step : Nat, versions : Programs, prev : Nat \X Nat,
              fell : BOOLEAN, fallbacks : Nat, stopTried : BOOLEAN, error : Errors]

HourlyTypes == runs \in Seq(Directories) /\ proc \in Processes

-----------------------------------------------------------------------------
(* The streams of one directory.  Row i of a stream with n rows an hour is   *)
(* the one at Place(n, i) of hour Block(n, i).                               *)

Block(n, i) == (i - 1) \div n
Place(n, i) == 1 + ((i - 1) % n)
Z == Len(ZoneSeq)
Caller(k) == IF k = 1 THEN "orchestrator"
             ELSE IF k = CallsPerHour THEN "reflector" ELSE ZoneSeq[k - 1]

DecisionsShape(run) ==
    /\ Len(run.decisions) <= Hours
    /\ \A h \in DOMAIN run.decisions : run.decisions[h].hour = h - 1

StepsShape(run, r) ==
    LET d == Len(run.decisions)
    IN  /\ d * StepsPerHour <= Len(run.steps) /\ Len(run.steps) <= (d + 1) * StepsPerHour
        /\ \A s \in DOMAIN run.steps :
              /\ run.steps[s].test = r
              /\ Block(StepsPerHour, s) < d =>
                    run.steps[s].versions = run.decisions[Block(StepsPerHour, s) + 1].versions

UpdatesShape(run) ==
    LET d == Len(run.decisions)
    IN  /\ Len(run.updates) \in {d * Z, (d + 1) * Z}
        /\ \A i \in DOMAIN run.updates :
              /\ run.updates[i].hour = Block(Z, i)
              /\ run.updates[i].zone = ZoneSeq[Place(Z, i)]
              /\ run.updates[i].before = IF i <= Z THEN 0 ELSE run.updates[i - Z].after
              /\ Block(Z, i) < d =>
                    run.updates[i].after =
                        run.decisions[Block(Z, i) + 1].versions[ZoneSeq[Place(Z, i)]]

MemoryShape(run) ==
    /\ Len(run.caol) = Len(run.decisions) * Z
    /\ \A i \in DOMAIN run.caol :
          /\ run.caol[i].hour = Block(Z, i) /\ run.caol[i].zone = ZoneSeq[Place(Z, i)]
          /\ run.caol[i].by = run.calls[(Block(Z, i) + 1) * CallsPerHour].by

CallPlaced(call, i) ==
    /\ call.hour = Block(CallsPerHour, i) /\ call.ord = i - 1
    /\ call.who = Caller(Place(CallsPerHour, i))

CallsShape(run) ==
    /\ Len(run.decisions) * CallsPerHour <= Len(run.calls)
    /\ \A i \in DOMAIN run.calls :
          /\ CallPlaced(run.calls[i], i)
          /\ i <= Len(run.decisions) * CallsPerHour => run.calls[i].ok

\* The allocation of an hour, from its orchestrator's call and the hour before.
Allocated(call, h, before) == IF call.good THEN <<call.by, h - 1>> ELSE before
AllocationsShape(run) ==
    \A h \in DOMAIN run.decisions :
        LET call == run.calls[(h - 1) * CallsPerHour + 1]
        IN  /\ run.decisions[h].fallback = ~call.good
            /\ run.decisions[h].alloc =
                  Allocated(call, h, IF h = 1 THEN Split ELSE run.decisions[h - 1].alloc)

CheckpointShape(run, r) ==
    LET d == Len(run.decisions)
    IN  run.ckpt = IF d = 0 THEN NoCheckpoint
                   ELSE [next |-> d * StepsPerHour, test |-> r,
                         versions |-> run.decisions[d].versions]

\* A call fails alone and last, or in a batch that was issued whole and settled nothing.
FailedShape(run) ==
    LET d == Len(run.decisions)
        m == Len(run.calls)
    IN  (\E i \in DOMAIN run.calls : ~run.calls[i].ok) =>
            /\ run.retries = RetriesOf(run.calls)
            /\ \/ /\ m \in {d * CallsPerHour + 1, (d + 1) * CallsPerHour}
                  /\ \A i \in DOMAIN run.calls : i < m => run.calls[i].ok
               \/ /\ m = d * CallsPerHour + 1 + Z
                  /\ \A i \in 1 .. d * CallsPerHour + 1 : run.calls[i].ok
                  /\ Len(run.updates) = d * Z /\ Len(run.steps) = d * StepsPerHour

\* What a resumed run has of the n hours it was started from.
Copied(rows, from, m) == \A i \in DOMAIN rows : i <= m => rows[i] = from[i]
CallsOwned(calls, r, from, m) ==
    \A i \in DOMAIN calls : IF i <= m THEN calls[i] = from[i] /\ calls[i].by < r
                            ELSE calls[i].by = r
PrefixShape(run, r, source, n) ==
    /\ Copied(run.decisions, source.decisions, n)
    /\ Copied(run.updates, source.updates, n * Z)
    /\ Copied(run.caol, source.caol, n * Z)
    /\ CallsOwned(run.calls, r, source.calls, n * CallsPerHour)

Shape(run, r) ==
    /\ DecisionsShape(run) /\ StepsShape(run, r) /\ UpdatesShape(run) /\ MemoryShape(run)
    /\ CallsShape(run) /\ AllocationsShape(run) /\ CheckpointShape(run, r) /\ FailedShape(run)

\* The hours a run was started from.
Imported(run, source) == IF run.src = 0 THEN 0 ELSE Len(source.decisions)

\* The directory a run was resumed from; an empty one for a run that was not.
Origin(dirs, r) == IF dirs[r].src = 0 THEN NewRun(0, 0) ELSE dirs[dirs[r].src]

\* A step of the prefix has other digits than the source's.
Differs(run, source) == \E s \in 1 .. run.cut : run.steps[s].num # source.steps[s].num

Kept(run, source) ==
    /\ IsInjective([i \in DOMAIN run.calls |-> run.calls[i].ord])
    /\ run.cut > 0 => PrefixIdentity(run, run.cut) = PrefixIdentity(source, run.cut)

Started(run, r, source) ==
    /\ run.src < r /\ run.cut = Imported(run, source) * StepsPerHour
    /\ run.src # 0 => /\ source.end = "terminal_transport_error"
                      /\ Imported(run, source) \in 1 .. Hours - 1

Ended(run, source) ==
    /\ run.end = "terminal_transport_error" => run.scanned /\ run.retries = RetriesOf(run.calls)
    /\ run.end = "verification_failed" => Differs(run, source)
    /\ run.end \in {"release_pass", "degraded"} => Kept(run, source)

DirectoryInv(run, r, source) ==
    /\ Shape(run, r) /\ Started(run, r, source) /\ Ended(run, source)
    /\ PrefixShape(run, r, source, Imported(run, source))

RunsInv ==
    \A r \in DOMAIN runs :
        /\ DirectoryInv(runs[r], r, Origin(runs, r))
        /\ runs[r].end = "open" <=> proc.pc # "idle" /\ r = proc.run

-----------------------------------------------------------------------------
(* The process p and the directory of its run. *)

Asked(run, source) == Imported(run, source) <= Len(run.decisions)
Answered(run) == \A i \in DOMAIN run.calls : run.calls[i].ok
LastVersions(run) ==
    IF run.decisions = << >> THEN Unchanged ELSE run.decisions[Len(run.decisions)].versions
LastAllocation(run) ==
    IF run.decisions = << >> THEN Split ELSE run.decisions[Len(run.decisions)].alloc

\* What the open hour was given: by its orchestrator, or by the source.
Given(p, run, source) ==
    LET d == Len(run.decisions)
        call == run.calls[d * CallsPerHour + 1]
    IN  IF Asked(run, source)
        THEN p.fell = ~call.good /\ p.prev = Allocated(call, d + 1, LastAllocation(run))
        ELSE p.prev = source.decisions[d + 1].alloc

BetweenHours(p, run) ==
    /\ p.step = Len(run.decisions) * StepsPerHour /\ Len(run.steps) = p.step
    /\ Len(run.updates) = Len(run.decisions) * Z
    /\ p.versions = LastVersions(run)

InHour(p, run, source) ==
    LET d == Len(run.decisions)
    IN  /\ d < Hours
        /\ Len(run.steps) = p.step
        /\ Len(run.updates) = (d + 1) * Z
        /\ \A k \in 1 .. Z : p.versions[ZoneSeq[k]] = run.updates[d * Z + k].after
        /\ \A s \in DOMAIN run.steps : d * StepsPerHour < s => run.steps[s].versions = p.versions
        /\ Len(run.calls) = IF Asked(run, source) THEN (d + 1) * CallsPerHour - 1
                            ELSE Imported(run, source) * CallsPerHour
        /\ Given(p, run, source)

Resumed(run, source) ==
    IF run.src = 0 THEN << >>
    ELSE IF Asked(run, source) THEN <<"started", "completed">> ELSE <<"started">>

\* Before the first hour, between two hours, in an hour, after the last one.
Preparing(p, run) ==
    /\ BetweenHours(p, run) /\ Len(run.decisions) = 0 /\ run.calls = << >> /\ p.prev = Split
    /\ run.resume = << >>
    /\ p.pc = "import" => run.dispatch = "running"
                          /\ run.lifecycle = <<"initialized", "evaluation_started">>

Evaluating(p, run, source) ==
    /\ Answered(run) /\ run.dispatch = "running" /\ run.resume = Resumed(run, source)
    /\ run.lifecycle = <<"initialized", "evaluation_started">>

HourOpen(p, run, source) ==
    /\ BetweenHours(p, run) /\ Len(run.decisions) < Hours
    /\ p.pc = "hour" =>
          /\ p.prev = LastAllocation(run)
          /\ Len(run.calls) = (IF Asked(run, source) THEN Len(run.decisions)
                               ELSE Imported(run, source)) * CallsPerHour
    /\ p.pc = "executors" =>
          /\ Asked(run, source) /\ Given(p, run, source)
          /\ Len(run.calls) = Len(run.decisions) * CallsPerHour + 1

Over(p, run, source) ==
    /\ Len(run.decisions) = Hours /\ Len(run.steps) = Total /\ Len(run.updates) = Hours * Z
    /\ Len(run.calls) = Hours * CallsPerHour /\ Answered(run)
    /\ run.resume = Resumed(run, source)

Stopped(run) ==
    /\ run.dispatch = "stopped" /\ run.scanned /\ run.retries = RetriesOf(run.calls)
    /\ run.lifecycle = <<"initialized", "evaluation_started", "evaluation_completed", "stopped">>

Failing(p, run, source) ==
    /\ p.error # "none"
    /\ p.error = "terminal_transport_error" => run.retries = RetriesOf(run.calls)
    /\ p.error = "verification_failed" => Differs(run, source)

ProcShape(p, run, source) ==
    LET d == Len(run.decisions)
    IN  /\ p.pc \in {"select", "queued", "import"} => Preparing(p, run)
        /\ p.pc \in {"hour", "executors", "step", "hour_end", "stop"} => Evaluating(p, run, source)
        /\ p.pc \in {"hour", "executors"} => HourOpen(p, run, source)
        /\ p.pc \in {"step", "hour_end"} => InHour(p, run, source)
        /\ p.pc = "step" => p.step < (d + 1) * StepsPerHour
        /\ p.pc = "hour_end" => p.step = (d + 1) * StepsPerHour
        /\ p.pc \in {"stop", "verify"} => Over(p, run, source)
        /\ p.pc = "verify" => Stopped(run)
        /\ p.pc = "failing" => Failing(p, run, source)

ProcInv ==
    proc.pc # "idle" =>
        proc.run = Len(runs) /\ runs # << >> /\ ProcShape(proc, Me, Origin(runs, proc.run))

HourlyInv == HourlyTypes /\ RunsInv /\ ProcInv

-----------------------------------------------------------------------------
(* Positions in a stream. *)

LEMMA Divided ==
    ASSUME NEW n \in Nat \ {0}, NEW i \in Nat \ {0}
    PROVE  /\ Block(n, i) \in Nat /\ Place(n, i) \in 1 .. n
           /\ i = Block(n, i) * n + Place(n, i)
<1>1. i - 1 = n * ((i - 1) \div n) + ((i - 1) % n)
  OBVIOUS
<1>2. (i - 1) % n \in 0 .. n - 1 /\ (i - 1) \div n \in Int
  OBVIOUS
<1>3. (i - 1) \div n >= 0
  OBVIOUS
<1> QED
  BY <1>1, <1>2, <1>3 DEF Block, Place

LEMMA Multiples ==
    ASSUME NEW n \in Nat \ {0}, NEW a \in Int, NEW b \in Int
    PROVE  /\ a * n \in Int /\ (a + 1) * n = a * n + n
           /\ a < b => a * n + n <= b * n
           /\ a <= b => a * n <= b * n
           /\ a >= 0 => a * n \in Nat
<1>1. a * n \in Int /\ (a + 1) * n = a * n + n
  OBVIOUS
<1>2. ASSUME NEW x \in Int, NEW y \in Int, x <= y  PROVE x * n <= y * n
  <2>1. (y - x) * n >= 0
    BY <1>2
  <2>2. (y - x) * n = y * n - x * n
    OBVIOUS
  <2> QED
    BY <2>1, <2>2
<1>3. a < b => (a + 1) * n <= b * n
  BY <1>2
<1>4. a <= b => a * n <= b * n
  BY <1>2
<1>5. a >= 0 => 0 * n <= a * n
  BY <1>2
<1> QED
  BY <1>1, <1>3, <1>4, <1>5

LEMMA Positions ==
    ASSUME NEW n \in Nat \ {0}, NEW d \in Nat, NEW k \in 1 .. n
    PROVE  /\ Block(n, d * n + k) = d /\ Place(n, d * n + k) = k
           /\ d * n + k \in Nat \ {0}
<1> DEFINE i == d * n + k
           q == Block(n, i)
<1>1. d * n \in Nat
  BY Multiples
<1>2. i \in Nat \ {0}
  BY <1>1
<1>3. q \in Nat /\ Place(n, i) \in 1 .. n /\ i = q * n + Place(n, i)
  BY <1>2, Divided
<1> HIDE DEF q
<1>4. q * n \in Nat
  BY <1>3, Multiples
<1>5. q < d => q * n + n <= d * n
  BY <1>3, Multiples
<1>6. d < q => d * n + n <= q * n
  BY <1>3, Multiples
<1>7. ~(q < d) /\ ~(d < q)
  BY <1>1, <1>3, <1>4, <1>5, <1>6
<1>8. q = d
  BY <1>3, <1>7
<1>9. Place(n, i) = k
  BY <1>1, <1>3, <1>8
<1> QED
  BY <1>2, <1>8, <1>9 DEF q

LEMMA Blocks ==
    ASSUME NEW n \in Nat \ {0}, NEW i \in Nat \ {0}, NEW d \in Nat
    PROVE  /\ i <= d * n <=> Block(n, i) < d
           /\ i > d * n /\ i <= d * n + n <=> Block(n, i) = d
<1> DEFINE q == Block(n, i)
<1>1. q \in Nat /\ Place(n, i) \in 1 .. n /\ i = q * n + Place(n, i)
  BY Divided
<1> HIDE DEF q
<1>2. q * n \in Nat /\ d * n \in Nat
  BY <1>1, Multiples
<1>3. q < d => q * n + n <= d * n
  BY <1>1, Multiples
<1>4. d < q => d * n + n <= q * n
  BY <1>1, Multiples
<1>5. q = d => q * n = d * n
  OBVIOUS
<1> QED
  BY <1>1, <1>2, <1>3, <1>4, <1>5 DEF q

LEMMA HourAt ==
    ASSUME NEW d \in Nat, NEW j \in 0 .. StepsPerHour - 1
    PROVE  HourOf(d * StepsPerHour + j) = d /\ (d * StepsPerHour + j) % StepsPerHour = j
<1>1. StepsPerHour \in Nat \ {0} /\ j + 1 \in 1 .. StepsPerHour
  BY HourlyAssumption
<1>2. /\ Block(StepsPerHour, d * StepsPerHour + (j + 1)) = d
      /\ Place(StepsPerHour, d * StepsPerHour + (j + 1)) = j + 1
  BY <1>1, Positions
<1>3. d * StepsPerHour \in Nat
  BY <1>1, Multiples
<1>4. d * StepsPerHour + (j + 1) - 1 = d * StepsPerHour + j
  BY <1>3
<1> QED
  BY <1>1, <1>2, <1>3, <1>4 DEF HourOf, Block, Place

-----------------------------------------------------------------------------
(* What the selections of rows return, when what is kept is an interval. *)

\* The recursive function of Rows.
Upto(rows, kept, f) ==
    f = [i \in 0 .. Len(rows) |->
            IF i = 0 THEN << >>
            ELSE IF i \in kept THEN Append(f[i - 1], rows[i]) ELSE f[i - 1]]

LEMMA LeastNat ==
    ASSUME NEW P \in SUBSET Nat, P # {}
    PROVE  \E x \in P : \A y \in P : x <= y
<1>1. IsWellFoundedOn(OpToRel(<, Nat), Nat)
  BY NatLessThanWellFounded
<1>2. \E x \in P : \A y \in P : <<y, x>> \notin OpToRel(<, Nat)
  BY <1>1, WFMin
<1>3. PICK x \in P : \A y \in P : <<y, x>> \notin OpToRel(<, Nat)
  BY <1>2
<1>4. ASSUME NEW y \in P, y < x  PROVE FALSE
  BY <1>3, <1>4 DEF OpToRel
<1>5. \A y \in P : x <= y
  <2> TAKE y \in P
  <2>1. ~(y < x) /\ x \in Nat /\ y \in Nat
    BY <1>3, <1>4
  <2> QED
    BY <2>1
<1> QED
  BY <1>3, <1>5

LEMMA RowsInterval ==
    ASSUME NEW T, NEW rows \in Seq(T), NEW a \in Nat \ {0}, NEW b \in Nat, a <= b + 1,
           b <= Len(rows), NEW kept,
           \A i \in 1 .. Len(rows) : i \in kept <=> a <= i /\ i <= b
    PROVE  Rows(rows, kept) = SubSeq(rows, a, b)
<1> DEFINE upto(i) == IF i < a THEN << >> ELSE SubSeq(rows, a, IF i < b THEN i ELSE b)
           g == [i \in 0 .. Len(rows) |-> upto(i)]
           f == CHOOSE x : Upto(rows, kept, x)
<1>1. Len(rows) \in Nat
  OBVIOUS
<1>2. ASSUME NEW i \in 1 .. Len(rows)
      PROVE  upto(i) = IF i \in kept THEN Append(upto(i - 1), rows[i]) ELSE upto(i - 1)
  <2>1. CASE i < a
    BY <1>1, <2>1
  <2>2. CASE i > b
    <3>1. i \notin kept
      BY <1>1, <2>2
    <3>2. CASE i - 1 < a
      <4>1. CASE i < a
        BY <2>1, <4>1
      <4>2. CASE i = a
        <5>1. SubSeq(rows, a, b) = << >>
          BY <1>1, <2>2, <4>2
        <5>2. upto(i) = SubSeq(rows, a, b)
          BY <1>1, <2>2, <4>2
        <5>3. upto(i - 1) = << >>
          BY <1>1, <4>2
        <5> HIDE DEF upto
        <5> QED
          BY <3>1, <5>1, <5>2, <5>3
      <4> QED
        BY <1>1, <3>2, <4>1, <4>2
    <3>3. CASE i - 1 >= a
      BY <1>1, <2>2, <3>1, <3>3
    <3> QED
      BY <1>1, <3>2, <3>3
  <2>3. CASE a <= i /\ i <= b
    <3>1. i \in kept /\ upto(i) = SubSeq(rows, a, i)
      BY <1>1, <2>3
    <3>2. upto(i - 1) = SubSeq(rows, a, i - 1)
      BY <1>1, <2>3
    <3>3. SubSeq(rows, a, i) = Append(SubSeq(rows, a, i - 1), rows[i])
      BY <1>1, <2>3
    <3> QED
      BY <3>1, <3>2, <3>3
  <2> QED
    BY <1>1, <2>1, <2>2, <2>3
<1>3. upto(0) = << >>
  OBVIOUS
<1> HIDE DEF upto
<1>4. Upto(rows, kept, g)
  BY <1>1, <1>2, <1>3 DEF Upto
<1>5. Upto(rows, kept, f)
  BY <1>4
<1> HIDE DEF f
<1>6. \A i \in 0 .. Len(rows) : f[i] = upto(i)
  <2> DEFINE Wrong == {i \in 0 .. Len(rows) : f[i] # upto(i)}
  <2> SUFFICES ASSUME Wrong # {}
               PROVE  FALSE
    OBVIOUS
  <2>1. PICK i \in Wrong : \A j \in Wrong : i <= j
    <3>1. Wrong \in SUBSET Nat
      BY <1>1
    <3> QED
      BY <3>1, LeastNat
  <2>2. i # 0
    BY <1>3, <1>5, <2>1 DEF Upto
  <2>3. i - 1 \in 0 .. Len(rows) /\ i - 1 \notin Wrong /\ i \in 1 .. Len(rows)
    BY <1>1, <2>1, <2>2
  <2>4. f[i] = IF i \in kept THEN Append(f[i - 1], rows[i]) ELSE f[i - 1]
    BY <1>5, <2>2, <2>3 DEF Upto
  <2> QED
    BY <1>2, <2>1, <2>3, <2>4
<1>7. Rows(rows, kept) = f[Len(rows)]
  BY DEF Rows, f, Upto
<1>8. upto(Len(rows)) = SubSeq(rows, a, b)
  <2>1. CASE Len(rows) < a
    <3>1. b = Len(rows) /\ a = b + 1
      BY <1>1, <2>1
    <3>2. SubSeq(rows, a, b) = << >>
      BY <1>1, <3>1
    <3> QED
      BY <2>1, <3>2 DEF upto
  <2>2. CASE Len(rows) >= a
    BY <1>1, <2>2 DEF upto
  <2> QED
    BY <1>1, <2>1, <2>2
<1> QED
  BY <1>1, <1>6, <1>7, <1>8

LEMMA BeforeHourIs ==
    ASSUME NEW T, NEW rows \in Seq(T), NEW n \in Nat \ {0}, NEW d \in Nat, d * n <= Len(rows),
           \A i \in DOMAIN rows : rows[i].hour = Block(n, i)
    PROVE  BeforeHour(rows, d) = SubSeq(rows, 1, d * n)
<1> DEFINE kept == {i \in DOMAIN rows : rows[i].hour < d}
<1>1. d * n \in Nat /\ Len(rows) \in Nat /\ DOMAIN rows = 1 .. Len(rows)
  BY Multiples
<1>2. \A i \in 1 .. Len(rows) : i \in kept <=> 1 <= i /\ i <= d * n
  <2> TAKE i \in 1 .. Len(rows)
  <2>1. i \in Nat \ {0}
    BY <1>1
  <2>2. i <= d * n <=> Block(n, i) < d
    BY <2>1, Blocks
  <2> QED
    BY <1>1, <2>2
<1> HIDE DEF kept
<1>3. Rows(rows, kept) = SubSeq(rows, 1, d * n)
  <2> DEFINE b == d * n
  <2>1. b \in Nat /\ 1 <= b + 1 /\ b <= Len(rows) /\ 1 \in Nat \ {0}
    BY <1>1
  <2>2. \A i \in 1 .. Len(rows) : i \in kept <=> 1 <= i /\ i <= b
    BY <1>2
  <2> HIDE DEF b
  <2>3. Rows(rows, kept) = SubSeq(rows, 1, b)
    BY <2>1, <2>2, RowsInterval
  <2> QED
    BY <2>3 DEF b
<1> QED
  BY <1>3 DEF BeforeHour, kept

LEMMA OfHourIs ==
    ASSUME NEW T, NEW rows \in Seq(T), NEW n \in Nat \ {0}, NEW d \in Nat,
           \A i \in DOMAIN rows : rows[i].hour = Block(n, i)
    PROVE  /\ d * n + n <= Len(rows) => OfHour(rows, d) = SubSeq(rows, d * n + 1, d * n + n)
           /\ Len(rows) <= d * n => OfHour(rows, d) = << >>
<1> DEFINE kept == {i \in DOMAIN rows : rows[i].hour = d}
           a == d * n + 1
           b == d * n + n
<1>1. d * n \in Nat /\ Len(rows) \in Nat /\ DOMAIN rows = 1 .. Len(rows)
  BY Multiples
<1>2. \A i \in 1 .. Len(rows) : i \in kept <=> a <= i /\ i <= b
  <2> TAKE i \in 1 .. Len(rows)
  <2>1. i \in Nat \ {0}
    BY <1>1
  <2>2. i > d * n /\ i <= d * n + n <=> Block(n, i) = d
    BY <2>1, Blocks
  <2> QED
    BY <1>1, <2>2
<1>3. a \in Nat \ {0} /\ b \in Nat /\ a <= b + 1
  BY <1>1
<1>4. ASSUME Len(rows) <= d * n
      PROVE  \A i \in 1 .. Len(rows) : i \in kept <=> 1 <= i /\ i <= 0
  BY <1>1, <1>2, <1>4
<1>5. OfHour(rows, d) = Rows(rows, kept)
  BY DEF OfHour
<1> HIDE DEF kept, a, b
<1>6. b <= Len(rows) => Rows(rows, kept) = SubSeq(rows, a, b)
  BY <1>2, <1>3, RowsInterval
<1>7. ASSUME Len(rows) <= d * n
      PROVE  Rows(rows, kept) = << >>
  <2>1. 1 \in Nat \ {0} /\ 0 \in Nat /\ 1 <= 0 + 1 /\ 0 <= Len(rows)
    BY <1>1
  <2>2. Rows(rows, kept) = SubSeq(rows, 1, 0)
    BY <1>4, <1>7, <2>1, RowsInterval
  <2> QED
    BY <2>2
<1> QED
  BY <1>5, <1>6, <1>7 DEF a, b

LEMMA OneRow ==
    ASSUME NEW T, NEW rows \in Seq(T), NEW j \in 1 .. Len(rows), NEW kept,
           \A i \in 1 .. Len(rows) : i \in kept <=> i = j
    PROVE  Len(Rows(rows, kept)) = 1 /\ Rows(rows, kept)[1] = rows[j]
<1>1. \A i \in 1 .. Len(rows) : i \in kept <=> j <= i /\ i <= j
  OBVIOUS
<1>2. j \in Nat \ {0} /\ j \in Nat /\ j <= j + 1 /\ j <= Len(rows)
  OBVIOUS
<1>3. Rows(rows, kept) = SubSeq(rows, j, j)
  BY <1>1, <1>2, RowsInterval
<1> QED
  BY <1>2, <1>3

LEMMA AllRows ==
    ASSUME NEW T, NEW rows \in Seq(T), NEW kept, \A i \in DOMAIN rows : i \in kept
    PROVE  Rows(rows, kept) = rows
<1>1. Len(rows) \in Nat /\ DOMAIN rows = 1 .. Len(rows)
  OBVIOUS
<1>2. \A i \in 1 .. Len(rows) : i \in kept <=> 1 <= i /\ i <= Len(rows)
  BY <1>1
<1>3. 1 \in Nat \ {0} /\ 1 <= Len(rows) + 1 /\ Len(rows) <= Len(rows)
  BY <1>1
<1>4. Rows(rows, kept) = SubSeq(rows, 1, Len(rows))
  BY <1>1, <1>2, <1>3, RowsInterval
<1> QED
  BY <1>1, <1>4

-----------------------------------------------------------------------------
(* What a sequence of updates makes of the programs. *)

LEMMA ZoneCount ==
    /\ Z \in Nat \ {0} /\ DOMAIN ZoneSeq = 1 .. Z
    /\ \A k \in 1 .. Z : ZoneSeq[k] \in Zones
    /\ \A z \in Zones : \E k \in 1 .. Z : z = ZoneSeq[k]
    /\ \A j, k \in 1 .. Z : ZoneSeq[j] = ZoneSeq[k] => j = k
    /\ CallsPerHour = Z + 2 /\ CallsPerHour \in Nat \ {0}
    /\ StepsPerHour \in Nat \ {0} /\ Hours \in Nat \ {0}
    /\ "orchestrator" \notin Zones /\ "reflector" \notin Zones
<1>1. /\ ZoneSeq \in Seq(Zones) /\ ZoneSeq # << >> /\ IsInjective(ZoneSeq)
      /\ {"orchestrator", "reflector"} \cap Zones = {}
      /\ StepsPerHour \in Nat \ {0} /\ Hours \in Nat \ {0}
  BY HourlyAssumption DEF Zones
<1>2. Z \in Nat \ {0} /\ DOMAIN ZoneSeq = 1 .. Z
  BY <1>1 DEF Z
<1>3. Zones = {ZoneSeq[k] : k \in DOMAIN ZoneSeq}
  BY DEF Zones, Range
<1>4. \A j, k \in 1 .. Z : ZoneSeq[j] = ZoneSeq[k] => j = k
  BY <1>1, <1>2 DEF IsInjective
<1>5. CallsPerHour = Z + 2 /\ CallsPerHour \in Nat \ {0}
  BY <1>2 DEF CallsPerHour, Z
<1> QED
  BY <1>1, <1>2, <1>3, <1>4, <1>5

LEMMA SamePlace ==
    ASSUME NEW n \in Nat \ {0}, NEW i \in Nat \ {0}, NEW j \in Nat \ {0},
           Place(n, i) = Place(n, j), i < j
    PROVE  i + n <= j
<1> DEFINE p == Block(n, i)
           q == Block(n, j)
<1>1. /\ p \in Nat /\ q \in Nat /\ Place(n, i) \in 1 .. n
      /\ i = p * n + Place(n, i) /\ j = q * n + Place(n, j)
  BY Divided
<1> HIDE DEF p, q
<1>2. p * n \in Nat /\ q * n \in Nat
  BY <1>1, Multiples
<1>3. q <= p => q * n <= p * n
  BY <1>1, Multiples
<1>4. p < q
  BY <1>1, <1>2, <1>3
<1>5. p * n + n <= q * n
  BY <1>1, <1>4, Multiples
<1> QED
  BY <1>1, <1>2, <1>5

LEMMA NextPlace ==
    ASSUME NEW n \in Nat \ {0}, NEW i \in Nat \ {0}
    PROVE  Place(n, i + n) = Place(n, i) /\ Block(n, i + n) = Block(n, i) + 1
<1> DEFINE q == Block(n, i)
           k == Place(n, i)
<1>1. q \in Nat /\ k \in 1 .. n /\ i = q * n + k
  BY Divided
<1> HIDE DEF q, k
<1>2. (q + 1) * n = q * n + n /\ q * n \in Nat
  BY <1>1, Multiples
<1>3. i + n = (q + 1) * n + k
  BY <1>1, <1>2
<1>4. q + 1 \in Nat
  BY <1>1
<1>5. Block(n, (q + 1) * n + k) = q + 1 /\ Place(n, (q + 1) * n + k) = k
  BY ZenonT(40), <1>1, <1>4, Positions
<1> QED
  BY <1>3, <1>5 DEF q, k

Zoned(us) == \A i \in DOMAIN us : us[i].zone = ZoneSeq[Place(Z, i)]

LEMMA AfterUpdate ==
    ASSUME NEW us \in Seq(UpdateRows), Zoned(us), NEW v, NEW m \in 1 .. Len(us),
           NEW n \in m .. Len(us), n < m + Z
    PROVE  After(v, us, n)[us[m].zone] = us[m].after
<1> DEFINE own == {i \in 1 .. n : us[i].zone = us[m].zone}
<1>1. /\ Len(us) \in Nat /\ m \in Nat \ {0} /\ n \in Nat \ {0} /\ DOMAIN us = 1 .. Len(us)
      /\ Z \in Nat \ {0} /\ us[m].zone \in Zones
  <2>1. Len(us) \in Nat /\ DOMAIN us = 1 .. Len(us) /\ us[m] \in UpdateRows
    OBVIOUS
  <2>2. us[m].zone \in Zones
    BY <2>1 DEF UpdateRows
  <2>3. Z \in Nat \ {0}
    BY ZoneCount
  <2> QED
    BY <2>1, <2>2, <2>3
<1>2. m \in own
  BY <1>1
<1>3. \A i \in own : i <= m
  <2> SUFFICES ASSUME NEW i \in own, m < i
               PROVE  FALSE
    BY <1>1
  <2>1. i \in Nat \ {0} /\ i \in DOMAIN us /\ us[i].zone = us[m].zone /\ i <= n
    BY <1>1
  <2>2. ZoneSeq[Place(Z, i)] = ZoneSeq[Place(Z, m)]
    BY <1>1, <2>1 DEF Zoned
  <2>3. Place(Z, i) \in 1 .. Z /\ Place(Z, m) \in 1 .. Z
    BY <1>1, <2>1, Divided
  <2>4. Place(Z, i) = Place(Z, m)
    BY <2>2, <2>3, ZoneCount
  <2>5. m + Z <= i
    BY <1>1, <2>1, <2>4, SamePlace
  <2> QED
    BY <1>1, <2>1, <2>5
<1>4. own \subseteq Int
  BY <1>1
<1> HIDE DEF own
<1>5. Max(own) = m
  <2>1. \A i \in own : (\A j \in own : i >= j) => i = m
    BY <1>2, <1>3, <1>4
  <2>2. \A j \in own : m >= j
    BY <1>2, <1>3, <1>4
  <2>3. Max(own) \in own /\ \A j \in own : Max(own) >= j
    BY <1>2, <2>2 DEF Max
  <2> QED
    BY <2>1, <2>3
<1>6. After(v, us, n)[us[m].zone] = IF own = {} THEN v[us[m].zone] ELSE us[Max(own)].after
  BY <1>1 DEF After, own
<1> QED
  BY <1>2, <1>5, <1>6

LEMMA AfterNone ==
    ASSUME NEW us \in Seq(UpdateRows), Zoned(us), NEW v, NEW k \in 1 .. Z,
           NEW n \in 0 .. k - 1, n <= Len(us)
    PROVE  After(v, us, n)[ZoneSeq[k]] = v[ZoneSeq[k]]
<1> DEFINE own == {i \in 1 .. n : us[i].zone = ZoneSeq[k]}
<1>1. /\ Len(us) \in Nat /\ n \in Nat /\ k \in Nat \ {0} /\ DOMAIN us = 1 .. Len(us)
      /\ Z \in Nat \ {0} /\ ZoneSeq[k] \in Zones
  BY ZoneCount
<1>2. own = {}
  <2> SUFFICES ASSUME NEW i \in own
               PROVE  FALSE
    OBVIOUS
  <2>1. i \in Nat \ {0} /\ i \in DOMAIN us /\ us[i].zone = ZoneSeq[k] /\ i < k
    BY <1>1
  <2>2. i = 0 * Z + i /\ i \in 1 .. Z /\ 0 \in Nat
    BY <1>1, <2>1
  <2>3. Place(Z, i) = i
    BY <1>1, <2>2, Positions
  <2>4. ZoneSeq[i] = ZoneSeq[k]
    BY <2>1, <2>3 DEF Zoned
  <2>5. i = k
    BY <2>2, <2>4, ZoneCount
  <2> QED
    BY <1>1, <2>1, <2>5
<1>3. After(v, us, n)[ZoneSeq[k]] = IF own = {} THEN v[ZoneSeq[k]] ELSE us[Max(own)].after
  BY <1>1 DEF After
<1> QED
  BY <1>2, <1>3

LEMMA EndsAtLast ==
    ASSUME NEW us \in Seq(UpdateRows), NEW d \in Nat, NEW versions \in Programs,
           Len(us) = d * Z, Zoned(us),
           \A i \in DOMAIN us : us[i].before = IF i <= Z THEN 0 ELSE us[i - Z].after,
           d = 0 => versions = Unchanged,
           \A k \in 1 .. Z : d # 0 => us[(d - 1) * Z + k].after = versions[ZoneSeq[k]]
    PROVE  EndsAt(us, versions)
<1>1. /\ Len(us) \in Nat /\ DOMAIN us = 1 .. Len(us) /\ Z \in Nat \ {0}
      /\ \A i \in DOMAIN us : us[i].zone \in Zones
  <2>1. \A i \in DOMAIN us : us[i] \in UpdateRows
    OBVIOUS
  <2> QED
    BY <2>1, ZoneCount DEF UpdateRows
<1>2. ASSUME NEW i \in DOMAIN us
      PROVE  us[i].before = After(Unchanged, us, i - 1)[us[i].zone]
  <2>1. i \in Nat \ {0} /\ i <= Len(us) /\ i - 1 \in Nat
    BY <1>1
  <2>2. us[i].zone = ZoneSeq[Place(Z, i)] /\ Place(Z, i) \in 1 .. Z
    BY <1>1, <2>1, Divided DEF Zoned
  <2>3. CASE i <= Z
    <3>1. i = 0 * Z + i /\ i \in 1 .. Z /\ 0 \in Nat
      BY <1>1, <2>1, <2>3
    <3>2. Place(Z, i) = i
      BY <1>1, <3>1, Positions
    <3>3. i - 1 \in 0 .. i - 1 /\ i - 1 <= Len(us)
      BY <1>1, <2>1
    <3>4. After(Unchanged, us, i - 1)[ZoneSeq[i]] = Unchanged[ZoneSeq[i]]
      BY ZenonT(40), <3>1, <3>3, AfterNone
    <3>5. Unchanged[ZoneSeq[i]] = 0
      BY <3>1, ZoneCount DEF Unchanged
    <3> QED
      BY <2>2, <2>3, <3>2, <3>4, <3>5
  <2>4. CASE Z < i
    <3> DEFINE m == i - Z
    <3>1. m \in 1 .. Len(us) /\ i - 1 \in m .. Len(us) /\ i - 1 < m + Z /\ m + Z = i
      BY <1>1, <2>1, <2>4
    <3>2. m \in Nat \ {0} /\ m \in DOMAIN us
      BY <1>1, <3>1
    <3> HIDE DEF m
    <3>3. Place(Z, m + Z) = Place(Z, m)
      BY <1>1, <3>2, NextPlace
    <3>4. us[m].zone = us[i].zone
      BY <2>2, <3>1, <3>2, <3>3 DEF Zoned
    <3>5. After(Unchanged, us, i - 1)[us[m].zone] = us[m].after
      BY <3>1, AfterUpdate
    <3>6. us[i].before = us[m].after
      BY <1>1, <2>1, <2>4 DEF m
    <3> QED
      BY <3>4, <3>5, <3>6
  <2> QED
    BY <1>1, <2>1, <2>3, <2>4
<1>3. ASSUME NEW z \in Zones
      PROVE  After(Unchanged, us, Len(us))[z] = versions[z]
  <2>1. PICK k \in 1 .. Z : z = ZoneSeq[k]
    BY ZoneCount
  <2>2. CASE d = 0
    <3>1. Len(us) = 0
      <4>1. 0 * Z = 0
        BY <1>1
      <4> QED
        BY <2>2, <4>1
    <3>2. 0 \in 0 .. k - 1
      BY <1>1, <2>1
    <3>3. After(Unchanged, us, Len(us))[ZoneSeq[k]] = Unchanged[ZoneSeq[k]]
      <4> DEFINE n == Len(us)
      <4>1. n \in 0 .. k - 1 /\ n <= Len(us) /\ k \in 1 .. Z
        <5>1. n = 0 /\ n <= Len(us)
          BY <3>1
        <5> QED
          BY <2>1, <3>2, <5>1
      <4> HIDE DEF n
      <4>2. After(Unchanged, us, n)[ZoneSeq[k]] = Unchanged[ZoneSeq[k]]
        BY <4>1, AfterNone
      <4> QED
        BY <4>2 DEF n
    <3> QED
      BY <2>1, <2>2, <3>3
  <2>3. CASE d # 0
    <3> DEFINE m == (d - 1) * Z + k
    <3>1. d - 1 \in Nat /\ (d - 1) * Z \in Nat /\ d * Z = (d - 1) * Z + Z
      <4>1. d - 1 \in Nat
        BY <2>3
      <4>2. (d - 1) * Z \in Nat /\ (d - 1 + 1) * Z = (d - 1) * Z + Z
        BY <1>1, <4>1, Multiples
      <4> QED
        BY <4>1, <4>2
    <3>2. m \in 1 .. Len(us) /\ Len(us) \in m .. Len(us) /\ Len(us) < m + Z
      BY <1>1, <3>1
    <3>3. Place(Z, m) = k
      BY <1>1, <3>1, Positions
    <3>4. us[m].after = versions[ZoneSeq[k]]
      BY <2>3
    <3> HIDE DEF m
    <3>5. us[m].zone = z
      BY <1>1, <2>1, <3>2, <3>3 DEF Zoned
    <3>6. After(Unchanged, us, Len(us))[us[m].zone] = us[m].after
      BY <3>2, AfterUpdate
    <3> QED
      BY <2>1, <3>4, <3>5, <3>6
  <2> QED
    BY <2>2, <2>3
<1>4. After(Unchanged, us, Len(us)) = versions
  <2>1. After(Unchanged, us, Len(us)) = [z \in Zones |-> After(Unchanged, us, Len(us))[z]]
    BY DEF After
  <2>2. versions = [z \in Zones |-> versions[z]]
    BY DEF Programs
  <2> QED
    BY <1>3, <2>1, <2>2
<1> QED
  BY <1>2, <1>4 DEF EndsAt

-----------------------------------------------------------------------------
(* Rows appended to the streams of a directory. *)

LEMMA Appended ==
    ASSUME NEW T, NEW rows \in Seq(T), NEW more \in Seq(T)
    PROVE  /\ rows \o more \in Seq(T) /\ Len(rows \o more) = Len(rows) + Len(more)
           /\ Len(rows) \in Nat /\ Len(more) \in Nat
           /\ DOMAIN rows = 1 .. Len(rows) /\ DOMAIN (rows \o more) = 1 .. Len(rows) + Len(more)
           /\ \A i \in DOMAIN rows : (rows \o more)[i] = rows[i]
           /\ \A k \in 1 .. Len(more) : (rows \o more)[Len(rows) + k] = more[k]
           /\ \A i \in DOMAIN (rows \o more) :
                 i \in DOMAIN rows \/ \E k \in 1 .. Len(more) : i = Len(rows) + k
<1>1. Len(rows) \in Nat /\ Len(more) \in Nat /\ DOMAIN rows = 1 .. Len(rows)
  OBVIOUS
<1>2. /\ rows \o more \in Seq(T) /\ Len(rows \o more) = Len(rows) + Len(more)
      /\ DOMAIN (rows \o more) = 1 .. Len(rows) + Len(more)
  OBVIOUS
<1>3. \A i \in DOMAIN rows : (rows \o more)[i] = rows[i]
  OBVIOUS
<1>4. \A k \in 1 .. Len(more) : (rows \o more)[Len(rows) + k] = more[k]
  OBVIOUS
<1>5. ASSUME NEW i \in 1 .. Len(rows) + Len(more), i \notin 1 .. Len(rows)
      PROVE  \E k \in 1 .. Len(more) : i = Len(rows) + k
  <2>1. i - Len(rows) \in 1 .. Len(more) /\ i = Len(rows) + (i - Len(rows))
    BY <1>1, <1>5
  <2> QED
    BY <2>1
<1> QED
  BY <1>1, <1>2, <1>3, <1>4, <1>5

LEMMA Joined ==
    ASSUME NEW T, NEW rows \in Seq(T), NEW more \in Seq(T), NEW s, s = rows \o more
    PROVE  s \in Seq(T) /\ Len(s) = Len(rows) + Len(more)
  BY Appended

LEMMA JoinedFirst ==
    ASSUME NEW T, NEW rows \in Seq(T), NEW more \in Seq(T), NEW s, s = rows \o more,
           NEW i \in 1 .. Len(rows)
    PROVE  s[i] = rows[i]
  BY Appended

LEMMA JoinedNext ==
    ASSUME NEW T, NEW rows \in Seq(T), NEW more \in Seq(T), NEW s, s = rows \o more,
           NEW k \in 1 .. Len(more)
    PROVE  s[Len(rows) + k] = more[k]
  BY Appended

LEMMA JoinedRow ==
    ASSUME NEW T, NEW rows \in Seq(T), NEW more \in Seq(T), NEW s, s = rows \o more,
           NEW i \in DOMAIN s
    PROVE  i \in 1 .. Len(rows) \/ \E k \in 1 .. Len(more) : i = Len(rows) + k
  BY Appended

\* s holds the rows, and more after them.
IsJoin(s, rows, more) ==
    /\ Len(s) = Len(rows) + Len(more) /\ DOMAIN rows = 1 .. Len(rows)
    /\ \A i \in DOMAIN rows : s[i] = rows[i]
    /\ \A k \in 1 .. Len(more) : s[Len(rows) + k] = more[k]
    /\ \A i \in DOMAIN s : i \in DOMAIN rows \/ \E k \in 1 .. Len(more) : i = Len(rows) + k

LEMMA JoinedWhole ==
    ASSUME NEW T, NEW rows \in Seq(T), NEW more \in Seq(T), NEW s, s = rows \o more
    PROVE  IsJoin(s, rows, more)
  BY Appended DEF IsJoin

LEMMA Taken ==
    ASSUME NEW T, NEW rows \in Seq(T), NEW x \in Nat, NEW m \in Nat, x + m <= Len(rows),
           NEW s, s = SubSeq(rows, x + 1, x + m)
    PROVE  s \in Seq(T) /\ Len(s) = m /\ \A k \in 1 .. m : s[k] = rows[x + k]
<1>1. s \in Seq(T)
  OBVIOUS
<1>2. Len(s) = m
  OBVIOUS
<1>3. ASSUME NEW k \in 1 .. m
      PROVE  s[k] = rows[x + k]
  <2>1. s[k] = rows[x + 1 + k - 1]
    OBVIOUS
  <2>2. x + 1 + k - 1 = x + k
    OBVIOUS
  <2> QED
    BY <2>1, <2>2
<1> QED
  BY <1>1, <1>2, <1>3

LEMMA CopiedMore ==
    ASSUME NEW T, NEW rows \in Seq(T), NEW more \in Seq(T), NEW from, NEW m \in Nat,
           Copied(rows, from, m),
           \A k \in 1 .. Len(more) : Len(rows) + k <= m => more[k] = from[Len(rows) + k]
    PROVE  Copied(rows \o more, from, m)
<1>1. \A i \in DOMAIN rows : (rows \o more)[i] = rows[i]
  BY Appended
<1>2. \A k \in 1 .. Len(more) : (rows \o more)[Len(rows) + k] = more[k]
  BY Appended
<1>3. \A i \in DOMAIN (rows \o more) :
         i \in DOMAIN rows \/ \E k \in 1 .. Len(more) : i = Len(rows) + k
  BY Appended
<1> QED
  BY <1>1, <1>2, <1>3 DEF Copied

LEMMA OwnedMore ==
    ASSUME NEW calls \in Seq(CallRows), NEW more \in Seq(CallRows), NEW from, NEW m \in Nat,
           NEW r, CallsOwned(calls, r, from, m), m <= Len(calls),
           \A k \in 1 .. Len(more) : more[k].by = r
    PROVE  CallsOwned(calls \o more, r, from, m)
<1>1. /\ \A i \in DOMAIN calls : (calls \o more)[i] = calls[i]
      /\ \A k \in 1 .. Len(more) : (calls \o more)[Len(calls) + k] = more[k]
      /\ \A i \in DOMAIN (calls \o more) :
            i \in DOMAIN calls \/ \E k \in 1 .. Len(more) : i = Len(calls) + k
      /\ Len(calls) \in Nat /\ Len(more) \in Nat
  BY Appended
<1>2. \A k \in 1 .. Len(more) : ~(Len(calls) + k <= m)
  BY <1>1
<1> QED
  BY <1>1, <1>2 DEF CallsOwned

LEMMA CallerIs ==
    /\ Caller(1) = "orchestrator" /\ Caller(CallsPerHour) = "reflector"
    /\ \A k \in 1 .. Z : Caller(1 + k) = ZoneSeq[k]
    /\ \A k \in 1 .. CallsPerHour : Caller(k) \in Callers
    /\ \A k \in 1 .. CallsPerHour : Caller(k) = "orchestrator" <=> k = 1
    /\ \A k \in 1 .. CallsPerHour : Caller(k) = "reflector" <=> k = CallsPerHour
    /\ \A k \in 1 .. CallsPerHour : Caller(k) \in Zones <=> k \in 2 .. Z + 1
<1>1. /\ Z \in Nat \ {0} /\ CallsPerHour = Z + 2
      /\ \A k \in 1 .. Z : ZoneSeq[k] \in Zones
      /\ "orchestrator" \notin Zones /\ "reflector" \notin Zones
  BY ZoneCount
<1>2. \A k \in 2 .. Z + 1 : Caller(k) = ZoneSeq[k - 1] /\ k - 1 \in 1 .. Z
  BY <1>1 DEF Caller
<1>3. Caller(1) = "orchestrator" /\ Caller(CallsPerHour) = "reflector"
  BY <1>1 DEF Caller
<1>4. \A k \in 1 .. CallsPerHour : k = 1 \/ k = CallsPerHour \/ k \in 2 .. Z + 1
  BY <1>1
<1>5. \A k \in 2 .. Z + 1 : Caller(k) \in Zones /\ k # 1 /\ k # CallsPerHour
  BY <1>1, <1>2
<1>6. \A k \in 1 .. Z : Caller(1 + k) = ZoneSeq[k]
  <2> TAKE k \in 1 .. Z
  <2>1. 1 + k \in 2 .. Z + 1 /\ 1 + k - 1 = k
    BY <1>1
  <2> QED
    BY <1>2, <2>1
<1>7. 1 # CallsPerHour /\ 1 \notin 2 .. Z + 1 /\ CallsPerHour \notin 2 .. Z + 1
  BY <1>1
<1> QED
  BY <1>1, <1>3, <1>4, <1>5, <1>6, <1>7 DEF Callers

LEMMA OrdinalIs ==
    ASSUME NEW h \in Nat
    PROVE  /\ Ordinal(h, "orchestrator") = h * CallsPerHour
           /\ Ordinal(h, "reflector") = h * CallsPerHour + (CallsPerHour - 1)
           /\ \A k \in 1 .. Z : Ordinal(h, ZoneSeq[k]) = h * CallsPerHour + k
<1>1. /\ Z \in Nat \ {0} /\ CallsPerHour = Z + 2 /\ DOMAIN ZoneSeq = 1 .. Z
      /\ \A k \in 1 .. Z : ZoneSeq[k] \in Zones
      /\ \A j, k \in 1 .. Z : ZoneSeq[j] = ZoneSeq[k] => j = k
      /\ "orchestrator" \notin Zones /\ "reflector" \notin Zones
  BY ZoneCount
<1>2. h * CallsPerHour \in Nat
  BY <1>1, Multiples
<1>3. Ordinal(h, "orchestrator") = h * CallsPerHour
  BY <1>2 DEF Ordinal
<1>4. Ordinal(h, "reflector") = h * CallsPerHour + (CallsPerHour - 1)
  BY DEF Ordinal
<1>5. ASSUME NEW k \in 1 .. Z
      PROVE  Ordinal(h, ZoneSeq[k]) = h * CallsPerHour + k
  <2>1. ZoneSeq[k] # "orchestrator" /\ ZoneSeq[k] # "reflector"
    BY <1>1
  <2>2. (CHOOSE i \in DOMAIN ZoneSeq : ZoneSeq[i] = ZoneSeq[k]) = k
    BY <1>1
  <2> QED
    BY <2>1, <2>2 DEF Ordinal
<1> QED
  BY <1>3, <1>4, <1>5

LEMMA CallIs ==
    ASSUME NEW h \in Nat, NEW who \in Callers, NEW a \in Answers, proc.run \in Nat
    PROVE  LET call == Call(h, who, a.tries, a.ok, a.good)
           IN  /\ call.hour = h /\ call.ord = Ordinal(h, who) /\ call.who = who
               /\ call.ok = a.ok /\ call.good = a.good /\ call.by = proc.run
               /\ Ordinal(h, who) \in Nat => call \in CallRows
  BY DEF Call, Answers, CallRows

LEMMA CallAt ==
    ASSUME NEW h \in Nat, NEW a \in Answers, proc.run \in Nat
    PROVE  /\ LET call == Call(h, "orchestrator", a.tries, a.ok, a.good)
              IN  CallPlaced(call, h * CallsPerHour + 1) /\ call \in CallRows
           /\ LET call == Call(h, "reflector", a.tries, a.ok, a.good)
              IN  CallPlaced(call, h * CallsPerHour + CallsPerHour) /\ call \in CallRows
           /\ \A k \in 1 .. Z :
                 LET call == Call(h, ZoneSeq[k], a.tries, a.ok, a.good)
                 IN  CallPlaced(call, h * CallsPerHour + (1 + k)) /\ call \in CallRows
<1>1. /\ Z \in Nat \ {0} /\ CallsPerHour = Z + 2 /\ CallsPerHour \in Nat \ {0}
      /\ \A k \in 1 .. Z : ZoneSeq[k] \in Zones
  BY ZoneCount
<1>2. h * CallsPerHour \in Nat
  BY <1>1, Multiples
<1>3. ASSUME NEW who \in Callers, NEW k \in 1 .. CallsPerHour, Caller(k) = who,
             Ordinal(h, who) = h * CallsPerHour + k - 1
      PROVE  LET call == Call(h, who, a.tries, a.ok, a.good)
             IN  CallPlaced(call, h * CallsPerHour + k) /\ call \in CallRows
  <2> DEFINE call == Call(h, who, a.tries, a.ok, a.good)
             i == h * CallsPerHour + k
  <2>1. CallsPerHour \in Nat \ {0}
    BY <1>1
  <2>2. Block(CallsPerHour, i) = h /\ Place(CallsPerHour, i) = k
    BY <2>1, Positions
  <2>3. Ordinal(h, who) \in Nat /\ Ordinal(h, who) = i - 1
    BY <1>2, <1>3, <2>1
  <2>4. call.hour = h /\ call.ord = Ordinal(h, who) /\ call.who = who /\ call \in CallRows
    BY <2>3, CallIs
  <2> HIDE DEF call, i
  <2>5. CallPlaced(call, i) /\ call \in CallRows
    BY <1>3, <2>2, <2>3, <2>4 DEF CallPlaced
  <2> QED
    BY <2>5 DEF call, i
<1>4. LET call == Call(h, "orchestrator", a.tries, a.ok, a.good)
      IN  CallPlaced(call, h * CallsPerHour + 1) /\ call \in CallRows
  <2>1. "orchestrator" \in Callers /\ 1 \in 1 .. CallsPerHour /\ Caller(1) = "orchestrator"
    BY <1>1, CallerIs DEF Callers
  <2>2. Ordinal(h, "orchestrator") = h * CallsPerHour + 1 - 1
    BY <1>2, OrdinalIs
  <2> QED
    BY <1>3, <2>1, <2>2
<1>5. LET call == Call(h, "reflector", a.tries, a.ok, a.good)
      IN  CallPlaced(call, h * CallsPerHour + CallsPerHour) /\ call \in CallRows
  <2>1. "reflector" \in Callers /\ CallsPerHour \in 1 .. CallsPerHour
        /\ Caller(CallsPerHour) = "reflector"
    BY <1>1, CallerIs DEF Callers
  <2>2. Ordinal(h, "reflector") = h * CallsPerHour + CallsPerHour - 1
    BY <1>1, <1>2, OrdinalIs
  <2> QED
    BY <1>3, <2>1, <2>2
<1>6. ASSUME NEW k \in 1 .. Z
      PROVE  LET call == Call(h, ZoneSeq[k], a.tries, a.ok, a.good)
             IN  CallPlaced(call, h * CallsPerHour + (1 + k)) /\ call \in CallRows
  <2>1. ZoneSeq[k] \in Callers /\ 1 + k \in 1 .. CallsPerHour /\ Caller(1 + k) = ZoneSeq[k]
    BY <1>1, CallerIs DEF Callers
  <2>2. Ordinal(h, ZoneSeq[k]) = h * CallsPerHour + (1 + k) - 1
    BY <1>1, <1>2, OrdinalIs
  <2> QED
    BY <1>3, <2>1, <2>2
<1> QED
  BY <1>4, <1>5, <1>6

-----------------------------------------------------------------------------
(* What appending rows does to the shape of a directory. *)

LEMMA Streams ==
    ASSUME NEW run \in Directories
    PROVE  /\ run.calls \in Seq(CallRows) /\ run.updates \in Seq(UpdateRows)
           /\ run.steps \in Seq(StepRows) /\ run.caol \in Seq(MemoryRows)
           /\ run.decisions \in Seq(DecisionRows)
           /\ Len(run.calls) \in Nat /\ Len(run.updates) \in Nat /\ Len(run.steps) \in Nat
           /\ Len(run.caol) \in Nat /\ Len(run.decisions) \in Nat
           /\ DOMAIN run.calls = 1 .. Len(run.calls)
           /\ DOMAIN run.updates = 1 .. Len(run.updates)
           /\ DOMAIN run.steps = 1 .. Len(run.steps)
           /\ DOMAIN run.caol = 1 .. Len(run.caol)
           /\ DOMAIN run.decisions = 1 .. Len(run.decisions)
           /\ run.src \in Nat /\ run.cut \in Nat /\ run.end \in Ends /\ run.scanned \in BOOLEAN
<1>1. /\ run.calls \in Seq(CallRows) /\ run.updates \in Seq(UpdateRows)
      /\ run.steps \in Seq(StepRows) /\ run.caol \in Seq(MemoryRows)
      /\ run.decisions \in Seq(DecisionRows)
      /\ run.src \in Nat /\ run.cut \in Nat /\ run.end \in Ends /\ run.scanned \in BOOLEAN
  BY DEF Directories
<1> QED
  BY <1>1

\* Nothing appended: what else is recorded does not matter to the shape.
LEMMA SameStreams ==
    ASSUME NEW run, NEW new, NEW r, Shape(run, r),
           new.calls = run.calls, new.updates = run.updates, new.steps = run.steps,
           new.caol = run.caol, new.decisions = run.decisions, new.ckpt = run.ckpt,
           new.retries = run.retries \/ new.retries = RetriesOf(run.calls)
    PROVE  /\ Shape(new, r)
           /\ \A source, n : PrefixShape(run, r, source, n) => PrefixShape(new, r, source, n)
<1>1. DecisionsShape(new)
  BY DEF Shape, DecisionsShape
<1>2. StepsShape(new, r)
  BY DEF Shape, StepsShape
<1>3. UpdatesShape(new)
  BY DEF Shape, UpdatesShape
<1>4. MemoryShape(new)
  BY DEF Shape, MemoryShape
<1>5. CallsShape(new)
  BY DEF Shape, CallsShape
<1>6. AllocationsShape(new)
  BY DEF Shape, AllocationsShape
<1>7. CheckpointShape(new, r)
  BY DEF Shape, CheckpointShape
<1>8. FailedShape(new)
  <2>1. new.retries = run.retries \/ new.retries = RetriesOf(new.calls)
    OBVIOUS
  <2>2. FailedShape(run)
    BY DEF Shape
  <2> QED
    BY <2>1, <2>2 DEF FailedShape
<1>9. \A source, n : PrefixShape(run, r, source, n) => PrefixShape(new, r, source, n)
  BY DEF PrefixShape
<1> QED
  BY <1>1, <1>2, <1>3, <1>4, <1>5, <1>6, <1>7, <1>8, <1>9 DEF Shape

LEMMA CallsAdded ==
    ASSUME NEW run \in Directories, NEW new \in Directories, NEW more \in Seq(CallRows),
           CallsShape(run), AllocationsShape(run), MemoryShape(run),
           new.calls = run.calls \o more, new.decisions = run.decisions, new.caol = run.caol,
           \A k \in 1 .. Len(more) : CallPlaced(more[k], Len(run.calls) + k)
    PROVE  CallsShape(new) /\ AllocationsShape(new) /\ MemoryShape(new)
<1> DEFINE d == Len(run.decisions)
<1>1. /\ d \in Nat /\ DOMAIN run.decisions = 1 .. d /\ Len(new.decisions) = d
      /\ DOMAIN run.caol = 1 .. Len(run.caol) /\ Len(run.caol) \in Nat
  BY Streams
<1>2. /\ \A i \in DOMAIN run.calls : new.calls[i] = run.calls[i]
      /\ \A k \in 1 .. Len(more) : new.calls[Len(run.calls) + k] = more[k]
      /\ \A i \in DOMAIN new.calls :
            i \in DOMAIN run.calls \/ \E k \in 1 .. Len(more) : i = Len(run.calls) + k
      /\ Len(run.calls) \in Nat /\ Len(more) \in Nat
      /\ Len(new.calls) = Len(run.calls) + Len(more) /\ DOMAIN run.calls = 1 .. Len(run.calls)
  <2>1. run.calls \in Seq(CallRows)
    BY Streams
  <2> QED
    BY <2>1, Appended
<1>3. CallsPerHour \in Nat \ {0} /\ d * CallsPerHour \in Nat /\ d * CallsPerHour <= Len(run.calls)
  <2>1. CallsPerHour \in Nat \ {0} /\ d \in Int /\ d >= 0
    BY <1>1, ZoneCount
  <2>2. d * CallsPerHour \in Nat
    BY <2>1, Multiples
  <2>3. d * CallsPerHour <= Len(run.calls)
    BY DEF CallsShape
  <2> QED
    BY <2>1, <2>2, <2>3
<1>4. \A i \in 1 .. d * CallsPerHour : i \in DOMAIN run.calls /\ new.calls[i] = run.calls[i]
  BY <1>2, <1>3
<1>5. CallsShape(new)
  <2>1. d * CallsPerHour <= Len(new.calls)
    BY <1>2, <1>3
  <2>2. ASSUME NEW i \in DOMAIN new.calls
        PROVE  /\ CallPlaced(new.calls[i], i)
               /\ i <= d * CallsPerHour => new.calls[i].ok
    <3>1. CASE i \in DOMAIN run.calls
      BY <1>2, <3>1 DEF CallsShape
    <3>2. ASSUME NEW k \in 1 .. Len(more), i = Len(run.calls) + k
          PROVE  CallPlaced(new.calls[i], i) /\ ~(i <= d * CallsPerHour)
      BY <1>2, <1>3, <3>2
    <3> QED
      BY <1>2, <3>1, <3>2
  <2> QED
    BY <2>1, <2>2 DEF CallsShape
<1> HIDE DEF d
<1>6. AllocationsShape(new)
  <2>1. ASSUME NEW h \in DOMAIN run.decisions
        PROVE  run.calls[(h - 1) * CallsPerHour + 1] = new.calls[(h - 1) * CallsPerHour + 1]
    <3>1. h - 1 \in Nat /\ h - 1 < d
      BY <1>1
    <3>2. /\ (h - 1) * CallsPerHour \in Nat
          /\ (h - 1) * CallsPerHour + CallsPerHour <= d * CallsPerHour
      BY SMTT(30), <1>1, <1>3, <3>1, Multiples
    <3>3. (h - 1) * CallsPerHour + 1 \in 1 .. d * CallsPerHour
      BY <1>3, <3>2
    <3> QED
      BY <1>4, <3>3
  <2> SUFFICES ASSUME NEW h \in DOMAIN new.decisions
               PROVE  LET call == new.calls[(h - 1) * CallsPerHour + 1]
                      IN  /\ new.decisions[h].fallback = ~call.good
                          /\ new.decisions[h].alloc =
                                Allocated(call, h, IF h = 1 THEN Split
                                                   ELSE new.decisions[h - 1].alloc)
    BY DEF AllocationsShape
  <2>2. h \in DOMAIN run.decisions
    OBVIOUS
  <2>3. LET call == run.calls[(h - 1) * CallsPerHour + 1]
        IN  /\ run.decisions[h].fallback = ~call.good
            /\ run.decisions[h].alloc =
                  Allocated(call, h, IF h = 1 THEN Split ELSE run.decisions[h - 1].alloc)
    BY <2>2 DEF AllocationsShape
  <2> QED
    BY <2>1, <2>2, <2>3
<1>7. MemoryShape(new)
  <2> SUFFICES ASSUME NEW i \in DOMAIN run.caol
               PROVE  run.calls[(Block(Z, i) + 1) * CallsPerHour]
                        = new.calls[(Block(Z, i) + 1) * CallsPerHour]
    BY DEF MemoryShape
  <2>1. i \in Nat \ {0} /\ i <= d * Z /\ Z \in Nat \ {0}
    BY <1>1, ZoneCount DEF MemoryShape, d
  <2>2. Block(Z, i) \in Nat /\ Block(Z, i) < d
    BY <1>1, <2>1, Divided, Blocks
  <2>3. (Block(Z, i) + 1) * CallsPerHour \in 1 .. d * CallsPerHour
    <3> DEFINE q == Block(Z, i)
    <3>1. q \in Nat /\ q < d
      BY <2>2
    <3> HIDE DEF q
    <3>2. /\ q * CallsPerHour \in Nat /\ (q + 1) * CallsPerHour = q * CallsPerHour + CallsPerHour
          /\ q * CallsPerHour + CallsPerHour <= d * CallsPerHour
      BY <1>1, <1>3, <3>1, Multiples
    <3>3. (q + 1) * CallsPerHour \in 1 .. d * CallsPerHour
      BY <1>3, <3>2
    <3> QED
      BY <3>3 DEF q
  <2> QED
    BY <1>4, <2>3
<1> QED
  BY <1>5, <1>6, <1>7

LEMMA UpdatesJoined ==
    ASSUME NEW run \in Directories, NEW new \in Directories, NEW more \in Seq(UpdateRows),
           new.updates = run.updates \o more, Len(more) = Z
    PROVE  /\ \A i \in DOMAIN run.updates : new.updates[i] = run.updates[i]
           /\ \A k \in 1 .. Z : new.updates[Len(run.updates) + k] = more[k]
           /\ \A i \in DOMAIN new.updates :
                 i \in DOMAIN run.updates \/ \E k \in 1 .. Z : i = Len(run.updates) + k
           /\ Len(new.updates) = Len(run.updates) + Z
<1> DEFINE rows == run.updates
           s == new.updates
<1>1. rows \in Seq(UpdateRows) /\ s = rows \o more /\ Len(more) = Z
  BY Streams
<1> HIDE DEF rows, s
<1>2. IsJoin(s, rows, more)
  BY <1>1, JoinedWhole
<1>3. IsJoin(new.updates, run.updates, more) /\ Len(more) = Z
  BY <1>2 DEF rows, s
<1> QED
  BY <1>3 DEF IsJoin

LEMMA UpdatesAdded ==
    ASSUME NEW run \in Directories, NEW new \in Directories, NEW more \in Seq(UpdateRows),
           UpdatesShape(run), new.updates = run.updates \o more, new.decisions = run.decisions,
           Len(run.updates) = Len(run.decisions) * Z, Len(more) = Z,
           \A k \in 1 .. Z :
              /\ more[k].hour = Len(run.decisions) /\ more[k].zone = ZoneSeq[k]
              /\ more[k].before = IF run.decisions = << >> THEN 0
                                  ELSE run.decisions[Len(run.decisions)].versions[ZoneSeq[k]]
    PROVE  UpdatesShape(new) /\ Len(new.updates) = (Len(run.decisions) + 1) * Z
<1> DEFINE d == Len(run.decisions)
           u == Len(run.updates)
<1>1. d \in Nat /\ Len(new.decisions) = d /\ u \in Nat /\ DOMAIN run.updates = 1 .. u
  BY Streams
<1>2. /\ \A i \in DOMAIN run.updates : new.updates[i] = run.updates[i]
      /\ \A k \in 1 .. Z : new.updates[u + k] = more[k]
      /\ \A i \in DOMAIN new.updates :
            i \in DOMAIN run.updates \/ \E k \in 1 .. Z : i = u + k
      /\ Len(new.updates) = u + Z
  BY UpdatesJoined
<1>3. /\ Z \in Nat \ {0} /\ u = d * Z /\ (d + 1) * Z = u + Z
      /\ run.decisions = << >> <=> d = 0
  <2>1. Z \in Nat \ {0} /\ u = d * Z
    BY ZoneCount
  <2>2. run.decisions = << >> <=> d = 0
    BY <1>1, Streams
  <2>3. (d + 1) * Z = d * Z + Z
    BY <1>1, <2>1, Multiples
  <2> QED
    BY <2>1, <2>2, <2>3
<1>4. \A i \in DOMAIN run.updates :
         /\ run.updates[i].hour = Block(Z, i)
         /\ run.updates[i].zone = ZoneSeq[Place(Z, i)]
         /\ run.updates[i].before = IF i <= Z THEN 0 ELSE run.updates[i - Z].after
         /\ Block(Z, i) < d =>
               run.updates[i].after =
                   run.decisions[Block(Z, i) + 1].versions[ZoneSeq[Place(Z, i)]]
  BY DEF UpdatesShape
<1>5. \A k \in 1 .. Z :
         /\ more[k].hour = d /\ more[k].zone = ZoneSeq[k]
         /\ more[k].before = IF run.decisions = << >> THEN 0
                             ELSE run.decisions[d].versions[ZoneSeq[k]]
  OBVIOUS
<1> HIDE DEF d, u
<1>6. ASSUME NEW i \in DOMAIN run.updates
      PROVE  /\ new.updates[i].hour = Block(Z, i)
             /\ new.updates[i].zone = ZoneSeq[Place(Z, i)]
             /\ new.updates[i].before = IF i <= Z THEN 0 ELSE new.updates[i - Z].after
             /\ Block(Z, i) < d =>
                   new.updates[i].after =
                       new.decisions[Block(Z, i) + 1].versions[ZoneSeq[Place(Z, i)]]
  <2>1. i <= Z \/ i - Z \in DOMAIN run.updates
    BY <1>1, <1>3
  <2>2. new.updates[i] = run.updates[i]
    BY <1>2
  <2>3. new.updates[i].before = IF i <= Z THEN 0 ELSE new.updates[i - Z].after
    BY <1>2, <1>4, <2>1, <2>2
  <2> QED
    BY <1>4, <2>2, <2>3
<1>7. ASSUME NEW k \in 1 .. Z, NEW i, i = u + k
      PROVE  /\ new.updates[i].hour = Block(Z, i)
             /\ new.updates[i].zone = ZoneSeq[Place(Z, i)]
             /\ new.updates[i].before = IF i <= Z THEN 0 ELSE new.updates[i - Z].after
             /\ Block(Z, i) = d
  <2>1. Block(Z, i) = d /\ Place(Z, i) = k
    <3>1. i = d * Z + k
      BY <1>3, <1>7
    <3>2. d \in Nat /\ Z \in Nat \ {0}
      BY <1>1, <1>3
    <3>3. Block(Z, d * Z + k) = d /\ Place(Z, d * Z + k) = k
      BY ZenonT(40), <3>2, Positions
    <3> QED
      BY <3>1, <3>3
  <2>2. new.updates[i] = more[k]
    BY <1>2, <1>7
  <2>3. new.updates[i].before = IF i <= Z THEN 0 ELSE new.updates[i - Z].after
    <3>1. CASE d = 0
      <4>1. u = 0
        <5>1. 0 * Z = 0
          BY <1>3
        <5> QED
          BY <1>3, <3>1, <5>1
      <4>2. i <= Z
        BY <1>3, <1>7, <4>1
      <4>3. more[k].before = 0
        BY <1>3, <1>5, <3>1
      <4> QED
        BY <2>2, <4>2, <4>3
    <3>2. CASE d # 0
      <4> DEFINE c == d - 1
                 j == c * Z + k
      <4>1. c \in Nat /\ c + 1 = d /\ c < d
        BY <1>1, <3>2
      <4> HIDE DEF c
      <4>2. c * Z \in Nat /\ d * Z = c * Z + Z
        <5>1. c * Z \in Nat /\ (c + 1) * Z = c * Z + Z
          BY <1>3, <4>1, Multiples
        <5> QED
          BY <4>1, <5>1
      <4>3. Block(Z, j) = c /\ Place(Z, j) = k
        <5>1. c \in Nat /\ Z \in Nat \ {0}
          BY <1>3, <4>1
        <5> QED
          BY ZenonT(40), <5>1, Positions
      <4> HIDE DEF j
      <4>4. j \in 1 .. u /\ ~(i <= Z) /\ i - Z = j
        <5> DEFINE x == c * Z
        <5>1. x \in Nat /\ u = x + Z /\ Z \in Nat \ {0} /\ j = x + k /\ i = u + k
          BY <1>3, <1>7, <4>2 DEF j
        <5> HIDE DEF x
        <5> QED
          BY <5>1
      <4>5. run.updates[j].after = run.decisions[c + 1].versions[ZoneSeq[k]]
        BY <1>1, <1>4, <4>1, <4>3, <4>4
      <4>6. new.updates[j].after = run.decisions[d].versions[ZoneSeq[k]]
        BY <1>1, <1>2, <4>1, <4>4, <4>5
      <4>7. more[k].before = run.decisions[d].versions[ZoneSeq[k]]
        BY <1>3, <1>5, <3>2
      <4> QED
        BY <2>2, <4>4, <4>6, <4>7
    <3> QED
      BY <3>1, <3>2
  <2> QED
    BY <1>5, <2>1, <2>2, <2>3
<1>8. ~(d < d)
  BY <1>1
<1>9. Len(new.updates) = (d + 1) * Z
  BY <1>2, <1>3
<1>10. \A i \in DOMAIN new.updates :
          /\ new.updates[i].hour = Block(Z, i)
          /\ new.updates[i].zone = ZoneSeq[Place(Z, i)]
          /\ new.updates[i].before = IF i <= Z THEN 0 ELSE new.updates[i - Z].after
          /\ Block(Z, i) < d =>
                new.updates[i].after =
                    new.decisions[Block(Z, i) + 1].versions[ZoneSeq[Place(Z, i)]]
  <2> TAKE i \in DOMAIN new.updates
  <2>1. CASE i \in DOMAIN run.updates
    BY <1>6, <2>1
  <2>2. CASE \E k \in 1 .. Z : i = u + k
    BY <1>7, <1>8, <2>2
  <2> QED
    BY <1>2, <2>1, <2>2
<1> QED
  BY <1>1, <1>9, <1>10 DEF UpdatesShape, d

-----------------------------------------------------------------------------
(* The directory of the process, and what writing to it needs. *)

LEMMA NewRunType ==
    ASSUME NEW src \in Nat, NEW cut \in Nat
    PROVE  NewRun(src, cut) \in Directories
<1>1. NoCheckpoint \in Checkpoints
  BY DEF NoCheckpoint, Checkpoints, Unchanged, Programs
<1>2. 0 \in Counted
  BY DEF Counted
<1> QED
  BY <1>1, <1>2 DEF NewRun, Directories, Ends, Errors

LEMMA Sources ==
    ASSUME HourlyInv, NEW r \in DOMAIN runs
    PROVE  /\ runs \in Seq(Directories) /\ Len(runs) \in Nat /\ DOMAIN runs = 1 .. Len(runs)
           /\ r \in Nat \ {0} /\ runs[r] \in Directories
           /\ DirectoryInv(runs[r], r, Origin(runs, r))
           /\ runs[r].end = "open" <=> proc.pc # "idle" /\ r = proc.run
           /\ Origin(runs, r) \in Directories
           /\ runs[r].src = 0 => runs[r].cut = 0
           /\ runs[r].src # 0 => /\ runs[r].src \in DOMAIN runs /\ runs[r].src < r
                                 /\ Origin(runs, r) = runs[runs[r].src]
           /\ Imported(runs[r], Origin(runs, r)) \in Nat
<1>1. /\ runs \in Seq(Directories) /\ Len(runs) \in Nat /\ DOMAIN runs = 1 .. Len(runs)
      /\ r \in Nat \ {0} /\ runs[r] \in Directories
  BY DEF HourlyInv, HourlyTypes
<1>2. /\ DirectoryInv(runs[r], r, Origin(runs, r))
      /\ runs[r].end = "open" <=> proc.pc # "idle" /\ r = proc.run
  BY DEF HourlyInv, RunsInv
<1>3. runs[r].src < r /\ runs[r].cut = Imported(runs[r], Origin(runs, r)) * StepsPerHour
  BY <1>2 DEF DirectoryInv, Started
<1>4. runs[r].src \in Nat
  BY <1>1, Streams
<1>5. CASE runs[r].src = 0
  <2>1. Origin(runs, r) \in Directories
    BY <1>5, NewRunType DEF Origin
  <2>2. Imported(runs[r], Origin(runs, r)) = 0
    BY <1>5 DEF Imported
  <2>3. StepsPerHour \in Nat /\ 0 * StepsPerHour = 0
    BY ZoneCount
  <2> QED
    BY <1>1, <1>2, <1>3, <1>5, <2>1, <2>2, <2>3
<1>6. CASE runs[r].src # 0
  <2>1. runs[r].src \in DOMAIN runs
    BY <1>1, <1>3, <1>4, <1>6
  <2>2. Origin(runs, r) = runs[runs[r].src]
    BY <1>6 DEF Origin
  <2>3. Origin(runs, r) \in Directories
    BY <1>1, <2>1, <2>2
  <2>4. Imported(runs[r], Origin(runs, r)) \in Nat
    BY <1>6, <2>3, Streams DEF Imported
  <2> QED
    BY <1>1, <1>2, <1>3, <1>6, <2>1, <2>2, <2>3, <2>4
<1> QED
  BY <1>5, <1>6

LEMMA Running ==
    ASSUME HourlyInv, proc.pc # "idle"
    PROVE  /\ proc.run \in DOMAIN runs /\ proc.run = Len(runs) /\ proc \in Processes
           /\ ProcShape(proc, Me, Origin(runs, proc.run)) /\ Me.end = "open"
<1>1. proc \in Processes /\ runs \in Seq(Directories)
  BY DEF HourlyInv, HourlyTypes
<1>2. /\ proc.run = Len(runs) /\ runs # << >>
      /\ ProcShape(proc, Me, Origin(runs, proc.run))
  BY DEF HourlyInv, ProcInv
<1>3. proc.run \in DOMAIN runs
  BY <1>1, <1>2
<1> QED
  BY <1>1, <1>2, <1>3, Sources DEF Me

LEMMA Writes ==
    ASSUME HourlyInv, proc.pc # "idle", NEW new \in Directories, NEW p \in Processes,
           runs' = [runs EXCEPT ![proc.run] = new], proc' = p,
           new.src = Me.src, new.cut = Me.cut, Shape(new, proc.run),
           LET source == Origin(runs, proc.run)
           IN  /\ PrefixShape(new, proc.run, source, Imported(Me, source))
               /\ Ended(new, source)
               /\ p.pc # "idle" => p.run = proc.run /\ ProcShape(p, new, source),
           new.end = "open" <=> p.pc # "idle"
    PROVE  HourlyInv'
<1> DEFINE r == proc.run
           source == Origin(runs, r)
<1>1. /\ runs \in Seq(Directories) /\ Len(runs) \in Nat /\ DOMAIN runs = 1 .. Len(runs)
      /\ r \in DOMAIN runs /\ r = Len(runs)
  BY Running, Sources
<1>2. /\ runs' \in Seq(Directories) /\ DOMAIN runs' = DOMAIN runs /\ Len(runs') = Len(runs)
      /\ runs'[r] = new /\ \A q \in DOMAIN runs : q # r => runs'[q] = runs[q]
  BY <1>1
<1>3. ASSUME NEW q \in DOMAIN runs
      PROVE  runs'[q].src = runs[q].src /\ Origin(runs', q) = Origin(runs, q)
  <2>1. runs'[q].src = runs[q].src
    BY <1>2 DEF Me
  <2>2. CASE runs[q].src = 0
    BY <2>1, <2>2 DEF Origin
  <2>3. CASE runs[q].src # 0
    <3>1. runs[q].src \in DOMAIN runs /\ runs[q].src < q /\ q <= Len(runs) /\ q \in Nat
      BY <1>1, <2>3, Sources
    <3>2. runs[q].src # r
      BY <1>1, <3>1
    <3>3. runs'[runs[q].src] = runs[runs[q].src]
      BY <1>2, <3>1, <3>2
    <3> QED
      BY <2>1, <3>3 DEF Origin
  <2> QED
    BY <2>2, <2>3
<1>4. DirectoryInv(new, r, source)
  <2>1. DirectoryInv(Me, r, source)
    BY <1>1, Sources DEF Me
  <2>2. Imported(new, source) = Imported(Me, source)
    BY DEF Imported
  <2>3. Started(new, r, source)
    BY <2>1, <2>2 DEF DirectoryInv, Started
  <2> QED
    BY <2>2, <2>3 DEF DirectoryInv
<1>5. ASSUME NEW q \in DOMAIN runs'
      PROVE  /\ DirectoryInv(runs'[q], q, Origin(runs', q))
             /\ runs'[q].end = "open" <=> p.pc # "idle" /\ q = p.run
  <2>1. CASE q = r
    BY <1>2, <1>3, <1>4, <2>1
  <2>2. CASE q # r
    <3>1. DirectoryInv(runs[q], q, Origin(runs, q)) /\ runs[q].end # "open"
      BY <1>2, <2>2, Sources
    <3>2. DirectoryInv(runs'[q], q, Origin(runs', q)) /\ runs'[q].end # "open"
      BY <1>2, <1>3, <2>2, <3>1
    <3>3. ~(p.pc # "idle" /\ q = p.run)
      BY <2>2
    <3> QED
      BY <3>2, <3>3
  <2> QED
    BY <2>1, <2>2
<1>6. RunsInv'
  BY <1>5 DEF RunsInv
<1>7. HourlyTypes'
  BY <1>2 DEF HourlyTypes
<1>8. ProcInv'
  <2> SUFFICES ASSUME p.pc # "idle"
               PROVE  /\ p.run = Len(runs') /\ runs' # << >>
                      /\ ProcShape(p, runs'[p.run], Origin(runs', p.run))
    BY DEF ProcInv, Me
  <2>1. p.run = r /\ ProcShape(p, new, source)
    OBVIOUS
  <2>2. Origin(runs', r) = source
    BY <1>1, <1>3
  <2>3. runs' # << >>
    BY <1>1, <1>2
  <2> QED
    BY <1>1, <1>2, <2>1, <2>2, <2>3
<1> QED
  BY <1>6, <1>7, <1>8 DEF HourlyInv

-----------------------------------------------------------------------------
(* The actions that append nothing to the streams. *)

LEMMA Records ==
    ASSUME HourlyInv, proc.pc # "idle", NEW new \in Directories, NEW p \in Processes,
           runs' = [runs EXCEPT ![proc.run] = new], proc' = p,
           new.src = Me.src, new.cut = Me.cut, new.calls = Me.calls, new.updates = Me.updates,
           new.steps = Me.steps, new.caol = Me.caol, new.decisions = Me.decisions,
           new.ckpt = Me.ckpt, new.retries = Me.retries \/ new.retries = RetriesOf(Me.calls),
           Ended(new, Origin(runs, proc.run)),
           p.pc # "idle" => p.run = proc.run /\ ProcShape(p, new, Origin(runs, proc.run)),
           new.end = "open" <=> p.pc # "idle"
    PROVE  HourlyInv'
<1> DEFINE source == Origin(runs, proc.run)
<1>1. DirectoryInv(Me, proc.run, source)
  BY Running, Sources DEF Me
<1>2. Shape(Me, proc.run) /\ PrefixShape(Me, proc.run, source, Imported(Me, source))
  BY <1>1 DEF DirectoryInv
<1>3. Shape(new, proc.run) /\ PrefixShape(new, proc.run, source, Imported(Me, source))
  BY <1>2, SameStreams
<1> QED
  BY <1>3, Writes

LEMMA OpenEnded ==
    ASSUME NEW run, NEW source, run.end \in {"open", "killed", "stop_raised"}
    PROVE  Ended(run, source)
  BY DEF Ended

LEMMA PreparingKept ==
    ASSUME NEW p, NEW q, NEW run, NEW new, Preparing(p, run),
           new.calls = run.calls, new.updates = run.updates, new.steps = run.steps,
           new.decisions = run.decisions, new.resume = run.resume,
           q.step = p.step, q.versions = p.versions, q.prev = p.prev,
           q.pc = "import" => /\ new.dispatch = "running"
                              /\ new.lifecycle = <<"initialized", "evaluation_started">>
    PROVE  Preparing(q, new)
  BY DEF Preparing, BetweenHours, LastVersions

LEMMA SelectStep ==
    ASSUME HourlyInv, Select
    PROVE  HourlyInv'
<1> DEFINE new == [Me EXCEPT !.dispatch = "selected"]
           p == [proc EXCEPT !.pc = "queued"]
           source == Origin(runs, proc.run)
<1>1. /\ proc.pc = "select" /\ Me \in Directories /\ proc \in Processes /\ Me.end = "open"
      /\ ProcShape(proc, Me, source)
  BY Running, Sources DEF Select, Me
<1>2. /\ new \in Directories /\ new.calls = Me.calls /\ new.updates = Me.updates
      /\ new.steps = Me.steps /\ new.caol = Me.caol /\ new.decisions = Me.decisions
      /\ new.ckpt = Me.ckpt /\ new.retries = Me.retries /\ new.src = Me.src /\ new.cut = Me.cut
      /\ new.end = Me.end /\ new.resume = Me.resume
  BY <1>1 DEF Directories
<1>3. /\ p \in Processes /\ p.pc = "queued" /\ p.run = proc.run /\ p.step = proc.step
      /\ p.versions = proc.versions /\ p.prev = proc.prev
  BY <1>1 DEF Processes, Pcs
<1>4. runs' = [runs EXCEPT ![proc.run] = new] /\ proc' = p
  BY DEF Select, Me
<1> HIDE DEF new, p
<1>5. Preparing(proc, Me)
  BY <1>1 DEF ProcShape
<1>6. Preparing(p, new)
  BY <1>2, <1>3, <1>5, PreparingKept
<1>7. ProcShape(p, new, source)
  BY <1>3, <1>6 DEF ProcShape
<1>8. Ended(new, source)
  BY <1>1, <1>2, OpenEnded
<1> QED
  BY <1>1, <1>2, <1>3, <1>4, <1>7, <1>8, Records

LEMMA InitializeStep ==
    ASSUME HourlyInv, Initialize
    PROVE  HourlyInv'
<1> DEFINE boundary == <<"initialized", "evaluation_started">>
           new == [Me EXCEPT !.dispatch = "running", !.lifecycle = boundary]
           p == [proc EXCEPT !.pc = "import"]
           source == Origin(runs, proc.run)
<1>1. /\ proc.pc = "queued" /\ Me \in Directories /\ proc \in Processes /\ Me.end = "open"
      /\ ProcShape(proc, Me, source)
  BY Running, Sources DEF Initialize, Me
<1>2. boundary \in Seq({"initialized", "evaluation_started", "evaluation_completed", "stopped"})
  OBVIOUS
<1>3. runs' = [runs EXCEPT ![proc.run] = new] /\ proc' = p
  BY DEF Initialize, Me
<1> HIDE DEF boundary
<1>4. /\ new \in Directories /\ new.calls = Me.calls /\ new.updates = Me.updates
      /\ new.steps = Me.steps /\ new.caol = Me.caol /\ new.decisions = Me.decisions
      /\ new.ckpt = Me.ckpt /\ new.retries = Me.retries /\ new.src = Me.src /\ new.cut = Me.cut
      /\ new.end = Me.end /\ new.resume = Me.resume /\ new.dispatch = "running"
      /\ new.lifecycle = boundary
  BY <1>1, <1>2 DEF Directories
<1>5. /\ p \in Processes /\ p.pc = "import" /\ p.run = proc.run /\ p.step = proc.step
      /\ p.versions = proc.versions /\ p.prev = proc.prev
  BY <1>1 DEF Processes, Pcs
<1> HIDE DEF new, p
<1>6. Preparing(proc, Me)
  BY <1>1 DEF ProcShape
<1>7. Preparing(p, new)
  <2>1. new.lifecycle = <<"initialized", "evaluation_started">>
    BY <1>4 DEF boundary
  <2> QED
    BY <1>4, <1>5, <1>6, <2>1, PreparingKept
<1>8. ProcShape(p, new, source)
  BY <1>5, <1>7 DEF ProcShape
<1>9. Ended(new, source)
  BY <1>1, <1>4, OpenEnded
<1> QED
  BY <1>1, <1>3, <1>4, <1>5, <1>8, <1>9, Records

LEMMA IdleIs ==
    Idle \in Processes /\ Idle.pc = "idle"
<1>1. Unchanged \in Programs /\ Split \in Nat \X Nat
  BY DEF Unchanged, Programs, Split
<1> QED
  BY <1>1 DEF Idle, Processes, Pcs, Errors

LEMMA KillStep ==
    ASSUME HourlyInv, Kill
    PROVE  HourlyInv'
<1> DEFINE new == [Me EXCEPT !.end = "killed"]
           source == Origin(runs, proc.run)
<1>1. proc.pc # "idle" /\ Me \in Directories /\ Me.end = "open"
  BY Running, Sources DEF Kill, Me
<1>2. /\ new \in Directories /\ new.calls = Me.calls /\ new.updates = Me.updates
      /\ new.steps = Me.steps /\ new.caol = Me.caol /\ new.decisions = Me.decisions
      /\ new.ckpt = Me.ckpt /\ new.retries = Me.retries /\ new.src = Me.src /\ new.cut = Me.cut
      /\ new.end = "killed"
  BY <1>1 DEF Directories, Ends
<1>3. runs' = [runs EXCEPT ![proc.run] = new] /\ proc' = Idle
  BY <1>1 DEF Kill, Me
<1> HIDE DEF new
<1>4. Ended(new, source)
  BY <1>2, OpenEnded
<1> QED
  BY <1>1, <1>2, <1>3, <1>4, IdleIs, Records

LEMMA FailStep ==
    ASSUME HourlyInv, Fail
    PROVE  HourlyInv'
<1> DEFINE source == Origin(runs, proc.run)
           written(e) == [Me EXCEPT !.scanned = TRUE, !.end = e]
<1>1. /\ proc.pc = "failing" /\ Me \in Directories /\ proc \in Processes /\ Me.end = "open"
      /\ Failing(proc, Me, source)
  BY Running, Sources DEF Fail, Me, ProcShape
<1>2. PICK e \in {proc.error, "stop_raised"} : runs' = [runs EXCEPT ![proc.run] = written(e)]
  BY DEF Fail, Me
<1>3. proc.error \in Errors /\ proc.error # "none"
  BY <1>1 DEF Processes, Failing
<1> DEFINE new == written(e)
<1>4. /\ new \in Directories /\ new.calls = Me.calls /\ new.updates = Me.updates
      /\ new.steps = Me.steps /\ new.caol = Me.caol /\ new.decisions = Me.decisions
      /\ new.ckpt = Me.ckpt /\ new.retries = Me.retries /\ new.src = Me.src /\ new.cut = Me.cut
      /\ new.end = e /\ new.scanned = TRUE
  BY <1>1, <1>3 DEF Directories, Ends
<1>5. proc' = Idle
  BY DEF Fail
<1> HIDE DEF new
<1>6. Ended(new, source)
  <2>1. new.end # "release_pass" /\ new.end # "degraded"
    BY <1>2, <1>3, <1>4 DEF Errors
  <2>2. e = "terminal_transport_error" => new.retries = RetriesOf(new.calls)
    BY <1>1, <1>2, <1>4 DEF Failing
  <2>3. e = "verification_failed" => Differs(new, source)
    BY <1>1, <1>2, <1>4 DEF Failing, Differs
  <2> QED
    BY <1>4, <2>1, <2>2, <2>3 DEF Ended
<1>7. new.end # "open"
  BY <1>2, <1>3, <1>4 DEF Errors
<1>8. runs' = [runs EXCEPT ![proc.run] = new]
  BY <1>2 DEF new
<1> QED
  BY <1>1, <1>4, <1>5, <1>6, <1>7, <1>8, IdleIs, Records

\* An error that ends the evaluation: the calls it issued are in their place.
LEMMA Breaks ==
    ASSUME HourlyInv, proc.pc # "idle", NEW calls \in Seq(CallRows),
           NEW error \in {"terminal_transport_error", "terminal_runtime_error"},
           Broken(calls, error),
           \A new : /\ new \in Directories /\ new.calls = Me.calls \o calls
                    /\ new.updates = Me.updates /\ new.steps = Me.steps /\ new.caol = Me.caol
                    /\ new.decisions = Me.decisions /\ new.ckpt = Me.ckpt
                    /\ new.retries = IF error = "terminal_transport_error"
                                     THEN RetriesOf(new.calls) ELSE Me.retries
                    => /\ Shape(new, proc.run)
                       /\ LET source == Origin(runs, proc.run)
                          IN  PrefixShape(new, proc.run, source, Imported(Me, source))
    PROVE  HourlyInv'
<1> DEFINE source == Origin(runs, proc.run)
           all == Me.calls \o calls
           count == IF error = "terminal_transport_error" THEN RetriesOf(all) ELSE Me.retries
           new == [Me EXCEPT !.calls = all, !.retries = count]
           p == [proc EXCEPT !.pc = "failing", !.error = error]
<1>1. Me \in Directories /\ proc \in Processes /\ Me.end = "open"
  BY Running, Sources DEF Me
<1>2. all \in Seq(CallRows) /\ count \in Counted
  <2>1. Me.calls \in Seq(CallRows) /\ Me.retries \in Counted
    BY <1>1 DEF Directories
  <2>2. all \in Seq(CallRows)
    BY <2>1
  <2> QED
    BY <2>1, <2>2 DEF Counted
<1>3. runs' = [runs EXCEPT ![proc.run] = new] /\ proc' = p
  BY DEF Broken, RecordedRetries, Me
<1>4. error = "terminal_transport_error" => count = RetriesOf(all)
  OBVIOUS
<1>5. count = IF error = "terminal_transport_error" THEN RetriesOf(all) ELSE Me.retries
  OBVIOUS
<1> HIDE DEF count
<1>6. all = Me.calls \o calls
  OBVIOUS
<1> HIDE DEF all
<1>7. /\ new \in Directories /\ new.calls = all /\ new.updates = Me.updates
      /\ new.steps = Me.steps /\ new.caol = Me.caol /\ new.decisions = Me.decisions
      /\ new.ckpt = Me.ckpt /\ new.retries = count /\ new.src = Me.src /\ new.cut = Me.cut
      /\ new.end = Me.end
  BY <1>1, <1>2 DEF Directories
<1>8. p \in Processes /\ p.pc = "failing" /\ p.error = error /\ p.run = proc.run
  BY <1>1 DEF Processes, Pcs, Errors
<1> HIDE DEF new, p
<1>9. /\ Shape(new, proc.run)
      /\ PrefixShape(new, proc.run, source, Imported(Me, source))
  BY <1>5, <1>6, <1>7
<1>10. Failing(p, new, source)
  BY <1>4, <1>7, <1>8 DEF Failing
<1>11. ProcShape(p, new, source)
  BY <1>8, <1>10 DEF ProcShape
<1>12. Ended(new, source)
  BY <1>1, <1>7, OpenEnded
<1> QED
  BY <1>1, <1>3, <1>7, <1>8, <1>9, <1>11, <1>12, Writes

LEMMA BreaksOff ==
    ASSUME HourlyInv, proc.pc # "idle",
           NEW error \in {"terminal_transport_error", "terminal_runtime_error"},
           Broken(<< >>, error)
    PROVE  HourlyInv'
<1> DEFINE source == Origin(runs, proc.run)
           none == << >>
<1>1. Me.calls \in Seq(CallRows)
  BY Running, Sources, Streams DEF Me
<1>2. none \in Seq(CallRows) /\ Me.calls \o none = Me.calls
  BY <1>1
<1>3. DirectoryInv(Me, proc.run, source)
  BY Running, Sources DEF Me
<1>4. Shape(Me, proc.run) /\ PrefixShape(Me, proc.run, source, Imported(Me, source))
  BY <1>3 DEF DirectoryInv
<1>5. Broken(none, error)
  OBVIOUS
<1> HIDE DEF none
<1>6. ASSUME NEW new, new \in Directories, new.calls = Me.calls \o none,
             new.updates = Me.updates, new.steps = Me.steps, new.caol = Me.caol,
             new.decisions = Me.decisions, new.ckpt = Me.ckpt,
             new.retries = IF error = "terminal_transport_error"
                           THEN RetriesOf(new.calls) ELSE Me.retries
      PROVE  /\ Shape(new, proc.run)
             /\ PrefixShape(new, proc.run, source, Imported(Me, source))
  <2>1. new.calls = Me.calls /\ (new.retries = Me.retries \/ new.retries = RetriesOf(Me.calls))
    BY <1>2, <1>6
  <2> QED
    BY <1>4, <1>6, <2>1, SameStreams
<1> QED
  BY <1>2, <1>5, <1>6, Breaks

LEMMA SetupFailsStep ==
    ASSUME HourlyInv, SetupFails
    PROVE  HourlyInv'
  BY BreaksOff DEF SetupFails

LEMMA Boundaries ==
    <<"initialized", "evaluation_started">> \o <<"evaluation_completed", "stopped">>
        = <<"initialized", "evaluation_started", "evaluation_completed", "stopped">>
<1> DEFINE Events == {"initialized", "evaluation_started", "evaluation_completed", "stopped"}
           a == <<"initialized", "evaluation_started">>
           b == <<"evaluation_completed", "stopped">>
           c == <<"initialized", "evaluation_started", "evaluation_completed", "stopped">>
<1>1. /\ a \in Seq(Events) /\ Len(a) = 2 /\ a[1] = c[1] /\ a[2] = c[2]
      /\ b \in Seq(Events) /\ Len(b) = 2 /\ b[1] = c[3] /\ b[2] = c[4]
      /\ c \in Seq(Events) /\ Len(c) = 4
  OBVIOUS
<1> HIDE DEF a, b, c, Events
<1> DEFINE s == a \o b
<1>2. s \in Seq(Events) /\ Len(s) = 4
  BY SMTT(30), <1>1, Appended
<1>3. (\A i \in 1 .. 2 : s[i] = a[i]) /\ \A k \in 1 .. 2 : s[2 + k] = b[k]
  <2>1. IsJoin(s, a, b)
    <3>1. s = a \o b
      OBVIOUS
    <3> HIDE DEF s
    <3> QED
      BY <1>1, <3>1, JoinedWhole
  <2> HIDE DEF s
  <2> QED
    BY <1>1, <2>1 DEF IsJoin
<1> HIDE DEF s
<1>4. \A i \in 1 .. 4 : i = 1 \/ i = 2 \/ i = 3 \/ i = 4
  OBVIOUS
<1>5. \A i \in 1 .. 4 : s[i] = c[i]
  <2>1. \A k \in 1 .. 2, i \in Nat : i = 2 + k => s[i] = b[k]
    BY <1>3
  <2>2. s[1] = a[1] /\ s[2] = a[2] /\ s[3] = b[1] /\ s[4] = b[2]
    BY <1>3, <2>1
  <2> QED
    BY <1>1, <1>4, <2>2
<1>6. s = [i \in 1 .. 4 |-> s[i]] /\ c = [i \in 1 .. 4 |-> c[i]]
  BY SMTT(30), <1>1, <1>2
<1> QED
  BY <1>5, <1>6 DEF a, b, c, s

LEMMA StopTestStep ==
    ASSUME HourlyInv, StopTest
    PROVE  HourlyInv'
<1> DEFINE source == Origin(runs, proc.run)
           Events == {"initialized", "evaluation_started", "evaluation_completed", "stopped"}
           count == RetriesOf(Me.calls)
<1>1. /\ proc.pc = "stop" /\ Me \in Directories /\ proc \in Processes /\ Me.end = "open"
      /\ ProcShape(proc, Me, source)
  BY Running, Sources DEF StopTest, Me
<1>2. /\ Evaluating(proc, Me, source) /\ Over(proc, Me, source)
      /\ Me.lifecycle = <<"initialized", "evaluation_started">>
  BY <1>1 DEF ProcShape, Evaluating
<1>3. count \in Counted
  BY <1>1, Streams DEF Counted
<1> HIDE DEF count
<1>4. ASSUME runs' = [runs EXCEPT ![proc.run].lifecycle =
                                @ \o <<"evaluation_completed", "stopped">>,
                            ![proc.run].dispatch = "stopped",
                            ![proc.run].fallbacks = proc.fallbacks,
                            ![proc.run].retries = RecordedRetries(Me.calls),
                            ![proc.run].scanned = TRUE],
             proc' = [proc EXCEPT !.pc = "verify", !.stopTried = TRUE]
      PROVE  HourlyInv'
  <2> DEFINE life == Me.lifecycle \o <<"evaluation_completed", "stopped">>
             new == [Me EXCEPT !.lifecycle = life, !.dispatch = "stopped",
                               !.fallbacks = proc.fallbacks, !.retries = count, !.scanned = TRUE]
             p == [proc EXCEPT !.pc = "verify", !.stopTried = TRUE]
  <2>1. /\ life = <<"initialized", "evaluation_started", "evaluation_completed", "stopped">>
        /\ life \in Seq(Events)
    <3>1. <<"initialized", "evaluation_started", "evaluation_completed", "stopped">>
            \in Seq(Events)
      OBVIOUS
    <3> QED
      BY <1>2, <3>1, Boundaries
  <2>2. runs' = [runs EXCEPT ![proc.run] = new] /\ proc' = p
    BY <1>4 DEF Me, RecordedRetries, count
  <2> HIDE DEF life
  <2>3. /\ new \in Directories /\ new.calls = Me.calls /\ new.updates = Me.updates
        /\ new.steps = Me.steps /\ new.caol = Me.caol /\ new.decisions = Me.decisions
        /\ new.ckpt = Me.ckpt /\ new.retries = count /\ new.src = Me.src /\ new.cut = Me.cut
        /\ new.end = Me.end /\ new.resume = Me.resume /\ new.dispatch = "stopped"
        /\ new.lifecycle = life /\ new.scanned = TRUE
    BY <1>1, <1>3, <2>1 DEF Directories, Processes
  <2>4. p \in Processes /\ p.pc = "verify" /\ p.run = proc.run
    BY <1>1 DEF Processes, Pcs
  <2> HIDE DEF new, p
  <2>5. Over(p, new, source)
    BY <1>2, <2>3 DEF Over, Answered, Resumed, Asked, Imported
  <2>6. Stopped(new)
    BY <2>1, <2>3 DEF Stopped, count
  <2>7. ProcShape(p, new, source)
    BY <2>4, <2>5, <2>6 DEF ProcShape
  <2>8. Ended(new, source)
    BY <1>1, <2>3, OpenEnded
  <2>9. new.retries = RetriesOf(Me.calls)
    BY <2>3 DEF count
  <2> QED
    BY <1>1, <2>2, <2>3, <2>4, <2>7, <2>8, <2>9, Records
<1>5. ASSUME runs' = [runs EXCEPT ![proc.run].lifecycle = Append(@, "evaluation_completed"),
                            ![proc.run].retries = RecordedRetries(Me.calls)],
             proc' = [proc EXCEPT !.pc = "failing", !.stopTried = TRUE,
                                  !.error = "terminal_transport_error"]
      PROVE  HourlyInv'
  <2> DEFINE life == Append(Me.lifecycle, "evaluation_completed")
             new == [Me EXCEPT !.lifecycle = life, !.retries = count]
             p == [proc EXCEPT !.pc = "failing", !.stopTried = TRUE,
                               !.error = "terminal_transport_error"]
  <2>1. life \in Seq(Events)
    BY <1>2
  <2>2. runs' = [runs EXCEPT ![proc.run] = new] /\ proc' = p
    BY <1>5 DEF Me, RecordedRetries, count
  <2> HIDE DEF life
  <2>3. /\ new \in Directories /\ new.calls = Me.calls /\ new.updates = Me.updates
        /\ new.steps = Me.steps /\ new.caol = Me.caol /\ new.decisions = Me.decisions
        /\ new.ckpt = Me.ckpt /\ new.retries = count /\ new.src = Me.src /\ new.cut = Me.cut
        /\ new.end = Me.end
    BY <1>1, <1>3, <2>1 DEF Directories
  <2>4. /\ p \in Processes /\ p.pc = "failing" /\ p.run = proc.run
        /\ p.error = "terminal_transport_error"
    BY <1>1 DEF Processes, Pcs, Errors
  <2> HIDE DEF new, p
  <2>5. new.retries = RetriesOf(Me.calls) /\ new.retries = RetriesOf(new.calls)
    BY <2>3 DEF count
  <2>6. ProcShape(p, new, source)
    BY <2>4, <2>5 DEF ProcShape, Failing
  <2>7. Ended(new, source)
    BY <1>1, <2>3, OpenEnded
  <2> QED
    BY <1>1, <2>2, <2>3, <2>4, <2>5, <2>6, <2>7, Records
<1> QED
  BY <1>4, <1>5 DEF StopTest

-----------------------------------------------------------------------------
(* Starting a run. *)

LEMMA NewRunShape ==
    ASSUME NEW src \in Nat, NEW cut \in Nat, NEW r
    PROVE  /\ Shape(NewRun(src, cut), r)
           /\ \A source, n : PrefixShape(NewRun(src, cut), r, source, n)
<1> DEFINE run == NewRun(src, cut)
           none == << >>
<1>1. /\ run.calls = none /\ run.updates = none /\ run.steps = none /\ run.caol = none
      /\ run.decisions = none /\ run.ckpt = NoCheckpoint
  BY DEF NewRun
<1>2. none = << >> /\ Len(none) = 0 /\ DOMAIN none = {}
  OBVIOUS
<1>3. /\ StepsPerHour \in Nat \ {0} /\ Z \in Nat \ {0} /\ CallsPerHour \in Nat \ {0}
      /\ Hours \in Nat \ {0}
  BY ZoneCount
<1>4. /\ 0 * StepsPerHour = 0 /\ 0 * Z = 0 /\ 0 * CallsPerHour = 0
      /\ (0 + 1) * StepsPerHour = StepsPerHour
  BY <1>3
<1> HIDE DEF run, none
<1>5. DecisionsShape(run)
  BY <1>1, <1>2, <1>3 DEF DecisionsShape
<1>6. StepsShape(run, r)
  BY <1>1, <1>2, <1>3, <1>4 DEF StepsShape
<1>7. UpdatesShape(run)
  BY <1>1, <1>2, <1>4 DEF UpdatesShape
<1>8. MemoryShape(run)
  BY <1>1, <1>2, <1>4 DEF MemoryShape
<1>9. CallsShape(run)
  BY <1>1, <1>2, <1>4 DEF CallsShape
<1>10. AllocationsShape(run)
  BY <1>1, <1>2 DEF AllocationsShape
<1>11. CheckpointShape(run, r)
  BY <1>1, <1>2 DEF CheckpointShape
<1>12. FailedShape(run)
  BY <1>1, <1>2 DEF FailedShape
<1>13. \A source, n : PrefixShape(run, r, source, n)
  BY <1>1, <1>2 DEF PrefixShape, Copied, CallsOwned
<1> QED
  BY <1>5, <1>6, <1>7, <1>8, <1>9, <1>10, <1>11, <1>12, <1>13 DEF Shape, run

\* What resume may start from has an hour and not all of them.
LEMMA ResumePoint ==
    ASSUME HourlyInv, NEW src \in DOMAIN runs, Eligible(runs[src])
    PROVE  /\ Len(runs[src].decisions) \in 1 .. Hours - 1
           /\ runs[src].ckpt.next = Len(runs[src].decisions) * StepsPerHour
           /\ runs[src].end = "terminal_transport_error"
<1> DEFINE run == runs[src]
           d == Len(run.decisions)
<1>1. run \in Directories /\ Shape(run, src)
  BY Sources DEF DirectoryInv
<1>2. d \in Nat /\ StepsPerHour \in Nat \ {0} /\ Hours \in Nat \ {0}
  BY <1>1, Streams, ZoneCount
<1>3. /\ run.ckpt # NoCheckpoint /\ run.ckpt.next < Total
      /\ run.end = "terminal_transport_error"
  BY DEF Eligible
<1>4. d # 0 /\ run.ckpt.next = d * StepsPerHour
  BY <1>1, <1>3 DEF Shape, CheckpointShape
<1>5. d < Hours
  <2>1. Hours <= d => Hours * StepsPerHour <= d * StepsPerHour
    BY <1>2, Multiples
  <2>2. d * StepsPerHour < Hours * StepsPerHour
    BY <1>3, <1>4 DEF Total
  <2>3. d * StepsPerHour \in Int /\ Hours * StepsPerHour \in Int
    BY <1>2
  <2> QED
    BY <1>2, <2>1, <2>2, <2>3
<1> QED
  BY <1>2, <1>3, <1>4, <1>5

LEMMA BeginStep ==
    ASSUME HourlyInv, NEW src \in Nat, NEW cut \in Nat, Begin(src, cut),
           \/ src = 0 /\ cut = 0
           \/ src \in DOMAIN runs /\ Eligible(runs[src]) /\ cut = runs[src].ckpt.next
    PROVE  HourlyInv'
<1> DEFINE r == Len(runs) + 1
           new == NewRun(src, cut)
           p == [Idle EXCEPT !.pc = "select", !.run = r]
           source == IF src = 0 THEN NewRun(0, 0) ELSE runs[src]
<1>1. runs \in Seq(Directories) /\ Len(runs) \in Nat /\ DOMAIN runs = 1 .. Len(runs)
  BY DEF HourlyInv, HourlyTypes
<1>2. proc.pc = "idle" /\ runs' = Append(runs, new) /\ proc' = p
  BY DEF Begin
<1>3. /\ new \in Directories /\ new.src = src /\ new.cut = cut /\ new.end = "open"
      /\ new.calls = << >> /\ new.updates = << >> /\ new.steps = << >>
      /\ new.decisions = << >> /\ new.resume = << >>
  BY NewRunType DEF NewRun
<1>4. Shape(new, r) /\ \A n : PrefixShape(new, r, source, n)
  BY NewRunShape
<1>5. /\ runs' \in Seq(Directories) /\ DOMAIN runs' = 1 .. r /\ Len(runs') = r
      /\ runs'[r] = new /\ \A q \in DOMAIN runs : runs'[q] = runs[q]
  BY <1>1, <1>2, <1>3
<1>6. /\ p \in Processes /\ p.pc = "select" /\ p.run = r /\ p.step = 0
      /\ p.versions = Unchanged /\ p.prev = Split
  <2> DEFINE q == Idle
  <2>1. q \in Processes /\ p = [q EXCEPT !.pc = "select", !.run = r] /\ r \in Nat
    BY <1>1, IdleIs
  <2> HIDE DEF p, q
  <2>2. /\ p \in Processes /\ p.pc = "select" /\ p.run = r /\ p.step = q.step
        /\ p.versions = q.versions /\ p.prev = q.prev
    BY <2>1 DEF Processes, Pcs
  <2>3. Idle.step = 0 /\ Idle.versions = Unchanged /\ Idle.prev = Split
    BY DEF Idle
  <2> QED
    BY <2>2, <2>3 DEF q
<1> HIDE DEF new, p
<1>7. Started(new, r, source)
  <2>1. CASE src = 0 /\ cut = 0
    <3>1. Imported(new, source) = 0 /\ 0 * StepsPerHour = 0
      BY <1>3, <2>1, ZoneCount DEF Imported
    <3> QED
      BY <1>1, <1>3, <2>1, <3>1 DEF Started
  <2>2. CASE src \in DOMAIN runs /\ Eligible(runs[src]) /\ cut = runs[src].ckpt.next
    <3>1. src # 0 /\ source = runs[src] /\ src < r
      BY <1>1, <2>2
    <3>2. Imported(new, source) = Len(source.decisions)
      BY <1>3, <3>1 DEF Imported
    <3> QED
      BY <1>3, <2>2, <3>1, <3>2, ResumePoint DEF Started
  <2> QED
    BY <2>1, <2>2
<1>8. Ended(new, source)
  BY <1>3, OpenEnded
<1>9. DirectoryInv(new, r, source)
  BY <1>4, <1>7, <1>8 DEF DirectoryInv
<1>10. Origin(runs', r) = source
  <2>1. CASE src = 0
    BY <1>3, <1>5, <2>1 DEF Origin
  <2>2. CASE src # 0
    BY <1>3, <1>5, <2>2 DEF Origin
  <2> QED
    BY <2>1, <2>2
<1>11. ASSUME NEW q \in DOMAIN runs
       PROVE  /\ DirectoryInv(runs'[q], q, Origin(runs', q))
              /\ runs'[q].end # "open" /\ q # r
  <2>1. DirectoryInv(runs[q], q, Origin(runs, q)) /\ runs[q].end # "open" /\ q # r
    BY <1>1, <1>2, Sources
  <2>2. runs'[q] = runs[q]
    BY <1>5
  <2>3. Origin(runs', q) = Origin(runs, q)
    <3>1. CASE runs[q].src = 0
      BY <2>2, <3>1 DEF Origin
    <3>2. CASE runs[q].src # 0
      BY <1>5, <2>2, <3>2, Sources DEF Origin
    <3> QED
      BY <3>1, <3>2
  <2> QED
    BY <2>1, <2>2, <2>3
<1>12. RunsInv'
  <2>1. \A q \in DOMAIN runs' : q = r \/ q \in DOMAIN runs
    BY <1>1, <1>5
  <2>2. ASSUME NEW q \in DOMAIN runs'
        PROVE  /\ DirectoryInv(runs'[q], q, Origin(runs', q))
               /\ runs'[q].end = "open" <=> p.pc # "idle" /\ q = p.run
    <3>1. CASE q = r
      BY <1>3, <1>5, <1>6, <1>9, <1>10, <3>1
    <3>2. CASE q \in DOMAIN runs
      BY <1>6, <1>11, <3>2
    <3> QED
      BY <2>1, <3>1, <3>2
  <2> QED
    BY <1>2, <2>2 DEF RunsInv
<1>13. HourlyTypes'
  BY <1>2, <1>5, <1>6 DEF HourlyTypes
<1>14. ProcShape(p, new, source)
  <2>1. 0 * StepsPerHour = 0 /\ 0 * Z = 0
    BY ZoneCount
  <2>2. Preparing(p, new)
    BY <1>3, <1>6, <2>1 DEF Preparing, BetweenHours, LastVersions
  <2> QED
    BY <1>6, <2>2 DEF ProcShape
<1>15. ProcInv'
  <2>1. runs' # << >> /\ runs'[p.run] = new /\ Origin(runs', p.run) = source /\ p.run = Len(runs')
    BY <1>1, <1>5, <1>6, <1>10
  <2> QED
    BY <1>2, <1>14, <2>1 DEF ProcInv, Me
<1> QED
  BY <1>12, <1>13, <1>15 DEF HourlyInv

LEMMA StartStep ==
    ASSUME HourlyInv, StartFresh \/ StartResume
    PROVE  HourlyInv'
<1>1. CASE StartFresh
  BY <1>1, BeginStep DEF StartFresh
<1>2. CASE StartResume
  <2>1. PICK src \in DOMAIN runs : Loadable(runs[src]) /\ Begin(src, runs[src].ckpt.next)
    BY <1>2 DEF StartResume
  <2>2. Eligible(runs[src]) /\ src \in Nat /\ runs[src] \in Directories
    BY <2>1, Sources DEF Loadable
  <2>3. runs[src].ckpt.next \in Nat
    BY <2>2 DEF Directories, Checkpoints
  <2> QED
    BY <2>1, <2>2, <2>3, BeginStep
<1> QED
  BY <1>1, <1>2

\* The answers a resumed run is given are its source's, of the hours completed there.
LEMMA ImportedCalls ==
    ASSUME HourlyInv, NEW r \in DOMAIN runs, runs[r].src # 0
    PROVE  LET source == Origin(runs, r)
               n == Imported(runs[r], source)
           IN  /\ n \in 1 .. Hours - 1 /\ HourOf(runs[r].cut) = n /\ n = Len(source.decisions)
               /\ n * CallsPerHour \in Nat /\ n * CallsPerHour <= Len(source.calls)
               /\ BeforeHour(source.calls, HourOf(runs[r].cut))
                     = SubSeq(source.calls, 1, n * CallsPerHour)
               /\ \A i \in DOMAIN source.calls :
                     /\ CallPlaced(source.calls[i], i) /\ source.calls[i].by < r
                     /\ i <= n * CallsPerHour => source.calls[i].ok
<1> DEFINE source == Origin(runs, r)
           n == Imported(runs[r], source)
           s == runs[r].src
<1>1. /\ source \in Directories /\ source = runs[s] /\ s \in DOMAIN runs /\ s < r
      /\ DirectoryInv(runs[r], r, source) /\ r \in Nat
  BY Sources
<1>2. n = Len(source.decisions) /\ n \in 1 .. Hours - 1 /\ runs[r].cut = n * StepsPerHour
  BY <1>1 DEF Imported, DirectoryInv, Started
<1>3. /\ StepsPerHour \in Nat \ {0} /\ CallsPerHour \in Nat \ {0} /\ Hours \in Nat \ {0}
  BY ZoneCount
<1>4. DirectoryInv(source, s, Origin(runs, s)) /\ Imported(source, Origin(runs, s)) \in Nat
      /\ s \in Nat
  BY <1>1, Sources
<1> HIDE DEF n, source, s
<1>5. HourOf(runs[r].cut) = n
  <2>1. n \in Nat /\ 0 \in 0 .. StepsPerHour - 1 /\ n * StepsPerHour + 0 = n * StepsPerHour
    BY <1>2, <1>3
  <2>2. HourOf(n * StepsPerHour + 0) = n
    BY <2>1, HourAt
  <2> QED
    BY <1>2, <2>1, <2>2
<1>6. /\ n * CallsPerHour <= Len(source.calls)
      /\ \A i \in DOMAIN source.calls :
            CallPlaced(source.calls[i], i) /\ (i <= n * CallsPerHour => source.calls[i].ok)
  BY <1>2, <1>4 DEF DirectoryInv, Shape, CallsShape
<1>7. source.calls \in Seq(CallRows) /\ n \in Nat
  BY <1>1, <1>2, <1>3, Streams
<1>8. n * CallsPerHour \in Nat
  BY <1>3, <1>7, Multiples
<1>9. \A i \in DOMAIN source.calls : source.calls[i].hour = Block(CallsPerHour, i)
  BY <1>6 DEF CallPlaced
<1>10. BeforeHour(source.calls, n) = SubSeq(source.calls, 1, n * CallsPerHour)
  BY <1>3, <1>6, <1>7, <1>9, BeforeHourIs
<1>11. ASSUME NEW i \in DOMAIN source.calls
       PROVE  source.calls[i].by < r
  <2>1. source.calls[i].by < s \/ source.calls[i].by = s
    BY <1>4 DEF DirectoryInv, PrefixShape, CallsOwned
  <2>2. source.calls[i].by \in Nat
    <3>1. source.calls[i] \in CallRows
      BY <1>7
    <3> QED
      BY <3>1 DEF CallRows
  <2> QED
    BY <1>1, <1>4, <2>1, <2>2
<1> QED
  BY <1>2, <1>5, <1>6, <1>8, <1>10, <1>11 DEF n, source

LEMMA StartEvaluationStep ==
    ASSUME HourlyInv, StartEvaluation
    PROVE  HourlyInv'
<1> DEFINE source == Origin(runs, proc.run)
           n == Imported(Me, source)
           p == [proc EXCEPT !.pc = "hour"]
           r == proc.run
<1>1. /\ proc.pc = "import" /\ Me \in Directories /\ proc \in Processes /\ Me.end = "open"
      /\ ProcShape(proc, Me, source) /\ r \in DOMAIN runs /\ n \in Nat
      /\ DirectoryInv(Me, r, source) /\ runs \in Seq(Directories)
  BY Running, Sources DEF StartEvaluation, Me
<1>2. Preparing(proc, Me)
  BY <1>1 DEF ProcShape
<1>3. /\ Me.calls = << >> /\ Len(Me.decisions) = 0 /\ Me.dispatch = "running"
      /\ Me.lifecycle = <<"initialized", "evaluation_started">> /\ Me.resume = << >>
      /\ BetweenHours(proc, Me) /\ proc.prev = Split
  BY <1>1, <1>2 DEF Preparing
<1>4. Me.decisions = << >>
  BY <1>1, <1>3, Streams
<1>5. /\ p \in Processes /\ p.pc = "hour" /\ p.run = proc.run /\ p.step = proc.step
      /\ p.versions = proc.versions /\ p.prev = proc.prev
  BY <1>1 DEF Processes, Pcs
<1>6. proc' = p
  BY DEF StartEvaluation
<1>7. CallsPerHour \in Nat \ {0} /\ Hours \in Nat \ {0}
  BY ZoneCount
<1> HIDE DEF p
\* The process, once the directory has the answers of the n hours.
<1>8. ASSUME NEW new, new.decisions = Me.decisions, new.steps = Me.steps,
             new.updates = Me.updates, new.src = Me.src, new.dispatch = Me.dispatch,
             new.lifecycle = Me.lifecycle, Answered(new), Len(new.calls) = n * CallsPerHour,
             new.resume = IF Me.src = 0 THEN << >> ELSE <<"started">>
      PROVE  ProcShape(p, new, source)
  <2>1. BetweenHours(p, new)
    BY <1>3, <1>5, <1>8 DEF BetweenHours, LastVersions
  <2>2. Imported(new, source) = n
    BY <1>8 DEF Imported
  <2>3. p.prev = LastAllocation(new)
    BY <1>3, <1>4, <1>5, <1>8 DEF LastAllocation
  <2>4. Asked(new, source) <=> n = 0
    BY <1>1, <1>3, <1>8, <2>2 DEF Asked
  <2>5. n = 0 <=> Me.src = 0
    <3>1. CASE Me.src = 0
      BY <3>1 DEF Imported
    <3>2. CASE Me.src # 0
      <4>1. n \in 1 .. Hours - 1
        BY <1>1, <3>2 DEF DirectoryInv, Started
      <4> QED
        BY <1>7, <3>2, <4>1
    <3> QED
      BY <3>1, <3>2
  <2>6. Len(new.decisions) = 0 /\ Len(new.decisions) < Hours
    BY <1>3, <1>7, <1>8
  <2> HIDE DEF n
  <2>7. HourOpen(p, new, source)
    <3>1. Len(new.calls) = (IF Asked(new, source) THEN Len(new.decisions)
                            ELSE Imported(new, source)) * CallsPerHour
      <4>1. CASE n = 0
        BY <1>8, <2>2, <2>4, <2>6, <4>1
      <4>2. CASE n # 0
        BY <1>8, <2>2, <2>4, <4>2
      <4> QED
        BY <4>1, <4>2
    <3> QED
      BY <1>5, <2>1, <2>3, <2>6, <3>1 DEF HourOpen
  <2>8. new.resume = Resumed(new, source)
    BY <1>8, <2>4, <2>5 DEF Resumed
  <2>9. Evaluating(p, new, source)
    BY <1>3, <1>8, <2>8 DEF Evaluating
  <2> QED
    BY <1>5, <2>7, <2>9 DEF ProcShape
<1>9. CASE Me.src = 0
  <2>1. runs' = [runs EXCEPT ![proc.run] = Me]
    BY <1>1, <1>9 DEF StartEvaluation, Me
  <2>2. n = 0 /\ 0 * CallsPerHour = 0
    BY <1>7, <1>9 DEF Imported
  <2>3. Answered(Me) /\ Len(Me.calls) = n * CallsPerHour
    BY <1>3, <2>2 DEF Answered
  <2>4. ProcShape(p, Me, source)
    BY <1>3, <1>8, <1>9, <2>3
  <2>5. Ended(Me, source)
    BY <1>1, OpenEnded
  <2> QED
    BY <1>1, <1>5, <1>6, <2>1, <2>4, <2>5, Records
<1>10. CASE Me.src # 0
  <2> DEFINE calls == SubSeq(source.calls, 1, n * CallsPerHour)
             new == [Me EXCEPT !.calls = calls, !.resume = <<"started">>]
  <2>1. /\ n * CallsPerHour \in Nat /\ n * CallsPerHour <= Len(source.calls)
        /\ BeforeHour(source.calls, HourOf(Me.cut)) = calls
        /\ \A i \in DOMAIN source.calls :
              /\ CallPlaced(source.calls[i], i) /\ source.calls[i].by < r
              /\ i <= n * CallsPerHour => source.calls[i].ok
    BY <1>1, <1>10, ImportedCalls DEF Me
  <2>2. source \in Directories /\ source = Source
    BY <1>1, <1>10, Sources DEF Me, Source
  <2>3. source.calls \in Seq(CallRows) /\ Len(source.calls) \in Nat
        /\ DOMAIN source.calls = 1 .. Len(source.calls)
    BY <2>2, Streams
  <2>4. runs' = [runs EXCEPT ![proc.run] = new]
    BY <1>10, <2>1, <2>2 DEF StartEvaluation, Me
  <2> HIDE DEF n
  <2>5. /\ calls \in Seq(CallRows) /\ Len(calls) = n * CallsPerHour
        /\ DOMAIN calls = 1 .. n * CallsPerHour
        /\ \A i \in DOMAIN calls : i \in DOMAIN source.calls /\ calls[i] = source.calls[i]
    <3> DEFINE m == n * CallsPerHour
               rows == source.calls
    <3>1. m \in Nat /\ m <= Len(rows) /\ rows \in Seq(CallRows)
      BY <2>1, <2>3
    <3> HIDE DEF m, rows
    <3>2. /\ SubSeq(rows, 1, m) \in Seq(CallRows) /\ Len(SubSeq(rows, 1, m)) = m
          /\ DOMAIN SubSeq(rows, 1, m) = 1 .. m
          /\ \A i \in 1 .. m : i \in DOMAIN rows /\ SubSeq(rows, 1, m)[i] = rows[i]
      BY <3>1
    <3> QED
      BY <3>2 DEF m, rows
  <2>6. \A i \in DOMAIN calls : CallPlaced(calls[i], i) /\ calls[i].ok /\ calls[i].by < r
    BY <2>1, <2>5
  <2> HIDE DEF calls
  <2>7. <<"started">> \in Seq({"started", "completed"})
    OBVIOUS
  <2>8. /\ new \in Directories /\ new.calls = calls /\ new.updates = Me.updates
        /\ new.steps = Me.steps /\ new.caol = Me.caol /\ new.decisions = Me.decisions
        /\ new.ckpt = Me.ckpt /\ new.retries = Me.retries /\ new.src = Me.src
        /\ new.cut = Me.cut /\ new.end = Me.end /\ new.resume = <<"started">>
        /\ new.dispatch = Me.dispatch /\ new.lifecycle = Me.lifecycle
    BY <1>1, <2>5, <2>7 DEF Directories
  <2> HIDE DEF new
  <2>9. Answered(new)
    BY <2>6, <2>8 DEF Answered
  <2>10. ProcShape(p, new, source)
    BY <1>8, <1>10, <2>5, <2>8, <2>9
  <2>11. Shape(Me, r) /\ PrefixShape(Me, r, source, n)
    BY <1>1 DEF DirectoryInv, n
  <2>12. Shape(new, r)
    <3>1. CallsShape(new)
      <4>1. 0 * CallsPerHour = 0
        BY <1>7
      <4>2. Len(new.decisions) * CallsPerHour <= Len(new.calls)
        BY <1>3, <2>1, <2>5, <2>8, <4>1
      <4> QED
        BY <2>6, <2>8, <4>2 DEF CallsShape
    <3>2. Me.caol = << >>
      <4>1. 0 * Z = 0
        BY ZoneCount
      <4>2. Len(Me.caol) = 0
        BY <1>3, <2>11, <4>1 DEF Shape, MemoryShape
      <4> QED
        BY <1>1, <4>2, Streams
    <3>3. MemoryShape(new)
      BY <2>8, <2>11, <3>2 DEF Shape, MemoryShape
    <3>4. AllocationsShape(new)
      BY <1>4, <2>8 DEF AllocationsShape
    <3>5. FailedShape(new)
      BY <2>6, <2>8 DEF FailedShape
    <3>6. DecisionsShape(new) /\ StepsShape(new, r) /\ UpdatesShape(new) /\ CheckpointShape(new, r)
      BY <2>8, <2>11 DEF Shape, DecisionsShape, StepsShape, UpdatesShape, CheckpointShape
    <3> QED
      BY <3>1, <3>3, <3>4, <3>5, <3>6 DEF Shape
  <2>13. PrefixShape(new, r, source, n)
    <3>1. CallsOwned(new.calls, r, source.calls, n * CallsPerHour)
      BY <2>5, <2>6, <2>8 DEF CallsOwned
    <3> QED
      BY <2>8, <2>11, <3>1 DEF PrefixShape
  <2>14. Ended(new, source)
    BY <1>1, <2>8, OpenEnded
  <2> QED
    BY <1>1, <1>5, <1>6, <2>4, <2>8, <2>10, <2>12, <2>13, <2>14, Writes DEF n
<1> QED
  BY <1>9, <1>10

-----------------------------------------------------------------------------
(* An hour that is asked: its orchestrator and its executors. *)

LEMMA HourIs ==
    ASSUME NEW step \in Nat, NEW d \in Nat, NEW n \in Nat
    PROVE  /\ d * StepsPerHour <= step /\ step < (d + 1) * StepsPerHour =>
                 /\ HourOf(step) = d /\ (step < n * StepsPerHour <=> d < n)
                 /\ (step + 1) % StepsPerHour = 0 <=> step + 1 = (d + 1) * StepsPerHour
           /\ step = (d + 1) * StepsPerHour =>
                 /\ HourOf(step - 1) = d /\ (step > n * StepsPerHour <=> n <= d)
                 /\ step = n * StepsPerHour <=> n = d + 1
<1>1. /\ StepsPerHour \in Nat \ {0} /\ d * StepsPerHour \in Nat /\ n * StepsPerHour \in Nat
      /\ (d + 1) * StepsPerHour = d * StepsPerHour + StepsPerHour
  <2>1. StepsPerHour \in Nat \ {0}
    BY ZoneCount
  <2> QED
    BY <2>1, Multiples
<1>2. n < d + 1 => n * StepsPerHour + StepsPerHour <= (d + 1) * StepsPerHour
  BY <1>1, Multiples
<1>3. d + 1 < n => (d + 1) * StepsPerHour + StepsPerHour <= n * StepsPerHour
  BY <1>1, Multiples
<1>4. d < n => d * StepsPerHour + StepsPerHour <= n * StepsPerHour
  BY <1>1, Multiples
<1>5. n <= d => n * StepsPerHour <= d * StepsPerHour
  BY <1>1, Multiples
<1>6. ASSUME NEW j \in 0 .. StepsPerHour - 1
      PROVE  HourOf(d * StepsPerHour + j) = d /\ (d * StepsPerHour + j) % StepsPerHour = j
  BY HourAt
<1>7. ((d + 1) * StepsPerHour) % StepsPerHour = 0
  <2>1. d + 1 \in Nat /\ 0 \in 0 .. StepsPerHour - 1
    BY <1>1
  <2>2. ((d + 1) * StepsPerHour + 0) % StepsPerHour = 0
    BY <2>1, HourAt
  <2>3. (d + 1) * StepsPerHour + 0 = (d + 1) * StepsPerHour
    BY <1>1
  <2> QED
    BY <2>2, <2>3
<1>8. ASSUME d * StepsPerHour <= step, step < (d + 1) * StepsPerHour
      PROVE  /\ HourOf(step) = d /\ (step < n * StepsPerHour <=> d < n)
             /\ (step + 1) % StepsPerHour = 0 <=> step + 1 = (d + 1) * StepsPerHour
  <2> DEFINE j == step - d * StepsPerHour
  <2>1. j \in 0 .. StepsPerHour - 1 /\ step = d * StepsPerHour + j
    BY <1>1, <1>8
  <2>2. HourOf(step) = d
    BY <1>6, <2>1
  <2>3. step < n * StepsPerHour <=> d < n
    BY <1>1, <1>4, <1>5, <1>8
  <2>4. CASE j = StepsPerHour - 1
    BY <1>1, <1>7, <2>1, <2>2, <2>3, <2>4
  <2>5. CASE j # StepsPerHour - 1
    <3>1. j + 1 \in 0 .. StepsPerHour - 1 /\ step + 1 = d * StepsPerHour + (j + 1)
      BY <1>1, <2>1, <2>5
    <3>2. (d * StepsPerHour + (j + 1)) % StepsPerHour = j + 1
      BY <1>6, <3>1
    <3>3. step + 1 # (d + 1) * StepsPerHour /\ j + 1 # 0
      <4> DEFINE x == d * StepsPerHour
                 y == (d + 1) * StepsPerHour
                 i == j + 1
      <4>1. y = x + StepsPerHour /\ x \in Nat /\ StepsPerHour \in Nat \ {0}
        BY <1>1
      <4>2. step + 1 = x + i /\ i \in 1 .. StepsPerHour - 1
        <5>1. j \in 0 .. StepsPerHour - 1
          BY <2>1
        <5>2. i \in 1 .. StepsPerHour - 1
          BY <3>1, <4>1, <5>1
        <5> QED
          BY <3>1, <5>2
      <4> HIDE DEF x, y, i
      <4>3. step + 1 # y /\ i # 0
        BY <4>1, <4>2
      <4> QED
        BY <4>3 DEF y, i
    <3> QED
      BY <2>2, <2>3, <3>1, <3>2, <3>3
  <2> QED
    BY <2>4, <2>5
<1>9. ASSUME step = (d + 1) * StepsPerHour
      PROVE  /\ HourOf(step - 1) = d /\ (step > n * StepsPerHour <=> n <= d)
             /\ step = n * StepsPerHour <=> n = d + 1
  <2>1. StepsPerHour - 1 \in 0 .. StepsPerHour - 1
        /\ step - 1 = d * StepsPerHour + (StepsPerHour - 1)
    BY <1>1, <1>9
  <2>2. HourOf(step - 1) = d
    BY <1>6, <2>1
  <2>3. step > n * StepsPerHour <=> n <= d
    BY <1>1, <1>2, <1>3, <1>9
  <2>4. step = n * StepsPerHour <=> n = d + 1
    BY <1>1, <1>2, <1>3, <1>9
  <2> QED
    BY <2>2, <2>3, <2>4
<1> QED
  BY <1>8, <1>9

LEMMA OneMore ==
    ASSUME NEW T, NEW rows \in Seq(T), NEW row \in T
    PROVE  /\ Append(rows, row) = rows \o <<row>> /\ <<row>> \in Seq(T)
           /\ Len(<<row>>) = 1 /\ \A k \in 1 .. 1 : <<row>>[k] = row
           /\ Append(rows, row) \in Seq(T) /\ Len(Append(rows, row)) = Len(rows) + 1
           /\ \A i \in 1 .. Len(rows) : Append(rows, row)[i] = rows[i]
           /\ Append(rows, row)[Len(rows) + 1] = row
           /\ DOMAIN Append(rows, row) = 1 .. Len(rows) + 1
<1>1. <<row>> \in Seq(T) /\ Len(<<row>>) = 1 /\ \A k \in 1 .. 1 : <<row>>[k] = row
  OBVIOUS
<1>2. /\ Append(rows, row) \in Seq(T) /\ Len(Append(rows, row)) = Len(rows) + 1
      /\ \A i \in 1 .. Len(rows) : Append(rows, row)[i] = rows[i]
      /\ Append(rows, row)[Len(rows) + 1] = row
      /\ DOMAIN Append(rows, row) = 1 .. Len(rows) + 1
  OBVIOUS
<1>3. Append(rows, row) = rows \o <<row>>
  OBVIOUS
<1> QED
  BY <1>1, <1>2, <1>3

\* Calls issued where all before them were answered and the prefix is there.
LEMMA CallsIssued ==
    ASSUME NEW run \in Directories, NEW new \in Directories, NEW r, NEW source, NEW n \in Nat,
           NEW more \in Seq(CallRows), Shape(run, r), PrefixShape(run, r, source, n),
           n * CallsPerHour <= Len(run.calls),
           new.calls = run.calls \o more, new.updates = run.updates, new.steps = run.steps,
           new.caol = run.caol, new.decisions = run.decisions, new.ckpt = run.ckpt,
           \A k \in 1 .. Len(more) :
              CallPlaced(more[k], Len(run.calls) + k) /\ more[k].by = r,
           FailedShape(new)
    PROVE  Shape(new, r) /\ PrefixShape(new, r, source, n)
<1>1. CallsShape(run) /\ AllocationsShape(run) /\ MemoryShape(run)
  BY DEF Shape
<1>2. CallsShape(new) /\ AllocationsShape(new) /\ MemoryShape(new)
  BY <1>1, CallsAdded
<1>3. DecisionsShape(new) /\ StepsShape(new, r) /\ UpdatesShape(new) /\ CheckpointShape(new, r)
  BY DEF Shape, DecisionsShape, StepsShape, UpdatesShape, CheckpointShape
<1>4. Shape(new, r)
  BY <1>2, <1>3 DEF Shape
<1>5. CallsOwned(new.calls, r, source.calls, n * CallsPerHour)
  <2>1. run.calls \in Seq(CallRows) /\ CallsPerHour \in Nat \ {0}
    BY Streams, ZoneCount
  <2>2. n * CallsPerHour \in Nat
    BY <2>1, Multiples
  <2>3. CallsOwned(run.calls, r, source.calls, n * CallsPerHour)
    BY DEF PrefixShape
  <2>4. CallsOwned(run.calls \o more, r, source.calls, n * CallsPerHour)
    BY <2>1, <2>2, <2>3, OwnedMore
  <2> QED
    BY <2>4
<1>6. PrefixShape(new, r, source, n)
  BY <1>5 DEF PrefixShape
<1> QED
  BY <1>4, <1>6

LEMMA AnsweredMore ==
    ASSUME NEW run, NEW new, NEW more \in Seq(CallRows), run.calls \in Seq(CallRows),
           new.calls = run.calls \o more, Answered(run),
           \A k \in 1 .. Len(more) : more[k].ok
    PROVE  Answered(new) /\ FailedShape(new)
<1>1. /\ \A i \in DOMAIN run.calls : new.calls[i] = run.calls[i]
      /\ \A k \in 1 .. Len(more) : new.calls[Len(run.calls) + k] = more[k]
      /\ \A i \in DOMAIN new.calls :
            i \in DOMAIN run.calls \/ \E k \in 1 .. Len(more) : i = Len(run.calls) + k
  BY Appended
<1>2. Answered(new)
  BY <1>1 DEF Answered
<1>3. FailedShape(new)
  BY <1>2 DEF Answered, FailedShape
<1> QED
  BY <1>2, <1>3

\* Where the process is at the beginning of an hour and in it.
LEMMA HourOpened ==
    ASSUME HourlyInv, proc.pc \in {"hour", "executors"}
    PROVE  LET source == Origin(runs, proc.run)
               n == Imported(Me, source)
               d == Len(Me.decisions)
           IN  /\ Me \in Directories /\ proc \in Processes /\ Me.end = "open"
               /\ proc.run \in Nat \ {0} /\ proc.run \in DOMAIN runs /\ n \in Nat /\ d \in Nat
               /\ Shape(Me, proc.run) /\ PrefixShape(Me, proc.run, source, n)
               /\ Evaluating(proc, Me, source) /\ HourOpen(proc, Me, source)
               /\ BetweenHours(proc, Me) /\ d < Hours
               /\ proc.step = d * StepsPerHour /\ Hour = d
               /\ Replaying <=> d < n
               /\ Asked(Me, source) <=> n <= d
<1> DEFINE source == Origin(runs, proc.run)
           n == Imported(Me, source)
           d == Len(Me.decisions)
<1>1. /\ Me \in Directories /\ proc \in Processes /\ Me.end = "open" /\ proc.run \in Nat \ {0}
      /\ proc.run \in DOMAIN runs /\ n \in Nat /\ ProcShape(proc, Me, source)
      /\ DirectoryInv(Me, proc.run, source)
  BY Running, Sources DEF Me
<1>2. d \in Nat
  BY <1>1, Streams
<1>3. /\ Shape(Me, proc.run) /\ PrefixShape(Me, proc.run, source, n)
      /\ Me.cut = n * StepsPerHour
  BY <1>1 DEF DirectoryInv, Started
<1>4. Evaluating(proc, Me, source) /\ HourOpen(proc, Me, source)
  BY <1>1 DEF ProcShape
<1>5. BetweenHours(proc, Me) /\ d < Hours
  BY <1>4 DEF HourOpen
<1>6. proc.step = d * StepsPerHour
  BY <1>5 DEF BetweenHours
<1> HIDE DEF n, d
<1>7. Hour = d /\ (proc.step < n * StepsPerHour <=> d < n)
  <2>1. /\ StepsPerHour \in Nat \ {0} /\ d * StepsPerHour \in Nat
        /\ (d + 1) * StepsPerHour = d * StepsPerHour + StepsPerHour
    <3>1. StepsPerHour \in Nat \ {0}
      BY ZoneCount
    <3> QED
      BY <1>2, <3>1, Multiples
  <2>2. /\ proc.step \in Nat /\ d * StepsPerHour <= proc.step
        /\ proc.step < (d + 1) * StepsPerHour
    BY <1>6, <2>1
  <2> QED
    BY <1>1, <1>2, <2>2, HourIs DEF Hour
<1>8. Replaying <=> d < n
  BY <1>3, <1>7 DEF Replaying
<1>9. Asked(Me, source) <=> n <= d
  BY DEF Asked, n, d
<1> QED
  BY <1>1, <1>2, <1>3, <1>4, <1>5, <1>6, <1>7, <1>8, <1>9 DEF n, d

\* A request that fails alone, as an hour's first or last.
LEMMA CallFails ==
    ASSUME HourlyInv, proc.pc # "idle", NEW call \in CallRows, ~call.ok, call.by = proc.run,
           CallPlaced(call, Len(Me.calls) + 1), Answered(Me),
           Broken(<<call>>, "terminal_transport_error"),
           LET d == Len(Me.decisions)
           IN  /\ Len(Me.calls) + 1 \in {d * CallsPerHour + 1, (d + 1) * CallsPerHour}
               /\ Imported(Me, Origin(runs, proc.run)) * CallsPerHour <= Len(Me.calls)
    PROVE  HourlyInv'
<1> DEFINE source == Origin(runs, proc.run)
           n == Imported(Me, source)
           more == <<call>>
           m == Len(Me.calls)
           r == proc.run
<1>1. Me \in Directories /\ n \in Nat /\ Shape(Me, r) /\ PrefixShape(Me, r, source, n)
  BY Running, Sources DEF Me, DirectoryInv
<1>2. Me.calls \in Seq(CallRows) /\ DOMAIN Me.calls = 1 .. m /\ m \in Nat
  BY <1>1, Streams
<1>3. more \in Seq(CallRows) /\ Len(more) = 1 /\ \A k \in 1 .. 1 : more[k] = call
  BY OneMore
<1>4. \A k \in 1 .. Len(more) : CallPlaced(more[k], m + k) /\ more[k].by = r
  BY <1>3
<1>5. Broken(more, "terminal_transport_error")
  OBVIOUS
<1>6. n * CallsPerHour <= m
  OBVIOUS
<1> HIDE DEF more, n, source
<1>7. ASSUME NEW new, new \in Directories, new.calls = Me.calls \o more,
             new.updates = Me.updates, new.steps = Me.steps, new.caol = Me.caol,
             new.decisions = Me.decisions, new.ckpt = Me.ckpt,
             new.retries = RetriesOf(new.calls)
      PROVE  Shape(new, r) /\ PrefixShape(new, r, source, n)
  <2>1. Len(Me.calls \o more) = m + 1
    BY <1>2, <1>3, Appended
  <2>2. DOMAIN (Me.calls \o more) = 1 .. m + 1
    BY <1>2, <1>3, Appended
  <2>3. \A i \in DOMAIN Me.calls : (Me.calls \o more)[i] = Me.calls[i]
    BY <1>2, <1>3, Appended
  <2>4. Len(new.calls) = m + 1 /\ \A i \in DOMAIN new.calls : i < m + 1 => new.calls[i].ok
    <3>1. \A i \in 1 .. m : Me.calls[i].ok
      BY <1>2 DEF Answered
    <3> QED
      BY <1>2, <1>7, <2>1, <2>2, <2>3, <3>1
  <2>5. FailedShape(new)
    <3>1. Len(new.calls) \in {Len(new.decisions) * CallsPerHour + 1,
                              (Len(new.decisions) + 1) * CallsPerHour}
      BY <1>7, <2>4
    <3> QED
      BY <1>7, <2>4, <3>1 DEF FailedShape
  <2> HIDE DEF m, r
  <2> QED
    BY <1>1, <1>3, <1>4, <1>6, <1>7, <2>5, CallsIssued DEF m
<1>8. LET error == "terminal_transport_error"
      IN  error \in {"terminal_transport_error", "terminal_runtime_error"}
  OBVIOUS
<1> QED
  BY <1>3, <1>5, <1>7, Breaks DEF n, source

LEMMA OrchestrateStep ==
    ASSUME HourlyInv, Orchestrate
    PROVE  HourlyInv'
<1> DEFINE source == Origin(runs, proc.run)
           n == Imported(Me, source)
           d == Len(Me.decisions)
           r == proc.run
<1>1. /\ proc.pc = "hour" /\ Me \in Directories /\ proc \in Processes /\ Me.end = "open"
      /\ r \in Nat \ {0} /\ r \in DOMAIN runs /\ n \in Nat /\ d \in Nat
      /\ Shape(Me, r) /\ PrefixShape(Me, r, source, n)
      /\ Evaluating(proc, Me, source) /\ HourOpen(proc, Me, source)
      /\ BetweenHours(proc, Me) /\ d < Hours /\ Hour = d /\ n <= d /\ Asked(Me, source)
  <2>1. proc.pc = "hour" /\ ~Replaying
    BY DEF Orchestrate
  <2>2. /\ Me \in Directories /\ proc \in Processes /\ Me.end = "open"
        /\ r \in Nat \ {0} /\ r \in DOMAIN runs /\ n \in Nat /\ d \in Nat
        /\ Shape(Me, r) /\ PrefixShape(Me, r, source, n)
        /\ Evaluating(proc, Me, source) /\ HourOpen(proc, Me, source)
        /\ BetweenHours(proc, Me) /\ d < Hours /\ Hour = d
        /\ Replaying <=> d < n
        /\ Asked(Me, source) <=> n <= d
    BY <2>1, HourOpened
  <2>3. n <= d
    BY <2>1, <2>2
  <2> QED
    BY <2>1, <2>2, <2>3
<1>2. PICK a \in Answers :
         LET call == Call(Hour, "orchestrator", a.tries, a.ok, a.good)
         IN IF a.ok
               THEN /\ runs' = [runs EXCEPT ![proc.run].calls = Append(@, call)]
                    /\ proc' = [proc EXCEPT
                           !.pc = "executors", !.fell = ~a.good,
                           !.prev = IF a.good THEN <<proc.run, Hour>> ELSE @,
                           !.fallbacks = IF a.good THEN @ ELSE @ + 1]
               ELSE Broken(<<call>>, "terminal_transport_error")
  BY DEF Orchestrate
<1> DEFINE call == Call(Hour, "orchestrator", a.tries, a.ok, a.good)
           more == <<call>>
<1>3. /\ Len(Me.calls) = d * CallsPerHour /\ proc.prev = LastAllocation(Me)
      /\ CallsPerHour \in Nat \ {0} /\ d * CallsPerHour \in Nat
      /\ n * CallsPerHour <= d * CallsPerHour
  <2>1. CallsPerHour \in Nat \ {0}
    BY ZoneCount
  <2>2. d * CallsPerHour \in Nat /\ n * CallsPerHour <= d * CallsPerHour
    BY <1>1, <2>1, Multiples
  <2>3. Len(Me.calls) = d * CallsPerHour /\ proc.prev = LastAllocation(Me)
    BY <1>1 DEF HourOpen
  <2> QED
    BY <2>1, <2>2, <2>3
<1>4. /\ CallPlaced(call, d * CallsPerHour + 1) /\ call \in CallRows
      /\ call.ok = a.ok /\ call.good = a.good /\ call.by = r /\ a.ok \in BOOLEAN
      /\ a.good \in BOOLEAN
  <2>1. CallPlaced(call, d * CallsPerHour + 1) /\ call \in CallRows
    BY <1>1, CallAt
  <2>2. call.ok = a.ok /\ call.good = a.good /\ call.by = r
    BY DEF Call
  <2>3. a.ok \in BOOLEAN /\ a.good \in BOOLEAN
    BY DEF Answers
  <2> QED
    BY <2>1, <2>2, <2>3
<1>5. IF a.ok
      THEN /\ runs' = [runs EXCEPT ![proc.run].calls = Append(@, call)]
           /\ proc' = [proc EXCEPT
                  !.pc = "executors", !.fell = ~a.good,
                  !.prev = IF a.good THEN <<proc.run, d>> ELSE @,
                  !.fallbacks = IF a.good THEN @ ELSE @ + 1]
      ELSE Broken(more, "terminal_transport_error")
  BY <1>1, <1>2
<1>6. Me.calls \in Seq(CallRows) /\ DOMAIN Me.calls = 1 .. Len(Me.calls)
  BY <1>1, Streams
<1>11. Answered(Me)
  BY <1>1 DEF Evaluating
<1> HIDE DEF call
<1>7. more \in Seq(CallRows) /\ Len(more) = 1 /\ \A k \in 1 .. 1 : more[k] = call
  BY <1>4, OneMore
<1>8. \A k \in 1 .. Len(more) : CallPlaced(more[k], Len(Me.calls) + k) /\ more[k].by = r
  BY <1>3, <1>4, <1>7
<1> DEFINE s == Append(Me.calls, call)
<1>9. s = Me.calls \o more
  BY <1>4, <1>6, OneMore
<1>10. /\ s \in Seq(CallRows) /\ Len(s) = d * CallsPerHour + 1
       /\ s[d * CallsPerHour + 1] = call
  <2>1. /\ s \in Seq(CallRows) /\ Len(s) = Len(Me.calls) + 1 /\ s[Len(Me.calls) + 1] = call
    BY <1>4, <1>6, OneMore
  <2> QED
    BY <1>3, <2>1
<1>12. CASE a.ok
  <2> DEFINE new == [Me EXCEPT !.calls = s]
             prev == IF a.good THEN <<r, d>> ELSE proc.prev
             fallbacks == IF a.good THEN proc.fallbacks ELSE proc.fallbacks + 1
             p == [proc EXCEPT !.pc = "executors", !.fell = ~a.good, !.prev = prev,
                               !.fallbacks = fallbacks]
  <2>1. runs' = [runs EXCEPT ![proc.run] = new] /\ proc' = p
    BY <1>5, <1>12 DEF Me
  <2> HIDE DEF s, more
  <2>2. /\ new \in Directories /\ new.calls = s /\ new.updates = Me.updates
        /\ new.steps = Me.steps /\ new.caol = Me.caol /\ new.decisions = Me.decisions
        /\ new.ckpt = Me.ckpt /\ new.src = Me.src /\ new.cut = Me.cut /\ new.end = Me.end
        /\ new.resume = Me.resume /\ new.dispatch = Me.dispatch /\ new.lifecycle = Me.lifecycle
    BY <1>1, <1>10 DEF Directories
  <2>3. /\ p \in Processes /\ p.pc = "executors" /\ p.run = proc.run /\ p.step = proc.step
        /\ p.versions = proc.versions /\ p.fell = ~a.good
        /\ p.prev = IF a.good THEN <<r, d>> ELSE proc.prev
    <3>1. prev \in Nat \X Nat /\ fallbacks \in Nat
      BY <1>1 DEF Processes
    <3>2. (~a.good) \in BOOLEAN
      BY <1>4
    <3> HIDE DEF prev, fallbacks
    <3>3. p \in Processes
      BY <1>1, <3>1, <3>2 DEF Processes, Pcs
    <3>4. /\ p.pc = "executors" /\ p.run = proc.run /\ p.step = proc.step
          /\ p.versions = proc.versions /\ p.fell = ~a.good /\ p.prev = prev
      BY <1>1 DEF Processes
    <3> QED
      BY <3>3, <3>4 DEF prev
  <2> HIDE DEF new, p
  <2>4. Answered(new) /\ FailedShape(new)
    <3>1. \A k \in 1 .. Len(more) : more[k].ok
      BY <1>4, <1>7, <1>12
    <3>2. new.calls = Me.calls \o more
      BY <1>9, <2>2
    <3> QED
      BY <1>6, <1>7, <1>11, <3>1, <3>2, AnsweredMore
  <2>5. Shape(new, r) /\ PrefixShape(new, r, source, n)
    <3>1. n * CallsPerHour <= Len(Me.calls) /\ new.calls = Me.calls \o more
      BY <1>3, <1>9, <2>2
    <3> HIDE DEF n, r, source
    <3> QED
      BY <1>1, <1>7, <1>8, <2>2, <2>4, <3>1, CallsIssued
  <2>6. Asked(new, source)
    BY <1>1, <2>2 DEF Asked, Imported
  <2>7. Evaluating(p, new, source)
    BY <1>1, <2>2, <2>4, <2>6 DEF Evaluating, Resumed
  <2>8. Given(p, new, source)
    <3>1. new.calls[d * CallsPerHour + 1] = call /\ Len(new.decisions) = d
          /\ LastAllocation(new) = LastAllocation(Me)
      BY <1>10, <2>2 DEF LastAllocation
    <3>2. p.fell = ~call.good
      BY <1>4, <2>3
    <3>3. d + 1 - 1 = d
      BY <1>1
    <3>4. p.prev = Allocated(call, d + 1, LastAllocation(new))
      BY <1>3, <1>4, <2>3, <3>1, <3>3 DEF Allocated
    <3> QED
      BY <2>6, <3>1, <3>2, <3>4 DEF Given
  <2>9. BetweenHours(p, new)
    BY <1>1, <2>2, <2>3 DEF BetweenHours, LastVersions
  <2>10. HourOpen(p, new, source)
    BY <1>1, <1>10, <2>2, <2>3, <2>6, <2>8, <2>9 DEF HourOpen
  <2>11. ProcShape(p, new, source)
    BY <2>3, <2>7, <2>10 DEF ProcShape
  <2>12. Ended(new, source)
    BY <1>1, <2>2, OpenEnded
  <2> QED
    BY <1>1, <2>1, <2>2, <2>3, <2>5, <2>11, <2>12, Writes
<1>13. CASE ~a.ok
  <2>1. Broken(<<call>>, "terminal_transport_error")
    BY <1>5, <1>13
  <2>2. CallPlaced(call, Len(Me.calls) + 1) /\ n * CallsPerHour <= Len(Me.calls)
        /\ Len(Me.calls) + 1 \in {d * CallsPerHour + 1, (d + 1) * CallsPerHour}
    BY <1>3, <1>4
  <2>3. proc.pc # "idle" /\ ~call.ok /\ call.by = proc.run /\ call \in CallRows
    BY <1>1, <1>4, <1>13
  <2> QED
    BY <1>11, <2>1, <2>2, <2>3, CallFails
<1> QED
  BY <1>12, <1>13

\* An hour's updates, in a directory that holds those of the hours closed.
HourUpdates(run, more, source, n) ==
    LET d == Len(run.decisions)
    IN  /\ Len(run.updates) = d * Z /\ Len(more) = Z
        /\ \A k \in 1 .. Z :
              /\ more[k].hour = d /\ more[k].zone = ZoneSeq[k]
              /\ more[k].before = IF run.decisions = << >> THEN 0
                                  ELSE run.decisions[d].versions[ZoneSeq[k]]
              /\ d < n => more[k] = source.updates[d * Z + k]

LEMMA UpdatesIssued ==
    ASSUME NEW run \in Directories, NEW new \in Directories, NEW r, NEW source, NEW n \in Nat,
           NEW more \in Seq(UpdateRows), Shape(run, r), PrefixShape(run, r, source, n),
           new.updates = run.updates \o more, new.calls = run.calls, new.steps = run.steps,
           new.caol = run.caol, new.decisions = run.decisions, new.ckpt = run.ckpt,
           HourUpdates(run, more, source, n), FailedShape(new)
    PROVE  /\ Shape(new, r) /\ PrefixShape(new, r, source, n)
           /\ Len(new.updates) = Len(run.updates) + Z
           /\ \A k \in 1 .. Z : new.updates[Len(run.updates) + k] = more[k]
<1>1. UpdatesShape(run)
  BY DEF Shape
<1>2. UpdatesShape(new)
  BY <1>1, UpdatesAdded DEF HourUpdates
<1>3. /\ DecisionsShape(new) /\ StepsShape(new, r) /\ MemoryShape(new) /\ CallsShape(new)
      /\ AllocationsShape(new) /\ CheckpointShape(new, r)
  BY DEF Shape, DecisionsShape, StepsShape, MemoryShape, CallsShape, AllocationsShape,
         CheckpointShape
<1>4. Shape(new, r)
  BY <1>2, <1>3 DEF Shape
<1>5. run.updates \in Seq(UpdateRows) /\ Z \in Nat \ {0}
  BY Streams, ZoneCount
<1>6. n * Z \in Nat
  BY <1>5, Multiples
<1>7. Copied(run.updates, source.updates, n * Z)
  BY DEF PrefixShape
<1>8. Copied(run.updates \o more, source.updates, n * Z)
  <2>1. ASSUME NEW k \in 1 .. Len(more), Len(run.updates) + k <= n * Z
        PROVE  more[k] = source.updates[Len(run.updates) + k]
    <3> DEFINE d == Len(run.decisions)
    <3>1. d \in Nat /\ k \in Nat \ {0} /\ k \in 1 .. Z /\ Len(run.updates) = d * Z
      BY Streams, ZoneCount DEF HourUpdates
    <3>6. d < n => more[k] = source.updates[d * Z + k]
      BY <3>1 DEF HourUpdates
    <3> HIDE DEF d
    <3>2. n <= d => n * Z <= d * Z
      BY <1>5, <3>1, Multiples
    <3>3. d * Z \in Nat
      BY <1>5, <3>1, Multiples
    <3> DEFINE x == n * Z
               y == d * Z
    <3>4. y + k <= x /\ x \in Nat /\ y \in Nat /\ (n <= d => x <= y)
      BY <1>6, <2>1, <3>1, <3>2, <3>3
    <3> HIDE DEF x, y
    <3>5. d < n
      BY <3>1, <3>4
    <3> QED
      BY <3>1, <3>5, <3>6
  <2> QED
    BY <1>5, <1>6, <1>7, <2>1, CopiedMore
<1>9. PrefixShape(new, r, source, n)
  BY <1>8 DEF PrefixShape
<1>10. /\ Len(new.updates) = Len(run.updates) + Z
       /\ \A k \in 1 .. Z : new.updates[Len(run.updates) + k] = more[k]
  <2> DEFINE s == new.updates
             rows == run.updates
  <2>1. s = rows \o more /\ rows \in Seq(UpdateRows)
    BY <1>5
  <2>2. Len(more) = Z
    BY DEF HourUpdates
  <2> HIDE DEF s, rows
  <2>3. \A k \in 1 .. Len(more) : s[Len(rows) + k] = more[k]
    BY <2>1, JoinedNext
  <2>4. Len(s) = Len(rows) + Len(more)
    BY <2>1, Joined
  <2> QED
    BY <2>2, <2>3, <2>4 DEF s, rows
<1> QED
  BY <1>2, <1>4, <1>9, <1>10

\* A batch that was issued whole and failed.
LEMMA BatchFails ==
    ASSUME HourlyInv, proc.pc # "idle", NEW calls \in Seq(CallRows), Len(calls) = Z,
           \A k \in 1 .. Z : /\ CallPlaced(calls[k], Len(Me.calls) + k)
                             /\ calls[k].by = proc.run,
           Answered(Me), Broken(calls, "terminal_transport_error"),
           LET d == Len(Me.decisions)
           IN  /\ Len(Me.calls) = d * CallsPerHour + 1
               /\ Imported(Me, Origin(runs, proc.run)) * CallsPerHour <= Len(Me.calls)
               /\ Len(Me.updates) = d * Z /\ Len(Me.steps) = d * StepsPerHour
    PROVE  HourlyInv'
<1> DEFINE source == Origin(runs, proc.run)
           n == Imported(Me, source)
           m == Len(Me.calls)
           r == proc.run
<1>1. Me \in Directories /\ n \in Nat /\ Shape(Me, r) /\ PrefixShape(Me, r, source, n)
  BY Running, Sources DEF Me, DirectoryInv
<1>2. Me.calls \in Seq(CallRows) /\ DOMAIN Me.calls = 1 .. m /\ m \in Nat /\ Z \in Nat
  BY <1>1, Streams, ZoneCount
<1>6. n * CallsPerHour <= m
  OBVIOUS
<1>4. \A k \in 1 .. Len(calls) : CallPlaced(calls[k], m + k) /\ calls[k].by = r
  OBVIOUS
<1> HIDE DEF n, source
<1>7. ASSUME NEW new, new \in Directories, new.calls = Me.calls \o calls,
             new.updates = Me.updates, new.steps = Me.steps, new.caol = Me.caol,
             new.decisions = Me.decisions, new.ckpt = Me.ckpt,
             new.retries = RetriesOf(new.calls)
      PROVE  Shape(new, r) /\ PrefixShape(new, r, source, n)
  <2>1. Len(Me.calls \o calls) = m + Z
    BY <1>2, Appended
  <2>3. \A i \in DOMAIN Me.calls : (Me.calls \o calls)[i] = Me.calls[i]
    BY <1>2, Appended
  <2>4. Len(new.calls) = m + Z /\ \A i \in 1 .. m : new.calls[i].ok
    <3>1. \A i \in 1 .. m : Me.calls[i].ok
      BY <1>2 DEF Answered
    <3> QED
      BY <1>2, <1>7, <2>1, <2>3, <3>1
  <2>5. FailedShape(new)
    <3>1. m = Len(new.decisions) * CallsPerHour + 1
      BY <1>7
    <3>2. /\ Len(new.updates) = Len(new.decisions) * Z
          /\ Len(new.steps) = Len(new.decisions) * StepsPerHour
      BY <1>7
    <3> HIDE DEF m
    <3>3. /\ Len(new.calls) = Len(new.decisions) * CallsPerHour + 1 + Z
          /\ \A i \in 1 .. Len(new.decisions) * CallsPerHour + 1 : new.calls[i].ok
      BY <2>4, <3>1
    <3> QED
      BY <1>7, <3>2, <3>3 DEF FailedShape
  <2> HIDE DEF m, r
  <2> QED
    BY <1>1, <1>4, <1>6, <1>7, <2>5, CallsIssued DEF m
<1> QED
  BY <1>7, Breaks DEF n, source

LEMMA ExecutorBatchStep ==
    ASSUME HourlyInv, ExecutorBatch
    PROVE  HourlyInv'
<1> DEFINE source == Origin(runs, proc.run)
           n == Imported(Me, source)
           d == Len(Me.decisions)
           r == proc.run
<1>1. /\ proc.pc = "executors" /\ Me \in Directories /\ proc \in Processes /\ Me.end = "open"
      /\ r \in Nat \ {0} /\ r \in DOMAIN runs /\ n \in Nat /\ d \in Nat
      /\ Shape(Me, r) /\ PrefixShape(Me, r, source, n)
      /\ Evaluating(proc, Me, source) /\ HourOpen(proc, Me, source)
      /\ BetweenHours(proc, Me) /\ d < Hours /\ proc.step = d * StepsPerHour /\ Hour = d
      /\ Asked(Me, source) <=> n <= d
  BY HourOpened DEF ExecutorBatch
<1>2. /\ Asked(Me, source) /\ Given(proc, Me, source) /\ n <= d
      /\ Len(Me.calls) = d * CallsPerHour + 1 /\ Answered(Me)
      /\ Len(Me.updates) = d * Z /\ Len(Me.steps) = d * StepsPerHour
      /\ proc.versions = LastVersions(Me)
  BY <1>1 DEF HourOpen, BetweenHours, Evaluating
<1>3. /\ CallsPerHour \in Nat \ {0} /\ Z \in Nat \ {0} /\ StepsPerHour \in Nat \ {0}
      /\ CallsPerHour = Z + 2 /\ d * CallsPerHour \in Nat /\ d * StepsPerHour \in Nat
      /\ n * CallsPerHour <= d * CallsPerHour /\ n * Z <= d * Z /\ d * Z \in Nat /\ n * Z \in Nat
      /\ (d + 1) * CallsPerHour = d * CallsPerHour + CallsPerHour
      /\ (d + 1) * StepsPerHour = d * StepsPerHour + StepsPerHour
  <2>1. /\ CallsPerHour \in Nat \ {0} /\ Z \in Nat \ {0} /\ StepsPerHour \in Nat \ {0}
        /\ CallsPerHour = Z + 2
    BY ZoneCount
  <2> HIDE DEF d, n
  <2>2. /\ d * CallsPerHour \in Nat /\ n * CallsPerHour <= d * CallsPerHour
        /\ (d + 1) * CallsPerHour = d * CallsPerHour + CallsPerHour
    <3>1. d \in Int /\ n \in Int /\ d >= 0 /\ n <= d /\ CallsPerHour \in Nat \ {0}
      BY <1>1, <1>2, <2>1
    <3>2. d * CallsPerHour \in Nat /\ (d + 1) * CallsPerHour = d * CallsPerHour + CallsPerHour
      BY <3>1, Multiples
    <3>3. n * CallsPerHour <= d * CallsPerHour
      BY <3>1, Multiples
    <3> QED
      BY <3>2, <3>3
  <2>3. d * Z \in Nat /\ n * Z <= d * Z /\ n * Z \in Nat
    BY <1>1, <1>2, <2>1, Multiples
  <2>4. /\ d * StepsPerHour \in Nat
        /\ (d + 1) * StepsPerHour = d * StepsPerHour + StepsPerHour
    BY SMTT(30), <1>1, <2>1, Multiples
  <2> QED
    BY <2>1, <2>2, <2>3, <2>4
<1>4. PICK answers \in [Zones -> Answers], changed \in SUBSET Changing :
         LET calls == [i \in DOMAIN ZoneSeq |->
                          LET a == answers[ZoneSeq[i]]
                          IN Call(Hour, ZoneSeq[i], a.tries, a.ok, a.good)]
             updates == [i \in DOMAIN ZoneSeq |->
                            Settled(ZoneSeq[i], answers[ZoneSeq[i]].good, ZoneSeq[i] \in changed)]
         IN /\ \A z \in changed : answers[z].good /\ proc.versions[z] < MaxVersion
            /\ IF \A z \in Zones : answers[z].ok
                  THEN /\ runs' = [runs EXCEPT ![proc.run].calls = @ \o calls,
                                               ![proc.run].updates = @ \o updates]
                       /\ proc' = [proc EXCEPT !.pc = "step",
                              !.versions = [z \in Zones |->
                                  proc.versions[z] + (IF z \in changed THEN 1 ELSE 0)]]
                  ELSE changed = {} /\ Broken(calls, "terminal_transport_error")
  BY DEF ExecutorBatch
<1> DEFINE calls == [i \in DOMAIN ZoneSeq |->
                       LET a == answers[ZoneSeq[i]]
                       IN Call(Hour, ZoneSeq[i], a.tries, a.ok, a.good)]
           updates == [i \in DOMAIN ZoneSeq |->
                         Settled(ZoneSeq[i], answers[ZoneSeq[i]].good, ZoneSeq[i] \in changed)]
           versions == [z \in Zones |-> proc.versions[z] + (IF z \in changed THEN 1 ELSE 0)]
<1>5. IF \A z \in Zones : answers[z].ok
      THEN /\ runs' = [runs EXCEPT ![proc.run].calls = @ \o calls,
                                   ![proc.run].updates = @ \o updates]
           /\ proc' = [proc EXCEPT !.pc = "step", !.versions = versions]
      ELSE Broken(calls, "terminal_transport_error")
  BY <1>4
<1>6. /\ calls \in Seq(CallRows) /\ Len(calls) = Z
      /\ \A k \in 1 .. Z :
            /\ CallPlaced(calls[k], d * CallsPerHour + (1 + k))
            /\ calls[k].by = r /\ calls[k].ok = answers[ZoneSeq[k]].ok
      /\ updates \in Seq(UpdateRows) /\ Len(updates) = Z
      /\ \A k \in 1 .. Z :
            /\ updates[k].hour = d /\ updates[k].zone = ZoneSeq[k]
            /\ updates[k].before = proc.versions[ZoneSeq[k]]
            /\ updates[k].after = versions[ZoneSeq[k]]
      /\ versions \in Programs
  <2>0. \A z \in changed : answers[z].good
    BY <1>4
  <2>1. /\ DOMAIN ZoneSeq = 1 .. Z /\ Z \in Nat /\ \A k \in 1 .. Z : ZoneSeq[k] \in Zones
    BY ZoneCount
  <2>2. proc.run \in Nat /\ proc.versions \in [Zones -> Nat]
    BY <1>1 DEF Processes, Programs
  <2>3. ASSUME NEW k \in 1 .. Z
        PROVE  /\ CallPlaced(calls[k], Hour * CallsPerHour + (1 + k)) /\ calls[k] \in CallRows
               /\ calls[k].by = proc.run /\ calls[k].ok = answers[ZoneSeq[k]].ok
    <3> DEFINE a == answers[ZoneSeq[k]]
    <3>1. a \in Answers /\ ZoneSeq[k] \in Zones
      BY <2>1
    <3>2. calls[k] = Call(Hour, ZoneSeq[k], a.tries, a.ok, a.good)
      BY <2>1
    <3> HIDE DEF a, calls
    <3>3. CallPlaced(calls[k], Hour * CallsPerHour + (1 + k)) /\ calls[k] \in CallRows
      BY <1>1, <2>2, <3>1, <3>2, CallAt
    <3>4. calls[k].by = proc.run /\ calls[k].ok = a.ok
      BY <3>2 DEF Call
    <3> QED
      BY <3>3, <3>4 DEF a
  <2>4. calls \in Seq(CallRows) /\ Len(calls) = Z
    <3>1. calls = [k \in 1 .. Z |-> calls[k]]
      BY <2>1
    <3> HIDE DEF calls
    <3>2. calls \in [1 .. Z -> CallRows]
      BY <2>3, <3>1
    <3> QED
      BY <2>1, <3>2
  <2>5. versions \in Programs
    BY <2>2 DEF Programs
  <2>6. ASSUME NEW k \in 1 .. Z
        PROVE  /\ updates[k].hour = Hour /\ updates[k].zone = ZoneSeq[k]
               /\ updates[k].before = proc.versions[ZoneSeq[k]]
               /\ updates[k].after = versions[ZoneSeq[k]] /\ updates[k] \in UpdateRows
    <3> DEFINE z == ZoneSeq[k]
               u == updates[k]
    <3>1. z \in Zones /\ proc.versions[z] \in Nat /\ versions[z] \in Nat
      BY <2>1, <2>2
    <3>2. u = Settled(z, answers[z].good, z \in changed)
      BY <2>1
    <3>3. answers[z].good \in BOOLEAN
      <4>1. answers[z] \in Answers
        BY <3>1
      <4> QED
        BY <4>1 DEF Answers
    <3>4. versions[z] = IF z \in changed THEN proc.versions[z] + 1 ELSE proc.versions[z]
      BY <3>1
    <3>5. (answers[z].good /\ z \in changed) <=> z \in changed
      BY <2>0
    <3> HIDE DEF u, z, updates, versions
    <3>6. /\ u.hour = Hour /\ u.zone = z /\ u.before = proc.versions[z] /\ u.after = versions[z]
          /\ u \in UpdateRows
      BY <1>1, <3>1, <3>2, <3>3, <3>4, <3>5 DEF Settled, UpdateRows
    <3> QED
      BY <3>6 DEF u, z
  <2>7. updates \in Seq(UpdateRows) /\ Len(updates) = Z
    <3>1. updates = [k \in 1 .. Z |-> updates[k]]
      BY <2>1
    <3> HIDE DEF updates
    <3>2. updates \in [1 .. Z -> UpdateRows]
      BY <2>6, <3>1
    <3> QED
      BY <2>1, <3>2
  <2> HIDE DEF calls, updates, versions, d
  <2> QED
    BY SMTT(30), <1>1, <2>3, <2>4, <2>5, <2>6, <2>7
<1> HIDE DEF calls, updates, versions
<1>7. \A k \in 1 .. Z : CallPlaced(calls[k], Len(Me.calls) + k)
  <2>1. \A k \in 1 .. Z : d * CallsPerHour + (1 + k) = Len(Me.calls) + k
    <3> DEFINE x == d * CallsPerHour
    <3>1. x \in Nat /\ Len(Me.calls) = x + 1
      BY <1>2, <1>3
    <3> HIDE DEF x
    <3>2. \A k \in 1 .. Z : x + (1 + k) = Len(Me.calls) + k
      BY <1>3, <3>1
    <3> QED
      BY <3>2 DEF x
  <2> QED
    BY <1>6, <2>1
<1>8. n * CallsPerHour <= Len(Me.calls)
  <2> DEFINE x == n * CallsPerHour
             y == d * CallsPerHour
  <2>1. x <= y /\ y \in Nat /\ Len(Me.calls) = y + 1 /\ x \in Int
    <3>1. n * CallsPerHour \in Int
      BY <1>1, <1>3, Multiples
    <3> QED
      BY <1>2, <1>3, <3>1
  <2> HIDE DEF x, y
  <2>2. x <= Len(Me.calls)
    BY <2>1
  <2> QED
    BY <2>2 DEF x
<1>9. Me.calls \in Seq(CallRows) /\ Me.updates \in Seq(UpdateRows)
  BY <1>1, Streams
<1>10. CASE \A z \in Zones : answers[z].ok
  <2> DEFINE s == Me.calls \o calls
             u == Me.updates \o updates
             mid == [Me EXCEPT !.calls = s]
             new == [mid EXCEPT !.updates = u]
             p == [proc EXCEPT !.pc = "step", !.versions = versions]
  <2>1. runs' = [runs EXCEPT ![proc.run] = new] /\ proc' = p
    BY <1>5, <1>10 DEF Me
  <2>2. s \in Seq(CallRows) /\ u \in Seq(UpdateRows)
    BY <1>6, <1>9, Appended
  <2>3. Len(s) = Len(Me.calls) + Z
    BY <1>6, <1>9, Appended
  <2>4. \A i \in DOMAIN Me.calls : s[i] = Me.calls[i]
    BY <1>6, <1>9, Appended
  <2>5. s[d * CallsPerHour + 1] = Me.calls[d * CallsPerHour + 1]
        /\ Len(s) = (d + 1) * CallsPerHour - 1
    <3> DEFINE x == d * CallsPerHour + 1
    <3>1. x \in Nat \ {0} /\ Len(Me.calls) = x /\ DOMAIN Me.calls = 1 .. x
      <4>1. Len(Me.calls) = x /\ x \in Nat \ {0}
        <5> DEFINE y == d * CallsPerHour
        <5>1. y \in Nat /\ Len(Me.calls) = y + 1
          BY <1>2, <1>3
        <5>2. x = y + 1
          OBVIOUS
        <5> HIDE DEF x, y
        <5> QED
          BY <5>1, <5>2
      <4>2. DOMAIN Me.calls = 1 .. Len(Me.calls)
        BY <1>1, Streams
      <4> HIDE DEF x
      <4> QED
        BY <4>1, <4>2
    <3>2. s[x] = Me.calls[x]
      <4> HIDE DEF x, s
      <4> QED
        BY <2>4, <3>1
    <3>3. Len(s) = (d + 1) * CallsPerHour - 1
      <4> DEFINE y == d * CallsPerHour
                 w == (d + 1) * CallsPerHour
      <4>1. /\ y \in Nat /\ w = y + CallsPerHour /\ CallsPerHour = Z + 2 /\ Z \in Nat
            /\ Len(Me.calls) = y + 1 /\ Len(s) = Len(Me.calls) + Z
        BY <1>2, <1>3, <2>3
      <4> HIDE DEF s, y, w
      <4>2. Len(s) = w - 1
        BY <4>1
      <4> QED
        BY <4>2 DEF w
    <3> QED
      BY <3>2, <3>3
  <2>6. \A k \in 1 .. Len(calls) : calls[k].ok
    BY ZenonT(40), <1>6, <1>10, ZoneCount
  <2> HIDE DEF s, u
  <2>7. /\ mid \in Directories /\ mid.calls = Me.calls \o calls /\ mid.updates = Me.updates
        /\ mid.steps = Me.steps /\ mid.caol = Me.caol /\ mid.decisions = Me.decisions
        /\ mid.ckpt = Me.ckpt
    BY <1>1, <2>2 DEF Directories, s
  <2>8. /\ new \in Directories /\ new.calls = mid.calls /\ new.updates = u
        /\ new.steps = mid.steps /\ new.caol = mid.caol /\ new.decisions = mid.decisions
        /\ new.ckpt = mid.ckpt /\ new.src = Me.src /\ new.cut = Me.cut /\ new.end = Me.end
        /\ new.resume = Me.resume /\ new.dispatch = Me.dispatch /\ new.lifecycle = Me.lifecycle
    BY <1>1, <2>2, <2>7 DEF Directories
  <2>9. /\ p \in Processes /\ p.pc = "step" /\ p.run = proc.run /\ p.step = proc.step
        /\ p.versions = versions /\ p.fell = proc.fell /\ p.prev = proc.prev
    BY <1>1, <1>6 DEF Processes, Pcs
  <2> HIDE DEF mid, new, p
  <2>10. Answered(mid) /\ FailedShape(mid)
    BY <1>2, <1>6, <1>9, <2>6, <2>7, AnsweredMore
  <2>11. Answered(new) /\ FailedShape(new)
    BY <2>8, <2>10 DEF Answered, FailedShape
  <2>12. Shape(mid, r) /\ PrefixShape(mid, r, source, n)
    <3>1. \A k \in 1 .. Len(calls) : CallPlaced(calls[k], Len(Me.calls) + k) /\ calls[k].by = r
      BY <1>6, <1>7
    <3> HIDE DEF n, r, source
    <3> QED
      BY <1>1, <1>6, <1>8, <2>7, <2>10, <3>1, CallsIssued
  <2>13. /\ Shape(new, r) /\ PrefixShape(new, r, source, n)
         /\ Len(new.updates) = (d + 1) * Z
         /\ \A k \in 1 .. Z : new.updates[d * Z + k] = updates[k]
    <3>1. new.updates = mid.updates \o updates /\ Len(mid.decisions) = d
          /\ Len(mid.updates) = d * Z /\ mid.decisions = Me.decisions
      BY <1>2, <2>7, <2>8 DEF u
    <3>2. ASSUME NEW k \in 1 .. Z
          PROVE  updates[k].before = IF mid.decisions = << >> THEN 0
                                     ELSE mid.decisions[d].versions[ZoneSeq[k]]
      <4>1. proc.versions[ZoneSeq[k]] = IF Me.decisions = << >> THEN 0
                                        ELSE Me.decisions[d].versions[ZoneSeq[k]]
        <5>1. ZoneSeq[k] \in Zones
          BY ZoneCount
        <5>2. Unchanged[ZoneSeq[k]] = 0
          BY <5>1 DEF Unchanged
        <5> QED
          BY <1>2, <5>2 DEF LastVersions
      <4> QED
        BY <1>6, <3>1, <4>1
    <3>3. ~(Len(mid.decisions) < n)
      BY <1>1, <1>2, <3>1
    <3>4. \A k \in 1 .. Z : /\ updates[k].hour = Len(mid.decisions) /\ updates[k].zone = ZoneSeq[k]
                            /\ updates[k].before = IF mid.decisions = << >> THEN 0
                                 ELSE mid.decisions[Len(mid.decisions)].versions[ZoneSeq[k]]
      BY <1>6, <3>1, <3>2
    <3>5. /\ Shape(new, r) /\ PrefixShape(new, r, source, n)
          /\ Len(new.updates) = Len(mid.updates) + Z
          /\ \A k \in 1 .. Z : new.updates[Len(mid.updates) + k] = updates[k]
      <4> HIDE DEF n, r, source, d
      <4>1. Len(mid.updates) = Len(mid.decisions) * Z /\ n \in Nat
            /\ updates \in Seq(UpdateRows) /\ Len(updates) = Z
        BY <1>1, <1>6, <3>1
      <4>2. HourUpdates(mid, updates, source, n)
        BY <3>3, <3>4, <4>1 DEF HourUpdates
      <4> QED
        <5>1. /\ new.calls = mid.calls /\ new.steps = mid.steps /\ new.caol = mid.caol
              /\ new.decisions = mid.decisions /\ new.ckpt = mid.ckpt
              /\ new.updates = mid.updates \o updates
          BY <2>8, <3>1
        <5>2. /\ mid \in Directories /\ new \in Directories /\ FailedShape(new)
              /\ Shape(mid, r) /\ PrefixShape(mid, r, source, n)
          BY <2>7, <2>8, <2>11, <2>12
        <5>3. Shape(new, r)
          BY <4>1, <4>2, <5>1, <5>2, UpdatesIssued
        <5>4. PrefixShape(new, r, source, n)
          BY <4>1, <4>2, <5>1, <5>2, UpdatesIssued
        <5>5. Len(new.updates) = Len(mid.updates) + Z
          BY <4>1, <4>2, <5>1, <5>2, UpdatesIssued
        <5>6. \A k \in 1 .. Z : new.updates[Len(mid.updates) + k] = updates[k]
          <6>1. mid.updates \in Seq(UpdateRows)
            BY <5>2, Streams
          <6> DEFINE a == new.updates
                     b == mid.updates
          <6>2. a = b \o updates /\ b \in Seq(UpdateRows) /\ updates \in Seq(UpdateRows)
            BY <4>1, <5>1, <6>1
          <6> HIDE DEF a, b
          <6>3. \A k \in 1 .. Len(updates) : a[Len(b) + k] = updates[k]
            BY <6>2, JoinedNext
          <6> QED
            BY <4>1, <6>3 DEF a, b
        <5> QED
          BY <5>3, <5>4, <5>5, <5>6
    <3>6. (d + 1) * Z = d * Z + Z
      <4> HIDE DEF d
      <4> QED
        BY <1>1, <1>3, Multiples
    <3> QED
      BY <3>1, <3>5, <3>6
  <2>14. Asked(new, source)
    BY <1>2, <2>7, <2>8 DEF Asked, Imported
  <2>15. Evaluating(p, new, source)
    BY <1>1, <1>2, <2>8, <2>11, <2>14 DEF Evaluating, Resumed
  <2>16. Given(p, new, source)
    <3>1. new.calls[d * CallsPerHour + 1] = Me.calls[d * CallsPerHour + 1]
          /\ new.decisions = Me.decisions /\ Len(new.decisions) = d
      BY <2>5, <2>7, <2>8 DEF s
    <3>2. LastAllocation(new) = LastAllocation(Me)
      BY <3>1 DEF LastAllocation
    <3>3. /\ proc.fell = ~Me.calls[d * CallsPerHour + 1].good
          /\ proc.prev = Allocated(Me.calls[d * CallsPerHour + 1], d + 1, LastAllocation(Me))
      BY <1>2 DEF Given
    <3> HIDE DEF d
    <3> QED
      BY <2>9, <2>14, <3>1, <3>2, <3>3 DEF Given
  <2>17. InHour(p, new, source)
    <3>1. Len(new.decisions) = d /\ d < Hours /\ Len(new.steps) = p.step
          /\ Len(new.steps) = d * StepsPerHour
      BY <1>1, <1>2, <2>7, <2>8, <2>9
    <3>2. \A k \in 1 .. Z : p.versions[ZoneSeq[k]] = new.updates[d * Z + k].after
      BY <1>6, <2>9, <2>13
    <3>3. \A i \in DOMAIN new.steps : ~(d * StepsPerHour < i)
      BY <1>3, <2>8, <3>1, Streams
    <3>4. Len(new.calls) = (d + 1) * CallsPerHour - 1
      BY <2>5, <2>7, <2>8 DEF s
    <3> HIDE DEF d
    <3> QED
      BY <2>13, <2>14, <2>16, <3>1, <3>2, <3>3, <3>4 DEF InHour
  <2>18. ProcShape(p, new, source)
    <3>1. p.step < (d + 1) * StepsPerHour /\ Len(new.decisions) = d
      BY <1>1, <1>3, <2>7, <2>8, <2>9
    <3> HIDE DEF d
    <3> QED
      BY <2>9, <2>15, <2>17, <3>1 DEF ProcShape
  <2>19. Ended(new, source)
    BY <1>1, <2>8, OpenEnded
  <2> QED
    BY <1>1, <2>1, <2>8, <2>9, <2>13, <2>18, <2>19, Writes
<1>11. CASE ~(\A z \in Zones : answers[z].ok)
  <2>1. Broken(calls, "terminal_transport_error") /\ proc.pc # "idle"
    BY <1>1, <1>5, <1>11
  <2> QED
    BY <1>2, <1>6, <1>7, <1>8, <2>1, BatchFails
<1> QED
  BY <1>10, <1>11

-----------------------------------------------------------------------------
(* An hour that is replayed, and the steps of an hour. *)

\* What the source of a resumed run has of an hour that the run replays.
LEMMA SourceHour ==
    ASSUME HourlyInv, proc.pc # "idle", NEW d \in Nat,
           d < Imported(Me, Origin(runs, proc.run))
    PROVE  LET source == Origin(runs, proc.run)
               n == Imported(Me, source)
           IN  /\ Me.src # 0 /\ Source = source /\ source \in Directories
               /\ n = Len(source.decisions) /\ Shape(source, Me.src)
               /\ source.end = "terminal_transport_error" /\ n < Hours
               /\ source.decisions[d + 1] \in DecisionRows
<1> DEFINE source == Origin(runs, proc.run)
           n == Imported(Me, source)
<1>1. /\ source \in Directories
      /\ Me.src # 0 => Me.src \in DOMAIN runs /\ source = runs[Me.src]
      /\ DirectoryInv(Me, proc.run, source)
  BY Running, Sources DEF Me
<1>2. Me.src # 0
  BY DEF Imported
<1>3. Source = source
  BY <1>1, <1>2 DEF Source
<1>4. DirectoryInv(runs[Me.src], Me.src, Origin(runs, Me.src))
  BY <1>1, <1>2, Sources
<1>5. Shape(source, Me.src)
  BY <1>1, <1>2, <1>4 DEF DirectoryInv
<1>6. n = Len(source.decisions)
  BY <1>2 DEF Imported
<1>7. source.end = "terminal_transport_error" /\ n \in 1 .. Hours - 1
  BY <1>1, <1>2 DEF DirectoryInv, Started
<1>8. source.decisions[d + 1] \in DecisionRows /\ n < Hours
  <2>1. source.decisions \in Seq(DecisionRows) /\ d + 1 \in 1 .. Len(source.decisions)
    BY <1>1, <1>6, <1>7, Streams, ZoneCount
  <2> QED
    BY <1>7, <2>1, ZoneCount
<1> QED
  BY <1>1, <1>2, <1>3, <1>5, <1>6, <1>7, <1>8

\* The updates of an hour that is replayed.
LEMMA SourceUpdates ==
    ASSUME HourlyInv, proc.pc = "hour", Replaying
    PROVE  LET source == Origin(runs, proc.run)
               n == Imported(Me, source)
               d == Len(Me.decisions)
               more == OfHour(Source.updates, Hour)
           IN  /\ more \in Seq(UpdateRows) /\ Len(more) = Z
               /\ \A k \in 1 .. Z :
                     /\ more[k] = source.updates[d * Z + k]
                     /\ more[k].hour = d /\ more[k].zone = ZoneSeq[k]
                     /\ more[k].before = IF Me.decisions = << >> THEN 0
                                         ELSE Me.decisions[d].versions[ZoneSeq[k]]
<1> DEFINE source == Origin(runs, proc.run)
           n == Imported(Me, source)
           d == Len(Me.decisions)
           us == source.updates
           more == OfHour(Source.updates, Hour)
<1>1. /\ Me \in Directories /\ n \in Nat /\ d \in Nat /\ PrefixShape(Me, proc.run, source, n)
      /\ Hour = d /\ d < n
  BY HourOpened
<1>2. /\ Source = source /\ source \in Directories /\ n = Len(source.decisions)
      /\ UpdatesShape(source)
  BY <1>1, SourceHour DEF Shape
<1>3. /\ Z \in Nat \ {0} /\ us \in Seq(UpdateRows) /\ Len(us) \in Nat /\ DOMAIN us = 1 .. Len(us)
      /\ DOMAIN Me.decisions = 1 .. d /\ d * Z \in Nat /\ n * Z \in Nat
  <2>1. Z \in Nat \ {0}
    BY ZoneCount
  <2>2. us \in Seq(UpdateRows) /\ Len(us) \in Nat /\ DOMAIN us = 1 .. Len(us)
    BY <1>2, Streams
  <2>3. DOMAIN Me.decisions = 1 .. d
    BY <1>1, Streams
  <2> HIDE DEF d, n
  <2>4. d * Z \in Nat /\ n * Z \in Nat
    BY <1>1, <2>1, Multiples
  <2> QED
    BY <2>1, <2>2, <2>3, <2>4
<1>4. /\ Len(us) >= n * Z
      /\ \A i \in DOMAIN us :
            /\ us[i].hour = Block(Z, i) /\ us[i].zone = ZoneSeq[Place(Z, i)]
            /\ us[i].before = IF i <= Z THEN 0 ELSE us[i - Z].after
            /\ Block(Z, i) < n => us[i].after =
                  source.decisions[Block(Z, i) + 1].versions[ZoneSeq[Place(Z, i)]]
  <2> HIDE DEF n
  <2>1. Len(us) \in {n * Z, (n + 1) * Z}
    BY <1>2 DEF UpdatesShape
  <2>2. (n + 1) * Z = n * Z + Z
    BY <1>1, <1>3, Multiples
  <2>3. Len(us) >= n * Z
    BY <1>3, <2>1, <2>2
  <2> QED
    BY <1>2, <2>3 DEF UpdatesShape
<1>5. d * Z + Z <= n * Z
  <2> HIDE DEF d, n
  <2> QED
    BY <1>1, <1>3, Multiples
<1> HIDE DEF n, d, us
<1>6. d * Z + Z <= Len(us)
  BY <1>3, <1>4, <1>5
<1>7. more = SubSeq(us, d * Z + 1, d * Z + Z)
  <2>1. OfHour(us, d) = SubSeq(us, d * Z + 1, d * Z + Z)
    BY <1>1, <1>3, <1>4, <1>6, OfHourIs
  <2> QED
    BY <1>1, <1>2, <2>1 DEF us
<1>8. more \in Seq(UpdateRows) /\ Len(more) = Z /\ \A k \in 1 .. Z : more[k] = us[d * Z + k]
  <2> DEFINE x == d * Z
  <2>1. /\ x \in Nat /\ us \in Seq(UpdateRows) /\ x + Z <= Len(us) /\ Z \in Nat \ {0}
        /\ Len(us) \in Nat /\ more = SubSeq(us, x + 1, x + Z)
    BY <1>3, <1>6, <1>7
  <2> HIDE DEF x, more
  <2>2. more \in Seq(UpdateRows) /\ Len(more) = Z /\ \A k \in 1 .. Z : more[k] = us[x + k]
    BY <2>1, Taken
  <2> QED
    BY <2>2 DEF x
<1>9. ASSUME NEW k \in 1 .. Z
      PROVE  /\ more[k].hour = d /\ more[k].zone = ZoneSeq[k]
             /\ more[k].before = IF Me.decisions = << >> THEN 0
                                 ELSE Me.decisions[d].versions[ZoneSeq[k]]
  <2> DEFINE i == d * Z + k
  <2>1. i \in DOMAIN us /\ more[k] = us[i] /\ i \in Nat \ {0}
    BY <1>3, <1>6, <1>8
  <2>2. Block(Z, i) = d /\ Place(Z, i) = k
    BY <1>1, <1>3, Positions
  <2> HIDE DEF i
  <2>3. more[k].hour = d /\ more[k].zone = ZoneSeq[k]
    BY <1>4, <2>1, <2>2
  <2>4. us[i].before = IF i <= Z THEN 0 ELSE us[i - Z].after
    BY <1>4, <2>1
  <2>5. CASE d = 0
    <3>1. i <= Z
      BY <1>3, <2>5 DEF i
    <3>2. Me.decisions = << >>
      BY <1>1, <2>5, Streams DEF d
    <3> QED
      BY <2>1, <2>3, <2>4, <3>1, <3>2
  <2>6. CASE d # 0
    <3> DEFINE e == d - 1
               j == e * Z + k
    <3>1. e \in Nat /\ d = e + 1 /\ e < n
      BY <1>1, <2>6
    <3> HIDE DEF e
    <3>2. d * Z = e * Z + Z /\ e * Z \in Nat
      BY <1>3, <3>1, Multiples
    <3>3. ~(i <= Z) /\ i - Z = j /\ j \in DOMAIN us
      BY <1>3, <1>6, <3>2 DEF i
    <3>4. Block(Z, j) = e /\ Place(Z, j) = k
      BY <1>3, <3>1, Positions
    <3> HIDE DEF j
    <3>5. us[j].after = source.decisions[e + 1].versions[ZoneSeq[k]]
      BY <1>4, <3>1, <3>3, <3>4
    <3>6. Me.decisions[d] = source.decisions[d]
      <4>1. Copied(Me.decisions, source.decisions, n)
        BY <1>1 DEF PrefixShape
      <4>2. d \in DOMAIN Me.decisions
        BY <1>1, <1>3, <2>6
      <4> QED
        BY <1>1, <4>1, <4>2 DEF Copied
    <3>7. Me.decisions # << >>
      BY <1>3, <2>6 DEF d
    <3> QED
      BY <2>1, <2>3, <2>4, <3>1, <3>3, <3>5, <3>6, <3>7
  <2> QED
    BY <2>5, <2>6
<1> QED
  BY <1>8, <1>9 DEF us, d

LEMMA ReplayHourStep ==
    ASSUME HourlyInv, ReplayHour
    PROVE  HourlyInv'
<1> DEFINE source == Origin(runs, proc.run)
           n == Imported(Me, source)
           d == Len(Me.decisions)
           r == proc.run
           more == OfHour(Source.updates, Hour)
           decision == Source.decisions[Hour + 1]
<1>1. /\ proc.pc = "hour" /\ Replaying /\ Me \in Directories /\ proc \in Processes
      /\ Me.end = "open" /\ r \in Nat \ {0} /\ r \in DOMAIN runs /\ n \in Nat /\ d \in Nat
      /\ Shape(Me, r) /\ PrefixShape(Me, r, source, n)
      /\ Evaluating(proc, Me, source) /\ HourOpen(proc, Me, source)
      /\ BetweenHours(proc, Me) /\ d < Hours /\ proc.step = d * StepsPerHour /\ Hour = d
      /\ d < n /\ ~Asked(Me, source)
  <2>1. proc.pc = "hour" /\ Replaying
    BY DEF ReplayHour
  <2>2. /\ Me \in Directories /\ proc \in Processes
        /\ Me.end = "open" /\ r \in Nat \ {0} /\ r \in DOMAIN runs /\ n \in Nat /\ d \in Nat
        /\ Shape(Me, r) /\ PrefixShape(Me, r, source, n)
        /\ Evaluating(proc, Me, source) /\ HourOpen(proc, Me, source)
        /\ BetweenHours(proc, Me) /\ d < Hours /\ proc.step = d * StepsPerHour /\ Hour = d
        /\ Replaying <=> d < n
        /\ Asked(Me, source) <=> n <= d
    BY <2>1, HourOpened
  <2>3. d < n /\ ~(n <= d)
    BY <2>1, <2>2
  <2> QED
    BY <2>1, <2>2, <2>3
<1>2. /\ Len(Me.calls) = n * CallsPerHour /\ Answered(Me) /\ FailedShape(Me)
      /\ Len(Me.updates) = d * Z /\ Len(Me.steps) = d * StepsPerHour
      /\ proc.versions = LastVersions(Me)
  BY <1>1 DEF HourOpen, BetweenHours, Evaluating, Shape
<1>3. /\ Z \in Nat \ {0} /\ StepsPerHour \in Nat \ {0} /\ d * StepsPerHour \in Nat
      /\ (d + 1) * StepsPerHour = d * StepsPerHour + StepsPerHour
  <2>1. Z \in Nat \ {0} /\ StepsPerHour \in Nat \ {0}
    BY ZoneCount
  <2> HIDE DEF d, n
  <2> QED
    BY <1>1, <2>1, Multiples
<1>4. /\ more \in Seq(UpdateRows) /\ Len(more) = Z
      /\ \A k \in 1 .. Z :
            /\ more[k] = source.updates[d * Z + k]
            /\ more[k].hour = d /\ more[k].zone = ZoneSeq[k]
            /\ more[k].before = IF Me.decisions = << >> THEN 0
                                ELSE Me.decisions[d].versions[ZoneSeq[k]]
  BY <1>1, SourceUpdates
<1>5. decision = source.decisions[d + 1] /\ decision \in DecisionRows
  BY <1>1, SourceHour
<1> DEFINE versions == After(proc.versions, more, Len(more))
<1>6. /\ runs' = [runs EXCEPT ![proc.run].updates = @ \o more]
      /\ proc' = [proc EXCEPT !.pc = "step", !.versions = versions, !.prev = decision.alloc,
                              !.fallbacks = IF decision.fallback THEN @ + 1 ELSE @]
  BY DEF ReplayHour, RestoredAllocation
<1> HIDE DEF more, decision
<1>7. \A k \in 1 .. Z : versions[ZoneSeq[k]] = more[k].after
  <2>1. Zoned(more)
    <3>1. \A k \in 1 .. Z : Place(Z, k) = k
      <4> TAKE k \in 1 .. Z
      <4>1. 0 \in Nat /\ 0 * Z + k = k
        BY <1>3
      <4>2. Place(Z, 0 * Z + k) = k
        BY <1>3, <4>1, Positions
      <4> QED
        BY <4>1, <4>2
    <3>2. DOMAIN more = 1 .. Z
      BY <1>4
    <3> QED
      BY <1>4, <3>1, <3>2 DEF Zoned
  <2> TAKE k \in 1 .. Z
  <2>2. k \in 1 .. Len(more) /\ Len(more) \in k .. Len(more) /\ Len(more) < k + Z
    BY <1>3, <1>4
  <2>3. After(proc.versions, more, Len(more))[more[k].zone] = more[k].after
    BY <1>4, <2>1, <2>2, AfterUpdate
  <2>4. more[k].zone = ZoneSeq[k]
    BY <1>4
  <2> QED
    BY <2>3, <2>4
<1>8. versions \in Programs
  <2>1. versions = [z \in Zones |-> versions[z]]
    BY DEF After
  <2>2. ASSUME NEW z \in Zones
        PROVE  versions[z] \in Nat
    <3>1. PICK k \in 1 .. Z : z = ZoneSeq[k]
      BY ZoneCount
    <3>2. more[k] \in UpdateRows
      BY <1>4
    <3>3. more[k].after \in Nat
      BY <3>2 DEF UpdateRows
    <3> QED
      BY <1>7, <3>1, <3>3
  <2> HIDE DEF versions
  <2> QED
    BY <2>1, <2>2 DEF Programs
<1> HIDE DEF versions
<1> DEFINE u == Me.updates \o more
           fallbacks == IF decision.fallback THEN proc.fallbacks + 1 ELSE proc.fallbacks
           alloc == decision.alloc
           new == [Me EXCEPT !.updates = u]
           p == [proc EXCEPT !.pc = "step", !.versions = versions, !.prev = alloc,
                             !.fallbacks = fallbacks]
<1>9. runs' = [runs EXCEPT ![proc.run] = new] /\ proc' = p
  BY <1>6 DEF Me
<1>10. Me.updates \in Seq(UpdateRows) /\ u \in Seq(UpdateRows)
  BY <1>1, <1>4, Streams, Appended
<1> HIDE DEF u
<1>11. /\ new \in Directories /\ new.calls = Me.calls /\ new.updates = u
       /\ new.steps = Me.steps /\ new.caol = Me.caol /\ new.decisions = Me.decisions
       /\ new.ckpt = Me.ckpt /\ new.src = Me.src /\ new.cut = Me.cut /\ new.end = Me.end
       /\ new.resume = Me.resume /\ new.dispatch = Me.dispatch /\ new.lifecycle = Me.lifecycle
       /\ new.retries = Me.retries
  BY <1>1, <1>10 DEF Directories
<1>12. /\ p \in Processes /\ p.pc = "step" /\ p.run = proc.run /\ p.step = proc.step
       /\ p.versions = versions /\ p.prev = alloc
  <2>1. alloc \in Nat \X Nat /\ fallbacks \in Nat
    <3>1. alloc \in Nat \X Nat
      BY <1>5 DEF DecisionRows
    <3>2. proc.fallbacks \in Nat
      BY <1>1 DEF Processes
    <3>3. fallbacks \in Nat
      BY <3>2
    <3> QED
      BY <3>1, <3>3
  <2> HIDE DEF alloc, fallbacks
  <2> QED
    BY <1>1, <1>8, <2>1 DEF Processes, Pcs
<1> HIDE DEF new, p, alloc
<1>13. Answered(new) /\ FailedShape(new)
  BY <1>2, <1>11 DEF Answered, FailedShape
<1>14. /\ Shape(new, r) /\ PrefixShape(new, r, source, n)
       /\ Len(new.updates) = (d + 1) * Z
       /\ \A k \in 1 .. Z : new.updates[d * Z + k] = more[k]
  <2>1. new.updates = Me.updates \o more
    BY <1>11 DEF u
  <2>2. \A k \in 1 .. Z : more[k] = source.updates[Len(Me.decisions) * Z + k]
    BY <1>4
  <2>3. /\ \A k \in 1 .. Z : /\ more[k].hour = Len(Me.decisions) /\ more[k].zone = ZoneSeq[k]
                              /\ more[k].before = IF Me.decisions = << >> THEN 0
                                    ELSE Me.decisions[Len(Me.decisions)].versions[ZoneSeq[k]]
        /\ Len(Me.updates) = Len(Me.decisions) * Z
    BY <1>2, <1>4
  <2>4. Me \in Directories /\ n \in Nat /\ Shape(Me, r) /\ PrefixShape(Me, r, source, n)
        /\ more \in Seq(UpdateRows) /\ Len(more) = Z
    BY <1>1, <1>4
  <2>5. /\ Shape(new, r) /\ PrefixShape(new, r, source, n)
        /\ Len(new.updates) = Len(Me.updates) + Z
        /\ \A k \in 1 .. Z : new.updates[Len(Me.updates) + k] = more[k]
    <3> HIDE DEF n, r, source, d
    <3>1. HourUpdates(Me, more, source, n)
      BY <2>2, <2>3, <2>4 DEF HourUpdates
    <3> QED
      <4>1. new.calls = Me.calls /\ new.steps = Me.steps /\ new.caol = Me.caol
            /\ new.decisions = Me.decisions /\ new.ckpt = Me.ckpt
            /\ new.updates = Me.updates \o more
        BY <1>11, <2>1
      <4>2. new \in Directories /\ FailedShape(new)
        BY <1>11, <1>13
      <4> HIDE DEF u
      <4>3. Shape(new, r)
        BY <2>4, <3>1, <4>1, <4>2, UpdatesIssued
      <4>4. PrefixShape(new, r, source, n)
        BY <2>4, <3>1, <4>1, <4>2, UpdatesIssued
      <4>5. Len(new.updates) = Len(Me.updates) + Z
        BY <2>4, <3>1, <4>1, <4>2, UpdatesIssued
      <4>6. \A k \in 1 .. Z : new.updates[Len(Me.updates) + k] = more[k]
        BY <2>4, <3>1, <4>1, <4>2, UpdatesIssued
      <4> QED
        BY <4>3, <4>4, <4>5, <4>6
  <2>6. (d + 1) * Z = d * Z + Z
    <3> HIDE DEF d
    <3> QED
      BY <1>1, <1>3, Multiples
  <2> QED
    BY <1>2, <2>5, <2>6
<1>15. ~Asked(new, source) /\ Imported(new, source) = n
  BY <1>1, <1>11 DEF Asked, Imported
<1>16. Evaluating(p, new, source)
  BY <1>1, <1>2, <1>11, <1>13, <1>15 DEF Evaluating, Resumed
<1>17. Given(p, new, source)
  BY <1>5, <1>11, <1>12, <1>15 DEF Given, alloc
<1>18. InHour(p, new, source)
  <2>1. Len(new.decisions) = d /\ d < Hours /\ Len(new.steps) = p.step
        /\ Len(new.steps) = d * StepsPerHour
    BY <1>1, <1>2, <1>11, <1>12
  <2>2. \A k \in 1 .. Z : p.versions[ZoneSeq[k]] = new.updates[d * Z + k].after
    BY <1>7, <1>12, <1>14
  <2>3. \A i \in DOMAIN new.steps : ~(d * StepsPerHour < i)
    BY <1>3, <1>11, <2>1, Streams
  <2>4. Len(new.calls) = n * CallsPerHour
    BY <1>2, <1>11
  <2> HIDE DEF d, n
  <2> QED
    BY <1>14, <1>15, <1>17, <2>1, <2>2, <2>3, <2>4 DEF InHour
<1>19. ProcShape(p, new, source)
  <2>1. p.step < (d + 1) * StepsPerHour /\ Len(new.decisions) = d
    BY <1>1, <1>3, <1>11, <1>12
  <2> HIDE DEF d
  <2> QED
    BY <1>12, <1>16, <1>18, <2>1 DEF ProcShape
<1>20. Ended(new, source)
  BY <1>1, <1>11, OpenEnded
<1> QED
  BY <1>1, <1>9, <1>11, <1>12, <1>14, <1>19, <1>20, Writes

LEMMA HourEntered ==
    ASSUME HourlyInv, proc.pc \in {"step", "hour_end"}
    PROVE  LET source == Origin(runs, proc.run)
               n == Imported(Me, source)
               d == Len(Me.decisions)
           IN  /\ Me \in Directories /\ proc \in Processes /\ Me.end = "open"
               /\ proc.run \in Nat \ {0} /\ proc.run \in DOMAIN runs /\ n \in Nat /\ d \in Nat
               /\ Shape(Me, proc.run) /\ PrefixShape(Me, proc.run, source, n)
               /\ Me.cut = n * StepsPerHour
               /\ Evaluating(proc, Me, source) /\ InHour(proc, Me, source) /\ d < Hours
               /\ StepsPerHour \in Nat \ {0} /\ d * StepsPerHour \in Nat
               /\ (d + 1) * StepsPerHour = d * StepsPerHour + StepsPerHour
               /\ proc.step \in Nat /\ d * StepsPerHour <= proc.step
               /\ Len(Me.steps) = proc.step /\ n * StepsPerHour \in Nat
               /\ Asked(Me, source) <=> n <= d
<1> DEFINE source == Origin(runs, proc.run)
           n == Imported(Me, source)
           d == Len(Me.decisions)
<1>1. /\ Me \in Directories /\ proc \in Processes /\ Me.end = "open" /\ proc.run \in Nat \ {0}
      /\ proc.run \in DOMAIN runs /\ n \in Nat /\ ProcShape(proc, Me, source)
      /\ DirectoryInv(Me, proc.run, source)
  BY Running, Sources DEF Me
<1>2. d \in Nat
  BY <1>1, Streams
<1>3. /\ Shape(Me, proc.run) /\ PrefixShape(Me, proc.run, source, n)
      /\ Me.cut = n * StepsPerHour
  BY <1>1 DEF DirectoryInv, Started
<1>4. Evaluating(proc, Me, source) /\ InHour(proc, Me, source)
  BY <1>1 DEF ProcShape
<1>5. Len(Me.steps) = proc.step /\ d < Hours
  BY <1>4 DEF InHour
<1>6. d * StepsPerHour <= proc.step
  BY <1>3, <1>5 DEF Shape, StepsShape
<1>7. proc.step \in Nat
  BY <1>1 DEF Processes
<1>8. Asked(Me, source) <=> n <= d
  BY DEF Asked
<1> HIDE DEF n, d
<1>9. /\ StepsPerHour \in Nat \ {0} /\ d * StepsPerHour \in Nat /\ n * StepsPerHour \in Nat
      /\ (d + 1) * StepsPerHour = d * StepsPerHour + StepsPerHour
  <2>1. StepsPerHour \in Nat \ {0}
    BY ZoneCount
  <2> QED
    BY <1>1, <1>2, <2>1, Multiples
<1> QED
  BY <1>1, <1>2, <1>3, <1>4, <1>5, <1>6, <1>7, <1>8, <1>9 DEF n, d

\* A step of the open hour, in a directory that holds the hours closed.
LEMMA StepTaken ==
    ASSUME NEW run \in Directories, NEW new \in Directories, NEW r, NEW source, NEW n,
           NEW row \in StepRows, NEW p, NEW q, Shape(run, r), PrefixShape(run, r, source, n),
           Answered(run), InHour(p, run, source), row.test = r, row.versions = p.versions,
           p.step < (Len(run.decisions) + 1) * StepsPerHour,
           new.steps = Append(run.steps, row), new.calls = run.calls,
           new.updates = run.updates, new.caol = run.caol, new.decisions = run.decisions,
           new.ckpt = run.ckpt, new.src = run.src, q.step = p.step + 1,
           q.versions = p.versions, q.fell = p.fell, q.prev = p.prev
    PROVE  /\ Shape(new, r) /\ PrefixShape(new, r, source, n) /\ Answered(new)
           /\ InHour(q, new, source)
<1> DEFINE d == Len(run.decisions)
           m == Len(run.steps)
           x == d * StepsPerHour
<1>1. /\ run.steps \in Seq(StepRows) /\ m \in Nat /\ d \in Nat /\ DOMAIN run.steps = 1 .. m
      /\ StepsPerHour \in Nat \ {0}
  BY Streams, ZoneCount
<1>2. x \in Nat /\ (d + 1) * StepsPerHour = x + StepsPerHour
  <2> HIDE DEF d
  <2> QED
    BY <1>1, Multiples
<1>3. /\ x <= m /\ m = p.step /\ m < x + StepsPerHour
      /\ \A s \in DOMAIN run.steps :
            /\ run.steps[s].test = r
            /\ Block(StepsPerHour, s) < d =>
                  run.steps[s].versions = run.decisions[Block(StepsPerHour, s) + 1].versions
            /\ x < s => run.steps[s].versions = p.versions
  BY <1>2 DEF Shape, StepsShape, InHour
<1> HIDE DEF d, m, x
<1>4. /\ Len(new.steps) = m + 1 /\ DOMAIN new.steps = 1 .. m + 1
      /\ \A s \in 1 .. m : new.steps[s] = run.steps[s]
      /\ new.steps[m + 1] = row
  <2>1. /\ new.steps \in Seq(StepRows) /\ Len(new.steps) = m + 1 /\ new.steps[m + 1] = row
        /\ \A s \in 1 .. m : new.steps[s] = run.steps[s]
    BY <1>1, OneMore DEF m
  <2>2. DOMAIN new.steps = 1 .. m + 1
    BY <1>1, OneMore DEF m
  <2> QED
    BY <2>1, <2>2
<1>5. ~(Block(StepsPerHour, m + 1) < d)
  <2>1. m + 1 > x /\ m + 1 <= x + StepsPerHour /\ m + 1 \in Nat \ {0}
    BY <1>1, <1>2, <1>3
  <2>2. Block(StepsPerHour, m + 1) = d
    BY <1>1, <2>1, Blocks DEF x
  <2> QED
    BY <1>1, <2>2
<1>6. \A s \in DOMAIN new.steps :
         /\ new.steps[s].test = r
         /\ Block(StepsPerHour, s) < d =>
               new.steps[s].versions = run.decisions[Block(StepsPerHour, s) + 1].versions
         /\ x < s => new.steps[s].versions = p.versions
  <2> TAKE s \in DOMAIN new.steps
  <2>1. CASE s \in 1 .. m
    BY <1>1, <1>3, <1>4, <2>1
  <2>2. CASE s = m + 1
    BY <1>4, <1>5, <2>2
  <2> QED
    BY <1>1, <1>4, <2>1, <2>2
<1>7. StepsShape(new, r)
  <2>1. d * StepsPerHour <= m + 1 /\ m + 1 <= (d + 1) * StepsPerHour
    BY <1>1, <1>2, <1>3 DEF x
  <2> QED
    BY <1>4, <1>6, <2>1 DEF StepsShape, d
<1>8. Answered(new) /\ FailedShape(new)
  BY DEF Answered, FailedShape
<1>9. /\ DecisionsShape(new) /\ UpdatesShape(new) /\ MemoryShape(new) /\ CallsShape(new)
      /\ AllocationsShape(new) /\ CheckpointShape(new, r)
  BY DEF Shape, DecisionsShape, UpdatesShape, MemoryShape, CallsShape, AllocationsShape,
         CheckpointShape
<1>10. Shape(new, r) /\ PrefixShape(new, r, source, n)
  BY <1>7, <1>8, <1>9 DEF Shape, PrefixShape
<1>11. Given(q, new, source) /\ Imported(new, source) = Imported(run, source)
       /\ (Asked(new, source) <=> Asked(run, source))
  <2>1. Given(p, run, source)
    BY DEF InHour
  <2>2. Imported(new, source) = Imported(run, source)
    BY DEF Imported
  <2>3. Asked(new, source) <=> Asked(run, source)
    BY <2>2 DEF Asked
  <2>4. LastAllocation(new) = LastAllocation(run)
    BY DEF LastAllocation
  <2>5. Given(q, new, source)
    BY <2>1, <2>3, <2>4 DEF Given
  <2> QED
    BY <2>2, <2>3, <2>5
<1>12. InHour(q, new, source)
  <2>1. \A s \in DOMAIN new.steps : Len(new.decisions) * StepsPerHour < s
            => new.steps[s].versions = q.versions
    BY <1>6 DEF x, d
  <2>2. Len(new.steps) = q.step
    BY <1>3, <1>4
  <2> QED
    BY <1>11, <2>1, <2>2 DEF InHour
<1> QED
  BY <1>8, <1>10, <1>12

LEMMA AdvanceStep ==
    ASSUME HourlyInv, Advance
    PROVE  HourlyInv'
<1> DEFINE source == Origin(runs, proc.run)
           n == Imported(Me, source)
           d == Len(Me.decisions)
           r == proc.run
<1>1. /\ proc.pc = "step" /\ Me \in Directories /\ proc \in Processes /\ Me.end = "open"
      /\ r \in Nat \ {0} /\ r \in DOMAIN runs /\ n \in Nat /\ d \in Nat
      /\ Shape(Me, r) /\ PrefixShape(Me, r, source, n) /\ Me.cut = n * StepsPerHour
      /\ Evaluating(proc, Me, source) /\ InHour(proc, Me, source) /\ d < Hours
      /\ StepsPerHour \in Nat \ {0} /\ d * StepsPerHour \in Nat
      /\ (d + 1) * StepsPerHour = d * StepsPerHour + StepsPerHour
      /\ proc.step \in Nat /\ d * StepsPerHour <= proc.step
      /\ Len(Me.steps) = proc.step /\ n * StepsPerHour \in Nat
  BY HourEntered DEF Advance
<1>2. proc.step < (d + 1) * StepsPerHour
  <2>1. ProcShape(proc, Me, source)
    BY <1>1, Running
  <2> QED
    BY <1>1, <2>1 DEF ProcShape
<1>3. /\ (proc.step + 1) % StepsPerHour = 0 <=> proc.step + 1 = (d + 1) * StepsPerHour
      /\ proc.step < n * StepsPerHour <=> d < n
  <2> HIDE DEF d, n
  <2> QED
    BY <1>1, <1>2, HourIs
<1>4. PICK k \in Numbers \cup {"lost"} :
         LET row == [num |-> IF k = "same" THEN Source.steps[proc.step + 1].num ELSE proc.run,
                     versions |-> proc.versions, test |-> proc.run]
         IN CASE k = "far"  -> Broken(<< >>, "terminal_runtime_error")
              [] k = "lost" -> Broken(<< >>, "terminal_transport_error")
              [] OTHER ->
                   /\ runs' = [runs EXCEPT ![proc.run].steps = Append(@, row)]
                   /\ proc' = [proc EXCEPT
                         !.step = @ + 1,
                         !.pc = IF (proc.step + 1) % StepsPerHour = 0 THEN "hour_end" ELSE "step"]
  BY DEF Advance
<1>5. CASE k = "far"
  <2>1. Broken(<< >>, "terminal_runtime_error")
    BY <1>4, <1>5
  <2> QED
    BY <1>1, <2>1, BreaksOff
<1>6. CASE k = "lost"
  <2>1. Broken(<< >>, "terminal_transport_error")
    BY <1>4, <1>6
  <2> QED
    BY <1>1, <2>1, BreaksOff
<1>7. CASE k # "far" /\ k # "lost"
  <2> DEFINE num == IF k = "same" THEN Source.steps[proc.step + 1].num ELSE proc.run
             row == [num |-> num, versions |-> proc.versions, test |-> proc.run]
             pc == IF (proc.step + 1) % StepsPerHour = 0 THEN "hour_end" ELSE "step"
             s == Append(Me.steps, row)
             new == [Me EXCEPT !.steps = s]
             p == [proc EXCEPT !.step = proc.step + 1, !.pc = pc]
  <2>1. runs' = [runs EXCEPT ![proc.run] = new] /\ proc' = p
    BY <1>4, <1>7 DEF Me
  <2>2. num \in Nat
    <3>1. CASE k = "same"
      <4>1. Replaying
        BY <1>4, <3>1 DEF Numbers
      <4>2. d < n
        BY <1>1, <1>3, <4>1 DEF Replaying
      <4>3. /\ Source = source /\ source \in Directories /\ n = Len(source.decisions)
            /\ Shape(source, Me.src)
        BY <1>1, <4>2, SourceHour
      <4>4. n * StepsPerHour <= Len(source.steps)
        BY <4>3 DEF Shape, StepsShape
      <4>5. source.steps \in Seq(StepRows) /\ Len(source.steps) \in Nat
        BY <4>3, Streams
      <4> DEFINE i == proc.step + 1
                 t == source.steps
                 y == n * StepsPerHour
      <4>6. i \in 1 .. Len(t)
        <5>1. proc.step < y /\ y <= Len(t) /\ y \in Nat
          BY <1>1, <1>3, <4>2, <4>4
        <5> HIDE DEF y, t
        <5> QED
          BY SMTT(30), <1>1, <4>5, <5>1 DEF t
      <4> HIDE DEF i
      <4>7. t[i] \in StepRows
        BY <4>5, <4>6
      <4>8. t[i].num \in Nat
        BY <4>7 DEF StepRows
      <4> QED
        BY <3>1, <4>3, <4>8 DEF i
    <3>2. CASE k # "same"
      BY <1>1, <3>2
    <3> QED
      BY <3>1, <3>2
  <2> HIDE DEF num
  <2>3. row \in StepRows /\ row.test = r /\ row.versions = proc.versions
    BY <1>1, <2>2 DEF StepRows, Processes
  <2> HIDE DEF row
  <2>4. s \in Seq(StepRows)
    <3>1. Me.steps \in Seq(StepRows)
      BY <1>1, Streams
    <3> QED
      BY <2>3, <3>1, OneMore
  <2>5. pc \in {"step", "hour_end"} /\ (pc = "hour_end" <=> proc.step + 1 = (d + 1) * StepsPerHour)
    BY <1>3
  <2> HIDE DEF s, pc
  <2>6. /\ new \in Directories /\ new.steps = s /\ new.calls = Me.calls
        /\ new.updates = Me.updates /\ new.caol = Me.caol /\ new.decisions = Me.decisions
        /\ new.ckpt = Me.ckpt /\ new.src = Me.src /\ new.cut = Me.cut /\ new.end = Me.end
        /\ new.resume = Me.resume /\ new.dispatch = Me.dispatch /\ new.lifecycle = Me.lifecycle
    BY <1>1, <2>4 DEF Directories
  <2>7. /\ p \in Processes /\ p.pc = pc /\ p.run = proc.run /\ p.step = proc.step + 1
        /\ p.versions = proc.versions /\ p.fell = proc.fell /\ p.prev = proc.prev
    <3>1. proc.step + 1 \in Nat /\ pc \in Pcs
      BY <1>1, <2>5 DEF Pcs
    <3> DEFINE step == proc.step + 1
    <3> HIDE DEF step
    <3>2. step \in Nat /\ p = [proc EXCEPT !.step = step, !.pc = pc]
      BY <3>1 DEF step
    <3> HIDE DEF p
    <3>3. p \in Processes
      BY <1>1, <3>1, <3>2 DEF Processes
    <3>4. /\ p.pc = pc /\ p.run = proc.run /\ p.step = step
          /\ p.versions = proc.versions /\ p.fell = proc.fell /\ p.prev = proc.prev
      BY <1>1, <3>2 DEF Processes
    <3> QED
      BY <3>3, <3>4 DEF step
  <2> HIDE DEF new, p
  <2>8. Answered(Me)
    BY <1>1 DEF Evaluating
  <2>9. /\ Shape(new, r) /\ PrefixShape(new, r, source, n) /\ Answered(new)
        /\ InHour(p, new, source)
    <3>1. new.steps = Append(Me.steps, row)
      BY <2>6 DEF s
    <3> HIDE DEF n, source, r
    <3> QED
      BY <1>1, <1>2, <2>3, <2>6, <2>7, <2>8, <3>1, StepTaken
  <2>10. Evaluating(p, new, source)
    <3>1. Resumed(new, source) = Resumed(Me, source)
      BY <2>6 DEF Resumed, Asked, Imported
    <3> QED
      BY <1>1, <2>6, <2>9, <3>1 DEF Evaluating
  <2>11. ProcShape(p, new, source)
    <3>1. /\ p.pc = "hour_end" => p.step = (d + 1) * StepsPerHour
          /\ p.pc = "step" => p.step < (d + 1) * StepsPerHour
          /\ Len(new.decisions) = d
      <4> DEFINE y == (d + 1) * StepsPerHour
      <4>1. proc.step < y /\ y \in Nat
        BY <1>1, <1>2
      <4>2. p.step = proc.step + 1 /\ (p.pc = "hour_end" <=> proc.step + 1 = y)
            /\ p.pc \in {"step", "hour_end"}
        BY <2>5, <2>7
      <4> HIDE DEF y
      <4>3. /\ p.pc = "hour_end" => p.step = y
            /\ p.pc = "step" => p.step < y
        BY <1>1, <4>1, <4>2
      <4> QED
        BY <2>6, <4>3 DEF y
    <3> HIDE DEF d
    <3> QED
      BY <2>5, <2>7, <2>9, <2>10, <3>1 DEF ProcShape
  <2>12. Ended(new, source)
    BY <1>1, <2>6, OpenEnded
  <2> QED
    BY <1>1, <2>1, <2>5, <2>6, <2>7, <2>9, <2>11, <2>12, Writes
<1> QED
  BY <1>5, <1>6, <1>7

-----------------------------------------------------------------------------
(* What closes an hour. *)

\* What a directory holds of an hour that is over, and what closes it.
Closes(run, source, n, rows, decision) ==
    LET d == Len(run.decisions)
        call == run.calls[d * CallsPerHour + 1]
    IN  /\ d < Hours /\ Len(run.steps) = (d + 1) * StepsPerHour
        /\ Len(run.updates) = (d + 1) * Z /\ (d + 1) * CallsPerHour <= Len(run.calls)
        /\ \A k \in 1 .. Z : decision.versions[ZoneSeq[k]] = run.updates[d * Z + k].after
        /\ \A s \in DOMAIN run.steps :
              d * StepsPerHour < s => run.steps[s].versions = decision.versions
        /\ Len(rows) = Z
        /\ \A k \in 1 .. Z : /\ rows[k].hour = d /\ rows[k].zone = ZoneSeq[k]
                             /\ rows[k].by = run.calls[(d + 1) * CallsPerHour].by
                             /\ d < n => rows[k] = source.caol[d * Z + k]
        /\ decision.hour = d /\ decision.fallback = ~call.good
        /\ decision.alloc = Allocated(call, d + 1, LastAllocation(run))
        /\ d < n => decision = source.decisions[d + 1]

LEMMA HourClosed ==
    ASSUME NEW run \in Directories, NEW new \in Directories, NEW r, NEW source, NEW n \in Nat,
           NEW rows \in Seq(MemoryRows), NEW decision \in DecisionRows, NEW d \in Nat,
           d = Len(run.decisions), Shape(run, r), PrefixShape(run, r, source, n),
           Answered(run), Closes(run, source, n, rows, decision),
           new.calls = run.calls, new.steps = run.steps, new.updates = run.updates,
           new.caol = run.caol \o rows, new.decisions = Append(run.decisions, decision),
           new.ckpt = [next |-> (d + 1) * StepsPerHour, test |-> r,
                       versions |-> decision.versions]
    PROVE  /\ Shape(new, r) /\ PrefixShape(new, r, source, n) /\ Answered(new)
           /\ Len(new.decisions) = d + 1 /\ LastVersions(new) = decision.versions
           /\ LastAllocation(new) = decision.alloc
<1>1. /\ run.decisions \in Seq(DecisionRows) /\ DOMAIN run.decisions = 1 .. d
      /\ run.caol \in Seq(MemoryRows) /\ DOMAIN run.caol = 1 .. Len(run.caol)
      /\ DOMAIN run.steps = 1 .. Len(run.steps) /\ DOMAIN run.updates = 1 .. Len(run.updates)
      /\ Len(run.caol) \in Nat
  BY Streams
<1>2. /\ Z \in Nat \ {0} /\ StepsPerHour \in Nat \ {0} /\ CallsPerHour \in Nat \ {0}
      /\ Hours \in Nat
  BY ZoneCount
<1>3. /\ (d + 1) * Z = d * Z + Z /\ d * Z \in Nat
      /\ (d + 1) * StepsPerHour = d * StepsPerHour + StepsPerHour /\ d * StepsPerHour \in Nat
      /\ (d + 1 + 1) * StepsPerHour = (d + 1) * StepsPerHour + StepsPerHour
  <2>1. d \in Int /\ d >= 0 /\ d + 1 \in Int
    OBVIOUS
  <2>2. (d + 1) * Z = d * Z + Z /\ d * Z \in Nat
    BY <1>2, <2>1, Multiples
  <2>3. (d + 1) * StepsPerHour = d * StepsPerHour + StepsPerHour /\ d * StepsPerHour \in Nat
    BY <1>2, <2>1, Multiples
  <2>4. \A e \in Int : (e + 1) * StepsPerHour = e * StepsPerHour + StepsPerHour
    BY <1>2, Multiples
  <2>5. (d + 1 + 1) * StepsPerHour = (d + 1) * StepsPerHour + StepsPerHour
    BY <2>1, <2>4
  <2> QED
    BY <2>2, <2>3, <2>5
<1>21. /\ d < Hours /\ Len(run.steps) = (d + 1) * StepsPerHour
       /\ Len(run.updates) = (d + 1) * Z /\ (d + 1) * CallsPerHour <= Len(run.calls)
  BY DEF Closes
<1>22. \A k \in 1 .. Z : decision.versions[ZoneSeq[k]] = run.updates[d * Z + k].after
  BY DEF Closes
<1>23. \A s \in DOMAIN run.steps :
          d * StepsPerHour < s => run.steps[s].versions = decision.versions
  BY DEF Closes
<1>24. Len(rows) = Z /\ \A k \in 1 .. Z : /\ rows[k].hour = d /\ rows[k].zone = ZoneSeq[k]
                                          /\ rows[k].by = run.calls[(d + 1) * CallsPerHour].by
  BY DEF Closes
<1>25. \A k \in 1 .. Z : d < n => rows[k] = source.caol[d * Z + k]
  BY DEF Closes
<1>26. /\ decision.hour = d
       /\ decision.fallback = ~run.calls[d * CallsPerHour + 1].good
       /\ decision.alloc = Allocated(run.calls[d * CallsPerHour + 1], d + 1, LastAllocation(run))
  BY DEF Closes
<1>27. d < n => decision = source.decisions[d + 1]
  BY DEF Closes
<1>4. /\ Len(new.decisions) = d + 1 /\ DOMAIN new.decisions = 1 .. d + 1
      /\ \A h \in 1 .. d : new.decisions[h] = run.decisions[h]
      /\ new.decisions[d + 1] = decision
  <2>1. /\ new.decisions \in Seq(DecisionRows) /\ Len(new.decisions) = d + 1
        /\ new.decisions[d + 1] = decision
        /\ \A h \in 1 .. d : new.decisions[h] = run.decisions[h]
    BY <1>1, OneMore
  <2> QED
    BY <2>1
<1>5. /\ DecisionsShape(run) /\ StepsShape(run, r) /\ UpdatesShape(run) /\ MemoryShape(run)
      /\ CallsShape(run) /\ AllocationsShape(run)
  BY DEF Shape
<1>6. DecisionsShape(new)
  <2>1. \A h \in 1 .. d + 1 : new.decisions[h].hour = h - 1
    <3> TAKE h \in 1 .. d + 1
    <3>1. CASE h \in 1 .. d
      BY <1>1, <1>4, <1>5, <3>1 DEF DecisionsShape
    <3>2. CASE h = d + 1
      BY <1>4, <1>26, <3>2
    <3> QED
      BY <3>1, <3>2
  <2>2. d + 1 <= Hours
    BY <1>2, <1>21
  <2> QED
    BY <1>4, <2>1, <2>2 DEF DecisionsShape
<1>7. StepsShape(new, r)
  <2>1. \A s \in DOMAIN run.steps :
           /\ run.steps[s].test = r
           /\ Block(StepsPerHour, s) < d + 1 =>
                 run.steps[s].versions = new.decisions[Block(StepsPerHour, s) + 1].versions
    <3> TAKE s \in DOMAIN run.steps
    <3>0. s \in Nat \ {0}
      BY <1>1
    <3>1. Block(StepsPerHour, s) \in Nat
      BY <1>2, <3>0, Divided
    <3>2. s > d * StepsPerHour <=> ~(Block(StepsPerHour, s) < d)
      <4>1. s <= d * StepsPerHour <=> Block(StepsPerHour, s) < d
        BY <1>2, <3>0, Blocks
      <4> QED
        BY <1>3, <3>0, <4>1
    <3>3. /\ run.steps[s].test = r
          /\ Block(StepsPerHour, s) < d =>
                run.steps[s].versions = run.decisions[Block(StepsPerHour, s) + 1].versions
      BY <1>5 DEF StepsShape
    <3>4. CASE Block(StepsPerHour, s) < d
      <4>1. Block(StepsPerHour, s) + 1 \in 1 .. d
        BY <3>1, <3>4
      <4> QED
        BY <1>4, <3>3, <3>4, <4>1
    <3>5. CASE Block(StepsPerHour, s) = d
      <4>1. run.steps[s].versions = decision.versions
        BY <1>3, <1>23, <3>0, <3>2, <3>5
      <4> QED
        BY <1>4, <3>3, <3>5, <4>1
    <3> QED
      BY <3>1, <3>3, <3>4, <3>5
  <2>2. /\ (d + 1) * StepsPerHour <= Len(new.steps)
        /\ Len(new.steps) <= (d + 1 + 1) * StepsPerHour
    BY <1>2, <1>3, <1>21
  <2>3. /\ Len(new.decisions) * StepsPerHour <= Len(new.steps)
        /\ Len(new.steps) <= (Len(new.decisions) + 1) * StepsPerHour
    BY <1>4, <2>2
  <2>4. \A s \in DOMAIN new.steps :
           /\ new.steps[s].test = r
           /\ Block(StepsPerHour, s) < Len(new.decisions) =>
                 new.steps[s].versions = new.decisions[Block(StepsPerHour, s) + 1].versions
    BY <1>4, <2>1
  <2> QED
    BY <2>3, <2>4 DEF StepsShape
<1>8. UpdatesShape(new)
  <2>1. \A i \in DOMAIN run.updates : Block(Z, i) < d + 1 =>
           run.updates[i].after =
              new.decisions[Block(Z, i) + 1].versions[ZoneSeq[Place(Z, i)]]
    <3> TAKE i \in DOMAIN run.updates
    <3>0. i \in Nat \ {0}
      BY <1>1
    <3>1. /\ Block(Z, i) \in Nat /\ Place(Z, i) \in 1 .. Z
          /\ i = Block(Z, i) * Z + Place(Z, i)
      BY <1>2, <3>0, Divided
    <3>3. Block(Z, i) < d => run.updates[i].after =
             run.decisions[Block(Z, i) + 1].versions[ZoneSeq[Place(Z, i)]]
      BY <1>5 DEF UpdatesShape
    <3>4. CASE Block(Z, i) < d
      <4>1. Block(Z, i) + 1 \in 1 .. d
        <5>1. Block(Z, i) \in Nat
          BY <3>1
        <5> QED
          BY <3>4, <5>1
      <4> QED
        BY <1>4, <3>3, <3>4, <4>1
    <3>5. CASE Block(Z, i) = d
      <4> DEFINE k == Place(Z, i)
      <4>1. k \in 1 .. Z /\ i = d * Z + k
        BY <3>1, <3>5
      <4> HIDE DEF k
      <4>2. run.updates[i].after = decision.versions[ZoneSeq[k]]
        BY <1>22, <4>1
      <4> QED
        BY <1>4, <3>5, <4>2 DEF k
    <3>6. Block(Z, i) \in Nat
      BY <3>1
    <3> QED
      BY <3>4, <3>5, <3>6
  <2>2. \A i \in DOMAIN run.updates :
           /\ run.updates[i].hour = Block(Z, i)
           /\ run.updates[i].zone = ZoneSeq[Place(Z, i)]
           /\ run.updates[i].before = IF i <= Z THEN 0 ELSE run.updates[i - Z].after
    BY <1>5 DEF UpdatesShape
  <2>3. Len(new.updates) \in {Len(new.decisions) * Z, (Len(new.decisions) + 1) * Z}
    BY <1>4, <1>21
  <2>4. \A i \in DOMAIN new.updates :
           /\ new.updates[i].hour = Block(Z, i)
           /\ new.updates[i].zone = ZoneSeq[Place(Z, i)]
           /\ new.updates[i].before = IF i <= Z THEN 0 ELSE new.updates[i - Z].after
           /\ Block(Z, i) < Len(new.decisions) => new.updates[i].after =
                 new.decisions[Block(Z, i) + 1].versions[ZoneSeq[Place(Z, i)]]
    BY ZenonT(40), <1>4, <2>1, <2>2
  <2> QED
    BY <2>3, <2>4 DEF UpdatesShape
<1>9. MemoryShape(new)
  <2> DEFINE s == run.caol \o rows
             old == run.caol
  <2>1. /\ Len(run.caol) = d * Z
        /\ \A i \in DOMAIN run.caol :
              /\ run.caol[i].hour = Block(Z, i) /\ run.caol[i].zone = ZoneSeq[Place(Z, i)]
              /\ run.caol[i].by = run.calls[(Block(Z, i) + 1) * CallsPerHour].by
    BY <1>5 DEF MemoryShape
  <2>8. s = old \o rows /\ old \in Seq(MemoryRows) /\ DOMAIN old = 1 .. Len(old)
    BY <1>1
  <2> HIDE DEF s, old
  <2>9. Len(s) = Len(old) + Len(rows)
    BY <2>8, Joined
  <2>10. \A i \in 1 .. Len(old) : s[i] = old[i]
    BY <2>8, JoinedFirst
  <2>11. \A k \in 1 .. Len(rows) : s[Len(old) + k] = rows[k]
    BY <2>8, JoinedNext
  <2>12. \A i \in DOMAIN s : i \in 1 .. Len(old) \/ \E k \in 1 .. Len(rows) : i = Len(old) + k
    BY <2>8, JoinedRow
  <2>2. Len(s) = Len(run.caol) + Len(rows)
    BY <2>9 DEF old
  <2>3. \A i \in DOMAIN run.caol : s[i] = run.caol[i]
    BY <2>8, <2>10 DEF old
  <2>4. \A k \in 1 .. Len(rows) : s[Len(run.caol) + k] = rows[k]
    BY <2>11 DEF old
  <2>5. \A i \in DOMAIN s : i \in DOMAIN run.caol \/ \E k \in 1 .. Len(rows) : i = Len(run.caol) + k
    BY <2>8, <2>12 DEF old
  <2>6. ASSUME NEW i \in DOMAIN s
        PROVE  /\ s[i].hour = Block(Z, i) /\ s[i].zone = ZoneSeq[Place(Z, i)]
               /\ s[i].by = run.calls[(Block(Z, i) + 1) * CallsPerHour].by
    <3>1. CASE i \in DOMAIN run.caol
      BY <2>1, <2>3, <3>1
    <3>2. CASE \E k \in 1 .. Len(rows) : i = Len(run.caol) + k
      <4>1. PICK k \in 1 .. Z : i = d * Z + k
        BY <1>24, <2>1, <3>2
      <4>2. Block(Z, i) = d /\ Place(Z, i) = k
        <5>1. Block(Z, d * Z + k) = d /\ Place(Z, d * Z + k) = k
          <6>1. d \in Nat /\ Z \in Nat \ {0} /\ k \in 1 .. Z
            BY <1>2
          <6> QED
            BY <6>1, Positions
        <5> QED
          BY <4>1, <5>1
      <4>3. s[i] = rows[k]
        BY <1>24, <2>1, <2>4, <4>1
      <4> QED
        BY <1>24, <4>2, <4>3
    <3> QED
      BY <2>5, <3>1, <3>2
  <2>7. Len(s) = (d + 1) * Z /\ new.caol = s
    BY <1>3, <1>24, <2>1, <2>2 DEF s
  <2> QED
    BY <1>4, <2>6, <2>7 DEF MemoryShape
<1>10. CallsShape(new) /\ Answered(new) /\ FailedShape(new)
  <2>1. Answered(new)
    BY DEF Answered
  <2>2. FailedShape(new)
    BY <2>1 DEF Answered, FailedShape
  <2>3. CallsShape(new)
    BY <1>4, <1>5, <1>21, <2>1 DEF CallsShape, Answered
  <2> QED
    BY <2>1, <2>2, <2>3
<1>11. AllocationsShape(new)
  <2>1. \A h \in 1 .. d + 1 :
           LET call == run.calls[(h - 1) * CallsPerHour + 1]
           IN  /\ new.decisions[h].fallback = ~call.good
               /\ new.decisions[h].alloc =
                     Allocated(call, h, IF h = 1 THEN Split ELSE new.decisions[h - 1].alloc)
    <3> TAKE h \in 1 .. d + 1
    <3>1. CASE h \in 1 .. d
      <4>1. h # 1 => h - 1 \in 1 .. d
        BY <3>1
      <4>2. LET call == run.calls[(h - 1) * CallsPerHour + 1]
            IN  /\ run.decisions[h].fallback = ~call.good
                /\ run.decisions[h].alloc =
                      Allocated(call, h, IF h = 1 THEN Split ELSE run.decisions[h - 1].alloc)
        BY <1>1, <1>5, <3>1 DEF AllocationsShape
      <4> QED
        BY <1>4, <3>1, <4>1, <4>2
    <3>2. CASE h = d + 1
      <4>1. (h - 1) * CallsPerHour + 1 = d * CallsPerHour + 1 /\ h - 1 = d
        BY <3>2
      <4>2. LastAllocation(run) = IF h = 1 THEN Split ELSE new.decisions[h - 1].alloc
        <5>1. run.decisions = << >> <=> h = 1
          BY <1>1, <3>2
        <5>2. h # 1 => new.decisions[d] = run.decisions[d]
          BY <1>4, <3>2
        <5> QED
          BY <4>1, <5>1, <5>2 DEF LastAllocation
      <4> QED
        BY <1>4, <1>26, <3>2, <4>1, <4>2
    <3> QED
      BY <3>1, <3>2
  <2>2. \A h \in DOMAIN new.decisions :
           LET call == new.calls[(h - 1) * CallsPerHour + 1]
           IN  /\ new.decisions[h].fallback = ~call.good
               /\ new.decisions[h].alloc =
                     Allocated(call, h, IF h = 1 THEN Split ELSE new.decisions[h - 1].alloc)
    <3> TAKE h \in DOMAIN new.decisions
    <3> DEFINE call == run.calls[(h - 1) * CallsPerHour + 1]
    <3>1. h \in 1 .. d + 1
      BY <1>4
    <3>2. /\ new.decisions[h].fallback = ~call.good
          /\ new.decisions[h].alloc =
                Allocated(call, h, IF h = 1 THEN Split ELSE new.decisions[h - 1].alloc)
      BY <2>1, <3>1
    <3>3. new.calls[(h - 1) * CallsPerHour + 1] = call
      OBVIOUS
    <3> HIDE DEF call
    <3> QED
      BY <3>2, <3>3
  <2> QED
    BY <2>2 DEF AllocationsShape
<1>12. CheckpointShape(new, r)
  BY <1>4 DEF CheckpointShape
<1>13. Shape(new, r)
  BY <1>6, <1>7, <1>8, <1>9, <1>10, <1>11, <1>12 DEF Shape
<1>14. Copied(new.decisions, source.decisions, n)
  <2>1. \A h \in 1 .. d : h <= n => run.decisions[h] = source.decisions[h]
    BY <1>1 DEF PrefixShape, Copied
  <2>2. \A h \in 1 .. d + 1 : h <= n => new.decisions[h] = source.decisions[h]
    <3> TAKE h \in 1 .. d + 1
    <3>1. CASE h \in 1 .. d
      BY <1>4, <2>1, <3>1
    <3>2. CASE h = d + 1
      BY <1>4, <1>27, <3>2
    <3> QED
      BY <3>1, <3>2
  <2> QED
    BY <1>4, <2>2 DEF Copied
<1>15. Copied(new.caol, source.caol, n * Z)
  <2>1. Copied(run.caol, source.caol, n * Z) /\ Len(run.caol) = d * Z /\ n * Z \in Nat
    BY <1>2, <1>5, Multiples DEF PrefixShape, MemoryShape
  <2>2. ASSUME NEW k \in 1 .. Len(rows), Len(run.caol) + k <= n * Z
        PROVE  rows[k] = source.caol[Len(run.caol) + k]
    <3>1. d * Z + k <= n * Z
      BY <2>1, <2>2
    <3>2. ~(n <= d)
      <4>1. n <= d => n * Z <= d * Z
        <5>1. n \in Int /\ d \in Int
          OBVIOUS
        <5> QED
          BY <1>2, <5>1, Multiples
      <4> DEFINE x == n * Z
                 y == d * Z
      <4>2. x \in Nat /\ y \in Nat /\ y + k <= x /\ k \in Nat \ {0} /\ (n <= d => x <= y)
        BY <1>3, <2>1, <3>1, <4>1
      <4> HIDE DEF x, y
      <4> QED
        BY <4>2
    <3> QED
      <4>1. k \in 1 .. Z
        BY <1>24
      <4>2. rows[k] = source.caol[d * Z + k]
        BY <1>25, <3>2, <4>1
      <4> QED
        BY <2>1, <4>2
  <2>3. Copied(run.caol \o rows, source.caol, n * Z)
    BY <1>1, <2>1, <2>2, CopiedMore
  <2> QED
    BY <2>3
<1>16. PrefixShape(new, r, source, n)
  BY <1>14, <1>15 DEF PrefixShape
<1>17. LastVersions(new) = decision.versions /\ LastAllocation(new) = decision.alloc
  <2>1. new.decisions # << >>
    <3>1. 1 \in DOMAIN new.decisions
      BY <1>4
    <3> QED
      BY <3>1
  <2> QED
    BY <1>4, <2>1 DEF LastVersions, LastAllocation
<1> QED
  BY <1>4, <1>10, <1>13, <1>16, <1>17

\* Where the process goes on when it has closed an hour.
LEMMA HourOver ==
    ASSUME NEW p, NEW new, NEW source, NEW d \in Nat, d < Hours, Len(new.decisions) = d + 1,
           p.step = (d + 1) * StepsPerHour, Len(new.steps) = p.step,
           Len(new.updates) = (d + 1) * Z, Evaluating(p, new, source),
           p.versions = LastVersions(new), p.prev = LastAllocation(new),
           Asked(new, source) => Len(new.calls) = (d + 1) * CallsPerHour,
           ~Asked(new, source) => Len(new.calls) = Imported(new, source) * CallsPerHour,
           ~Asked(new, source) => d + 1 < Hours,
           p.pc = IF p.step = Total THEN "stop" ELSE "hour"
    PROVE  ProcShape(p, new, source)
<1>1. p.step = Total <=> d + 1 = Hours
  <2>1. StepsPerHour \in Nat \ {0} /\ Hours \in Nat
    BY ZoneCount
  <2>2. /\ d + 1 < Hours => (d + 1) * StepsPerHour + StepsPerHour <= Hours * StepsPerHour
        /\ (d + 1) * StepsPerHour \in Nat /\ Hours * StepsPerHour \in Nat
    BY <2>1, Multiples
  <2> DEFINE x == (d + 1) * StepsPerHour
             y == Hours * StepsPerHour
  <2>3. d + 1 < Hours => x < y
    <3>1. x \in Nat /\ y \in Nat /\ (d + 1 < Hours => x + StepsPerHour <= y)
      BY <2>2
    <3> HIDE DEF x, y
    <3> QED
      BY <2>1, <3>1
  <2>4. d + 1 < Hours \/ d + 1 = Hours
    BY <2>1
  <2>5. x \in Nat /\ y \in Nat /\ p.step = x /\ Total = y
    BY <2>2 DEF Total
  <2>6. d + 1 = Hours => x = y
    OBVIOUS
  <2> HIDE DEF x, y
  <2> QED
    BY <2>1, <2>3, <2>4, <2>5, <2>6
<1>2. BetweenHours(p, new)
  BY DEF BetweenHours
<1>3. CASE d + 1 = Hours
  <2>1. Asked(new, source) /\ p.pc = "stop"
    BY <1>1, <1>3, ZoneCount
  <2>2. Over(p, new, source)
    BY <1>1, <1>3, <2>1 DEF Over, Evaluating
  <2> QED
    BY <2>1, <2>2 DEF ProcShape
<1>4. CASE d + 1 # Hours
  <2>1. p.pc = "hour" /\ d + 1 < Hours
    BY <1>1, <1>4, ZoneCount
  <2>2. HourOpen(p, new, source)
    BY <1>2, <2>1 DEF HourOpen
  <2> QED
    BY <2>1, <2>2 DEF ProcShape
<1> QED
  BY <1>3, <1>4

LEMMA ReflectStep ==
    ASSUME HourlyInv, Reflect
    PROVE  HourlyInv'
<1> DEFINE source == Origin(runs, proc.run)
           n == Imported(Me, source)
           d == Len(Me.decisions)
           r == proc.run
<1>1. /\ proc.pc = "hour_end" /\ Me \in Directories /\ proc \in Processes /\ Me.end = "open"
      /\ r \in Nat \ {0} /\ r \in DOMAIN runs /\ n \in Nat /\ d \in Nat
      /\ Shape(Me, r) /\ PrefixShape(Me, r, source, n) /\ Me.cut = n * StepsPerHour
      /\ Evaluating(proc, Me, source) /\ InHour(proc, Me, source) /\ d < Hours
      /\ StepsPerHour \in Nat \ {0} /\ d * StepsPerHour \in Nat
      /\ (d + 1) * StepsPerHour = d * StepsPerHour + StepsPerHour
      /\ Asked(Me, source) <=> n <= d
  BY HourEntered DEF Reflect
<1>2. proc.step = (d + 1) * StepsPerHour /\ proc.step \in Nat
  <2>1. ProcShape(proc, Me, source)
    BY <1>1, Running
  <2> QED
    BY <1>1, <2>1 DEF ProcShape, Processes
<1>3. HourOf(proc.step - 1) = d /\ n <= d /\ Asked(Me, source)
  <2>1. proc.step > n * StepsPerHour
    BY <1>1 DEF Reflect
  <2> HIDE DEF d, n
  <2>2. HourOf(proc.step - 1) = d /\ (proc.step > n * StepsPerHour <=> n <= d)
    BY <1>1, <1>2, HourIs
  <2> QED
    BY <1>1, <2>1, <2>2
<1>4. /\ CallsPerHour = Z + 2 /\ Z \in Nat \ {0} /\ d * CallsPerHour \in Nat
      /\ (d + 1) * CallsPerHour = d * CallsPerHour + CallsPerHour
      /\ n * CallsPerHour \in Nat /\ n * CallsPerHour <= d * CallsPerHour
  <2>1. CallsPerHour \in Nat \ {0} /\ CallsPerHour = Z + 2 /\ Z \in Nat \ {0}
    BY ZoneCount
  <2> HIDE DEF d, n
  <2>2. /\ d * CallsPerHour \in Nat /\ n * CallsPerHour \in Nat
        /\ (d + 1) * CallsPerHour = d * CallsPerHour + CallsPerHour
    BY <1>1, <2>1, Multiples
  <2>3. n * CallsPerHour <= d * CallsPerHour
    BY <1>1, <1>3, <2>1, Multiples
  <2> QED
    BY <2>1, <2>2, <2>3
<1>5. /\ Len(Me.steps) = proc.step /\ Len(Me.updates) = (d + 1) * Z
      /\ \A k \in 1 .. Z : proc.versions[ZoneSeq[k]] = Me.updates[d * Z + k].after
      /\ \A s \in DOMAIN Me.steps : d * StepsPerHour < s => Me.steps[s].versions = proc.versions
      /\ Len(Me.calls) = (d + 1) * CallsPerHour - 1 /\ Given(proc, Me, source)
  BY <1>1, <1>3 DEF InHour
<1>6. /\ Answered(Me) /\ Me.calls \in Seq(CallRows) /\ DOMAIN Me.calls = 1 .. Len(Me.calls)
      /\ Me.caol \in Seq(MemoryRows) /\ Me.decisions \in Seq(DecisionRows)
  BY <1>1, Streams DEF Evaluating
<1>7. PICK a \in Answers :
         LET hour == HourOf(proc.step - 1)
             call == Call(hour, "reflector", a.tries, a.ok, a.good)
             memory == [i \in DOMAIN ZoneSeq |-> [hour |-> hour, zone |-> ZoneSeq[i], by |-> proc.run]]
             decision == [hour |-> hour, alloc |-> proc.prev, fallback |-> proc.fell,
                          versions |-> proc.versions]
         IN IF a.ok
               THEN /\ runs' = [runs EXCEPT ![proc.run] =
                           [Closed(hour, memory, decision) EXCEPT !.calls = Append(@, call)]]
                    /\ proc' = [proc EXCEPT !.pc = AfterHour]
               ELSE Broken(<<call>>, "terminal_transport_error")
  BY DEF Reflect
<1> DEFINE call == Call(d, "reflector", a.tries, a.ok, a.good)
           memory == [i \in DOMAIN ZoneSeq |-> [hour |-> d, zone |-> ZoneSeq[i], by |-> proc.run]]
           decision == [hour |-> d, alloc |-> proc.prev, fallback |-> proc.fell,
                        versions |-> proc.versions]
<1>8. IF a.ok
      THEN /\ runs' = [runs EXCEPT ![proc.run] =
                  [Closed(d, memory, decision) EXCEPT !.calls = Append(@, call)]]
           /\ proc' = [proc EXCEPT !.pc = AfterHour]
      ELSE Broken(<<call>>, "terminal_transport_error")
  BY <1>3, <1>7
<1>9. /\ CallPlaced(call, d * CallsPerHour + CallsPerHour) /\ call \in CallRows
      /\ call.ok = a.ok /\ call.by = r
  <2>1. CallPlaced(call, d * CallsPerHour + CallsPerHour) /\ call \in CallRows
    BY <1>1, CallAt
  <2>2. call.ok = a.ok /\ call.by = r
    BY DEF Call
  <2> QED
    BY <2>1, <2>2
<1>10. /\ memory \in Seq(MemoryRows) /\ Len(memory) = Z
       /\ \A k \in 1 .. Z : memory[k].hour = d /\ memory[k].zone = ZoneSeq[k] /\ memory[k].by = r
  <2>1. /\ DOMAIN ZoneSeq = 1 .. Z /\ Z \in Nat /\ \A k \in 1 .. Z : ZoneSeq[k] \in Zones
    BY ZoneCount
  <2>2. \A k \in 1 .. Z : memory[k].hour = d /\ memory[k].zone = ZoneSeq[k] /\ memory[k].by = r
    BY <2>1
  <2>3. memory \in [1 .. Z -> MemoryRows]
    <3> HIDE DEF d, r
    <3>1. \A k \in 1 .. Z : [hour |-> d, zone |-> ZoneSeq[k], by |-> proc.run] \in MemoryRows
      BY <1>1, <2>1 DEF MemoryRows, r
    <3> QED
      BY <2>1, <3>1
  <2> HIDE DEF memory
  <2>4. memory \in Seq(MemoryRows) /\ Len(memory) = Z
    BY <2>1, <2>3
  <2> QED
    BY <2>2, <2>4
<1>11. /\ decision \in DecisionRows /\ decision.hour = d /\ decision.alloc = proc.prev
       /\ decision.fallback = proc.fell /\ decision.versions = proc.versions
  BY <1>1 DEF DecisionRows, Processes
<1> HIDE DEF call, memory, decision
<1>12. Len(Me.calls) + 1 = d * CallsPerHour + CallsPerHour /\ n * CallsPerHour <= Len(Me.calls)
       /\ Len(Me.calls) + 1 = (d + 1) * CallsPerHour
  <2> DEFINE x == n * CallsPerHour
             y == d * CallsPerHour
             w == (d + 1) * CallsPerHour
             m == Len(Me.calls)
  <2>1. /\ x \in Nat /\ y \in Nat /\ x <= y /\ w = y + CallsPerHour /\ CallsPerHour = Z + 2
        /\ Z \in Nat /\ m = w - 1
    BY <1>4, <1>5
  <2> HIDE DEF x, y, w, m
  <2>2. m + 1 = y + CallsPerHour /\ x <= m /\ m + 1 = w
    BY <2>1
  <2> QED
    BY <2>2 DEF x, y, w, m
<1>13. CallPlaced(call, Len(Me.calls) + 1)
  BY <1>9, <1>12
<1>14. CASE a.ok
  <2> DEFINE s == Append(Me.calls, call)
             more == <<call>>
             caol == Me.caol \o memory
             decisions == Append(Me.decisions, decision)
             ckpt == [next |-> proc.step, test |-> proc.run, versions |-> proc.versions]
             mid == [Me EXCEPT !.calls = s]
             new == [mid EXCEPT !.caol = caol, !.decisions = decisions, !.ckpt = ckpt]
             p == [proc EXCEPT !.pc = AfterHour]
  <2>1. runs' = [runs EXCEPT ![proc.run] = new] /\ proc' = p
    <3>1. [Closed(d, memory, decision) EXCEPT !.calls = Append(@, call)] = new
      BY <1>1 DEF Closed, Directories
    <3> QED
      BY <1>8, <1>14, <3>1
  <2>2. s = Me.calls \o more /\ more \in Seq(CallRows)
        /\ Len(more) = 1 /\ \A k \in 1 .. 1 : more[k] = call
    BY <1>6, <1>9, OneMore
  <2>3. s \in Seq(CallRows) /\ Len(s) = Len(Me.calls) + 1 /\ s[Len(Me.calls) + 1] = call
        /\ \A i \in 1 .. Len(Me.calls) : s[i] = Me.calls[i]
    BY <1>6, <1>9, OneMore
  <2>4. caol \in Seq(MemoryRows)
    BY <1>6, <1>10, Joined
  <2>5. decisions \in Seq(DecisionRows)
    BY <1>6, <1>11, OneMore
  <2>6. ckpt \in Checkpoints
    BY <1>1 DEF Checkpoints, Processes
  <2> HIDE DEF s, more, caol, decisions, ckpt
  <2>7. /\ mid \in Directories /\ mid.calls = s /\ mid.updates = Me.updates
        /\ mid.steps = Me.steps /\ mid.caol = Me.caol /\ mid.decisions = Me.decisions
        /\ mid.ckpt = Me.ckpt /\ mid.src = Me.src /\ mid.cut = Me.cut /\ mid.end = Me.end
        /\ mid.resume = Me.resume /\ mid.dispatch = Me.dispatch /\ mid.lifecycle = Me.lifecycle
    BY <1>1, <2>3 DEF Directories
  <2> HIDE DEF mid
  <2>8. /\ new \in Directories /\ new.calls = mid.calls /\ new.updates = mid.updates
        /\ new.steps = mid.steps /\ new.caol = caol /\ new.decisions = decisions
        /\ new.ckpt = ckpt
    BY <2>4, <2>5, <2>6, <2>7 DEF Directories
  <2>9. /\ new.src = Me.src /\ new.cut = Me.cut /\ new.end = Me.end
        /\ new.resume = Me.resume /\ new.dispatch = Me.dispatch /\ new.lifecycle = Me.lifecycle
    BY <2>7 DEF Directories
  <2>10. p \in Processes /\ p.pc = AfterHour /\ p.run = proc.run /\ p.step = proc.step
         /\ p.versions = proc.versions /\ p.fell = proc.fell /\ p.prev = proc.prev
    <3>1. AfterHour \in {"stop", "hour"}
      BY DEF AfterHour
    <3> DEFINE pc == AfterHour
    <3> HIDE DEF pc
    <3>2. p = [proc EXCEPT !.pc = pc] /\ pc \in Pcs
      BY <3>1 DEF pc, Pcs
    <3> HIDE DEF p
    <3>3. /\ p \in Processes /\ p.pc = pc /\ p.run = proc.run /\ p.step = proc.step
          /\ p.versions = proc.versions /\ p.fell = proc.fell /\ p.prev = proc.prev
      BY <1>1, <3>2 DEF Processes
    <3> QED
      BY <3>3 DEF pc
  <2> HIDE DEF new, p
  <2>11. Answered(mid) /\ FailedShape(mid)
    <3>1. \A k \in 1 .. Len(more) : more[k].ok
      BY <1>9, <1>14, <2>2
    <3>2. mid.calls = Me.calls \o more
      BY <2>2, <2>7
    <3> QED
      BY <1>6, <2>2, <3>1, <3>2, AnsweredMore
  <2>12. Shape(mid, r) /\ PrefixShape(mid, r, source, n)
    <3>1. \A k \in 1 .. Len(more) : CallPlaced(more[k], Len(Me.calls) + k) /\ more[k].by = r
      BY <1>9, <1>13, <2>2
    <3>2. mid.calls = Me.calls \o more
      BY <2>2, <2>7
    <3> HIDE DEF n, r, source
    <3> QED
      BY <1>1, <1>12, <2>2, <2>7, <2>11, <3>1, <3>2, CallsIssued
  <2>13. Closes(mid, source, n, memory, decision)
    <3> DEFINE first == d * CallsPerHour + 1
               last == (d + 1) * CallsPerHour
               m == Len(Me.calls)
    <3>1. mid.calls[first] = Me.calls[first]
      <4>1. m \in Nat /\ m + 1 = d * CallsPerHour + CallsPerHour
        BY <1>6, <1>12
      <4>2. first \in 1 .. m
        <5> DEFINE y == d * CallsPerHour
        <5>1. y \in Nat /\ first = y + 1 /\ m + 1 = y + CallsPerHour
          BY <1>4, <4>1
        <5>2. m \in Nat /\ CallsPerHour = Z + 2 /\ Z \in Nat \ {0}
          BY <1>4, <4>1
        <5> HIDE DEF first, y, m
        <5> QED
          BY <5>1, <5>2
      <4> HIDE DEF first
      <4> QED
        BY <2>3, <2>7, <4>2
    <3>2. mid.calls[last] = call /\ last <= Len(mid.calls)
      BY <1>12, <2>3, <2>7
    <3>3. mid.decisions = Me.decisions /\ Len(mid.decisions) = d /\ ~(d < n)
      BY <1>1, <1>3, <2>7
    <3>4. LastAllocation(mid) = LastAllocation(Me)
      BY <3>3 DEF LastAllocation
    <3>5. /\ proc.fell = ~Me.calls[first].good
          /\ proc.prev = Allocated(Me.calls[first], d + 1, LastAllocation(Me))
      BY <1>3, <1>5 DEF Given
    <3>6. /\ Len(mid.steps) = (d + 1) * StepsPerHour /\ Len(mid.updates) = (d + 1) * Z
          /\ \A k \in 1 .. Z : decision.versions[ZoneSeq[k]] = mid.updates[d * Z + k].after
          /\ \A i \in DOMAIN mid.steps : d * StepsPerHour < i => mid.steps[i].versions = decision.versions
      BY <1>2, <1>5, <1>11, <2>7
    <3>7. /\ Len(memory) = Z
          /\ \A k \in 1 .. Z : /\ memory[k].hour = d /\ memory[k].zone = ZoneSeq[k]
                               /\ memory[k].by = mid.calls[last].by
                               /\ d < n => memory[k] = source.caol[d * Z + k]
      BY <1>9, <1>10, <3>2, <3>3
    <3>8. /\ decision.fallback = ~mid.calls[first].good
          /\ decision.alloc = Allocated(mid.calls[first], d + 1, LastAllocation(mid))
      BY <1>11, <3>1, <3>4, <3>5
    <3> HIDE DEF d
    <3>9. decision.hour = d /\ d < Hours
      BY <1>1, <1>11
    <3> QED
      BY ZenonT(40), <3>2, <3>3, <3>6, <3>7, <3>8, <3>9 DEF Closes
  <2>14. /\ Shape(new, r) /\ PrefixShape(new, r, source, n) /\ Answered(new)
         /\ Len(new.decisions) = d + 1 /\ LastVersions(new) = proc.versions
         /\ LastAllocation(new) = proc.prev
    <3>1. new.caol = mid.caol \o memory /\ new.decisions = Append(mid.decisions, decision)
      BY <2>7, <2>8 DEF caol, decisions
    <3>2. new.ckpt = [next |-> (d + 1) * StepsPerHour, test |-> r,
                      versions |-> decision.versions]
      BY <1>2, <1>11, <2>8 DEF ckpt
    <3>3. d = Len(mid.decisions)
      BY <2>7
    <3> HIDE DEF n, r, source, d
    <3>4. /\ mid \in Directories /\ new \in Directories /\ n \in Nat /\ d \in Nat
          /\ memory \in Seq(MemoryRows) /\ decision \in DecisionRows
          /\ Shape(mid, r) /\ PrefixShape(mid, r, source, n) /\ Answered(mid)
          /\ new.calls = mid.calls /\ new.steps = mid.steps /\ new.updates = mid.updates
      BY <1>1, <1>10, <1>11, <2>7, <2>8, <2>11, <2>12
    <3>5. Shape(new, r)
      BY <2>13, <3>1, <3>2, <3>3, <3>4, HourClosed
    <3>6. PrefixShape(new, r, source, n)
      BY <2>13, <3>1, <3>2, <3>3, <3>4, HourClosed
    <3>7. Answered(new) /\ Len(new.decisions) = d + 1
      BY SMTT(30), <2>13, <3>1, <3>2, <3>3, <3>4, HourClosed
    <3>8. LastVersions(new) = decision.versions /\ LastAllocation(new) = decision.alloc
      BY <2>13, <3>1, <3>2, <3>3, <3>4, HourClosed
    <3> QED
      BY <1>11, <3>5, <3>6, <3>7, <3>8
  <2>15. Asked(new, source) /\ Resumed(new, source) = Resumed(Me, source)
    <3>1. Imported(new, source) = n
      BY <2>9 DEF Imported
    <3>2. Asked(new, source)
      BY <1>1, <1>3, <2>14, <3>1 DEF Asked
    <3> QED
      BY <1>3, <2>9, <3>2 DEF Resumed
  <2>16. Evaluating(p, new, source)
    BY <1>1, <2>9, <2>14, <2>15 DEF Evaluating
  <2>17. ProcShape(p, new, source)
    <3>1. /\ p.step = (d + 1) * StepsPerHour /\ Len(new.steps) = p.step
          /\ Len(new.updates) = (d + 1) * Z
      BY <1>2, <1>5, <2>7, <2>8, <2>10
    <3>2. Len(new.calls) = (d + 1) * CallsPerHour
      BY <1>12, <2>3, <2>7, <2>8
    <3>3. p.pc = IF p.step = Total THEN "stop" ELSE "hour"
      BY <2>10 DEF AfterHour
    <3>4. p.versions = LastVersions(new) /\ p.prev = LastAllocation(new)
      BY <2>10, <2>14
    <3> HIDE DEF d, n, source
    <3> QED
      BY <1>1, <2>14, <2>15, <2>16, <3>1, <3>2, <3>3, <3>4, HourOver
  <2>18. Ended(new, source)
    BY <1>1, <2>9, OpenEnded
  <2>19. p.pc # "idle"
    BY <2>10 DEF AfterHour
  <2> QED
    BY <1>1, <2>1, <2>8, <2>9, <2>10, <2>14, <2>17, <2>18, <2>19, Writes
<1>15. CASE ~a.ok
  <2>1. Broken(<<call>>, "terminal_transport_error")
    BY <1>8, <1>15
  <2>2. proc.pc # "idle" /\ ~call.ok /\ call.by = proc.run /\ call \in CallRows
    BY <1>1, <1>9, <1>15
  <2>3. Len(Me.calls) + 1 \in {d * CallsPerHour + 1, (d + 1) * CallsPerHour}
    BY <1>12
  <2> QED
    BY <1>6, <1>12, <1>13, <2>1, <2>2, <2>3, CallFails
<1> QED
  BY <1>14, <1>15

\* What closes an hour that is replayed is what closed it in the source.
LEMMA SourceCloses ==
    ASSUME HourlyInv, proc.pc = "hour_end", proc.step <= Me.cut
    PROVE  LET source == Origin(runs, proc.run)
               n == Imported(Me, source)
               d == Len(Me.decisions)
               hour == HourOf(proc.step - 1)
               rows == OfHour(Source.caol, hour)
               decision == Source.decisions[hour + 1]
           IN  /\ hour = d /\ d < n /\ n < Hours /\ ~Asked(Me, source)
               /\ proc.step = Me.cut <=> d + 1 = n
               /\ rows \in Seq(MemoryRows) /\ decision \in DecisionRows
               /\ decision.versions = proc.versions /\ decision.alloc = proc.prev
               /\ Closes(Me, source, n, rows, decision)
               /\ proc.step = (d + 1) * StepsPerHour /\ Len(Me.calls) = n * CallsPerHour
<1> DEFINE source == Origin(runs, proc.run)
           n == Imported(Me, source)
           d == Len(Me.decisions)
           r == proc.run
           hour == HourOf(proc.step - 1)
           rows == OfHour(Source.caol, hour)
           decision == Source.decisions[hour + 1]
<1>1. /\ Me \in Directories /\ proc \in Processes /\ n \in Nat /\ d \in Nat
      /\ Shape(Me, r) /\ PrefixShape(Me, r, source, n) /\ Me.cut = n * StepsPerHour
      /\ InHour(proc, Me, source) /\ d < Hours
      /\ StepsPerHour \in Nat \ {0} /\ d * StepsPerHour \in Nat
      /\ (d + 1) * StepsPerHour = d * StepsPerHour + StepsPerHour
      /\ n * StepsPerHour \in Nat
      /\ Asked(Me, source) <=> n <= d
  BY HourEntered
<1>2. proc.step = (d + 1) * StepsPerHour /\ proc.step \in Nat
  <2>1. ProcShape(proc, Me, source)
    BY <1>1, Running
  <2> QED
    BY <1>1, <2>1 DEF ProcShape, Processes
<1>3. hour = d /\ d < n /\ ~Asked(Me, source) /\ (proc.step = Me.cut <=> d + 1 = n)
  <2> HIDE DEF d, n
  <2>1. /\ HourOf(proc.step - 1) = d /\ (proc.step > n * StepsPerHour <=> n <= d)
        /\ proc.step = n * StepsPerHour <=> n = d + 1
    BY <1>1, <1>2, HourIs
  <2>2. ~(proc.step > n * StepsPerHour)
    BY <1>1, <1>2
  <2> QED
    BY <1>1, <2>1, <2>2
<1>4. /\ Me.src # 0 /\ Source = source /\ source \in Directories
      /\ n = Len(source.decisions) /\ Shape(source, Me.src) /\ n < Hours
      /\ source.decisions[d + 1] \in DecisionRows
  BY <1>1, <1>3, SourceHour
<1>5. /\ Len(Me.steps) = proc.step /\ Len(Me.updates) = (d + 1) * Z
      /\ \A k \in 1 .. Z : proc.versions[ZoneSeq[k]] = Me.updates[d * Z + k].after
      /\ \A s \in DOMAIN Me.steps : d * StepsPerHour < s => Me.steps[s].versions = proc.versions
      /\ Len(Me.calls) = n * CallsPerHour
      /\ proc.prev = source.decisions[d + 1].alloc
  BY <1>1, <1>3 DEF InHour, Given
<1>6. /\ CallsPerHour \in Nat \ {0} /\ CallsPerHour = Z + 2 /\ Z \in Nat \ {0}
      /\ \A z \in Zones : \E k \in 1 .. Z : z = ZoneSeq[k]
  BY ZoneCount
<1> DEFINE given == source.decisions[d + 1]
           us == source.updates
           caol == source.caol
           calls == source.calls
<1>7. /\ us \in Seq(UpdateRows) /\ DOMAIN us = 1 .. Len(us) /\ Len(us) \in Nat
      /\ caol \in Seq(MemoryRows) /\ DOMAIN caol = 1 .. Len(caol) /\ Len(caol) \in Nat
      /\ calls \in Seq(CallRows) /\ DOMAIN calls = 1 .. Len(calls) /\ Len(calls) \in Nat
      /\ DOMAIN source.decisions = 1 .. n
      /\ DOMAIN Me.updates = 1 .. Len(Me.updates) /\ DOMAIN Me.calls = 1 .. Len(Me.calls)
      /\ DOMAIN Me.decisions = 1 .. d
  BY <1>1, <1>4, Streams
<1>8. /\ UpdatesShape(source) /\ MemoryShape(source) /\ CallsShape(source)
      /\ AllocationsShape(source) /\ DecisionsShape(source)
  BY <1>4 DEF Shape
<1> HIDE DEF given, us, caol, calls, n, d, hour, source, r
<1>9. /\ (d + 1) * Z = d * Z + Z /\ d * Z \in Nat /\ n * Z \in Nat /\ (d + 1) * Z <= n * Z
  <2>1. (d + 1) * Z = d * Z + Z /\ d * Z \in Nat /\ n * Z \in Nat
    BY <1>1, <1>6, Multiples
  <2>2. d + 1 \in Int /\ n \in Int /\ d + 1 <= n
    BY <1>1, <1>3
  <2>3. (d + 1) * Z <= n * Z
    BY <1>6, <2>2, Multiples
  <2> QED
    BY <2>1, <2>3
<1>10. /\ (d + 1) * CallsPerHour = d * CallsPerHour + CallsPerHour
       /\ d * CallsPerHour \in Nat /\ n * CallsPerHour \in Nat
       /\ (d + 1) * CallsPerHour <= n * CallsPerHour
  <2>1. (d + 1) * CallsPerHour = d * CallsPerHour + CallsPerHour /\ d * CallsPerHour \in Nat
        /\ n * CallsPerHour \in Nat
    BY <1>1, <1>6, Multiples
  <2>2. d + 1 \in Int /\ n \in Int /\ d + 1 <= n
    BY <1>1, <1>3
  <2>3. (d + 1) * CallsPerHour <= n * CallsPerHour
    BY <1>6, <2>2, Multiples
  <2> QED
    BY <2>1, <2>3
<1>11. given.hour = d /\ given \in DecisionRows /\ decision = given /\ proc.prev = given.alloc
  <2>1. d + 1 \in 1 .. n
    BY <1>1, <1>3
  <2>2. source.decisions[d + 1].hour = d + 1 - 1
    <3>1. \A h \in 1 .. n : source.decisions[h].hour = h - 1
      BY <1>7, <1>8 DEF DecisionsShape
    <3> DEFINE e == d + 1
    <3>2. e \in 1 .. n /\ e - 1 = d
      BY <1>1, <2>1
    <3> HIDE DEF e
    <3>3. source.decisions[e].hour = d
      BY <3>1, <3>2
    <3> QED
      BY <1>1, <3>3 DEF e
  <2> QED
    BY <1>1, <1>3, <1>4, <1>5, <2>2 DEF given
<1>12. given.versions = proc.versions
  <2>1. ASSUME NEW k \in 1 .. Z
        PROVE  proc.versions[ZoneSeq[k]] = given.versions[ZoneSeq[k]]
    <3> DEFINE i == d * Z + k
    <3>1. i \in Nat \ {0} /\ i <= n * Z /\ i <= (d + 1) * Z
      <4> DEFINE x == d * Z
                 y == n * Z
                 w == (d + 1) * Z
      <4>1. x \in Nat /\ y \in Nat /\ w = x + Z /\ w <= y /\ k \in 1 .. Z /\ Z \in Nat
            /\ i = x + k
        BY <1>6, <1>9
      <4> HIDE DEF x, y, w, i
      <4>2. i \in Nat \ {0} /\ i <= y /\ i <= w
        BY <4>1
      <4> QED
        BY <4>2 DEF y, w
    <3>2. Block(Z, i) = d /\ Place(Z, i) = k
      BY <1>1, <1>6, Positions
    <3>3. proc.versions[ZoneSeq[k]] = Me.updates[i].after
      BY <1>5
    <3> HIDE DEF i
    <3>4. i \in DOMAIN Me.updates
      BY <1>5, <1>7, <3>1
    <3>5. Me.updates[i] = us[i]
      BY <1>1, <3>1, <3>4 DEF PrefixShape, Copied, us
    <3>6. i \in DOMAIN us
      <4>1. Len(us) \in {n * Z, (n + 1) * Z}
        BY <1>4, <1>8 DEF UpdatesShape, us
      <4>2. (n + 1) * Z = n * Z + Z
        BY <1>1, <1>6, Multiples
      <4> DEFINE y == n * Z
                 w == (n + 1) * Z
      <4>3. Len(us) \in {y, w} /\ w = y + Z /\ y \in Nat /\ i <= y
        BY <1>9, <3>1, <4>1, <4>2
      <4> HIDE DEF y, w
      <4>4. i <= Len(us)
        BY <1>6, <3>1, <4>3
      <4> QED
        BY <1>7, <3>1, <4>4
    <3>7. us[i].after = source.decisions[d + 1].versions[ZoneSeq[k]]
      BY <1>3, <1>4, <1>8, <3>2, <3>6 DEF UpdatesShape, us
    <3> QED
      BY <3>3, <3>5, <3>7 DEF given
  <2>2. proc.versions \in [Zones -> Nat] /\ given.versions \in [Zones -> Nat]
    BY <1>1, <1>11 DEF Processes, Programs, DecisionRows
  <2> QED
    BY <1>6, <2>1, <2>2
<1>13. /\ Len(caol) = n * Z
       /\ \A i \in DOMAIN caol :
             /\ caol[i].hour = Block(Z, i) /\ caol[i].zone = ZoneSeq[Place(Z, i)]
             /\ caol[i].by = calls[(Block(Z, i) + 1) * CallsPerHour].by
  BY <1>4, <1>8 DEF MemoryShape, caol, calls
<1>14. /\ rows \in Seq(MemoryRows) /\ Len(rows) = Z
       /\ \A k \in 1 .. Z : rows[k] = caol[d * Z + k]
  <2> DEFINE x == d * Z
  <2>1. x + Z <= Len(caol) /\ x \in Nat
    BY <1>9, <1>13
  <2>2. OfHour(caol, d) = SubSeq(caol, d * Z + 1, d * Z + Z)
    <3>1. \A i \in DOMAIN caol : caol[i].hour = Block(Z, i)
      BY <1>13
    <3>2. caol \in Seq(MemoryRows) /\ Z \in Nat \ {0} /\ d \in Nat /\ d * Z + Z <= Len(caol)
      BY <1>1, <1>6, <1>7, <2>1
    <3> HIDE DEF Z
    <3> QED
      BY <3>1, <3>2, OfHourIs
  <2>3. rows = SubSeq(caol, x + 1, x + Z)
    BY <1>3, <1>4, <2>2 DEF caol
  <2> HIDE DEF x, rows
  <2>4. rows \in Seq(MemoryRows) /\ Len(rows) = Z /\ \A k \in 1 .. Z : rows[k] = caol[x + k]
    <3>1. caol \in Seq(MemoryRows) /\ x \in Nat /\ Z \in Nat /\ x + Z <= Len(caol)
      BY <1>6, <1>7, <2>1
    <3>2. rows \in Seq(MemoryRows)
      BY <2>3, <3>1, Taken
    <3>3. Len(rows) = Z
      BY <2>3, <3>1, Taken
    <3>4. \A k \in 1 .. Z : rows[k] = caol[x + k]
      BY <2>3, <3>1, Taken
    <3> QED
      BY <3>2, <3>3, <3>4
  <2> QED
    BY <2>4 DEF x
<1> HIDE DEF rows
<1>15. \A i \in 1 .. (d + 1) * CallsPerHour : Me.calls[i] = calls[i]
  <2> DEFINE y == n * CallsPerHour
             w == (d + 1) * CallsPerHour
  <2>1. \A i \in DOMAIN Me.calls : i <= y => Me.calls[i] = calls[i]
    BY <1>1 DEF PrefixShape, CallsOwned, calls
  <2>2. DOMAIN Me.calls = 1 .. y /\ y \in Nat /\ w <= y /\ w \in Int
    <3>1. w \in Int
      BY <1>6, <1>10
    <3> QED
      BY <1>5, <1>7, <1>10, <3>1
  <2> HIDE DEF y, w
  <2>3. \A i \in 1 .. w : Me.calls[i] = calls[i]
    BY <2>1, <2>2
  <2> QED
    BY <2>3 DEF w
<1>16. ASSUME NEW k \in 1 .. Z
       PROVE  /\ rows[k].hour = d /\ rows[k].zone = ZoneSeq[k]
              /\ rows[k].by = Me.calls[(d + 1) * CallsPerHour].by
              /\ rows[k] = source.caol[d * Z + k]
  <2> DEFINE i == d * Z + k
  <2>1. i \in DOMAIN caol
    <3> DEFINE x == d * Z
    <3>1. x \in Nat /\ x + Z <= Len(caol) /\ i = x + k
      BY <1>9, <1>13
    <3> HIDE DEF x, i
    <3> QED
      BY <1>6, <1>7, <3>1
  <2>2. Block(Z, i) = d /\ Place(Z, i) = k
    BY <1>1, <1>6, Positions
  <2>3. rows[k] = caol[i]
    BY <1>14
  <2> HIDE DEF i
  <2>4. /\ caol[i].hour = d /\ caol[i].zone = ZoneSeq[k]
        /\ caol[i].by = calls[(d + 1) * CallsPerHour].by
    BY <1>13, <2>1, <2>2
  <2>5. calls[(d + 1) * CallsPerHour] = Me.calls[(d + 1) * CallsPerHour]
    <3> DEFINE w == (d + 1) * CallsPerHour
    <3>1. w \in 1 .. w
      BY <1>6, <1>10
    <3> QED
      BY <1>15, <3>1
  <2> QED
    BY <2>3, <2>4, <2>5 DEF i, caol
<1>17. LET call == Me.calls[d * CallsPerHour + 1]
       IN  /\ given.fallback = ~call.good
           /\ given.alloc = Allocated(call, d + 1, LastAllocation(Me))
  <2> DEFINE first == d * CallsPerHour + 1
  <2>1. first \in 1 .. (d + 1) * CallsPerHour
    <3> DEFINE x == d * CallsPerHour
               w == (d + 1) * CallsPerHour
    <3>1. x \in Nat /\ w = x + CallsPerHour /\ first = x + 1
      BY <1>10
    <3> HIDE DEF x, w, first
    <3>2. first \in 1 .. w
      BY <1>6, <3>1
    <3> QED
      BY <3>2 DEF w
  <2>2. Me.calls[first] = calls[first]
    BY <1>15, <2>1
  <2>3. d + 1 \in 1 .. n /\ d + 1 - 1 = d
    BY <1>1, <1>3
  <2>4. /\ given.fallback = ~calls[first].good
        /\ given.alloc = Allocated(calls[first], d + 1,
                            IF d + 1 = 1 THEN Split ELSE source.decisions[d].alloc)
    <3> DEFINE h == d + 1
    <3>1. \A i \in 1 .. n :
              /\ source.decisions[i].fallback = ~calls[(i - 1) * CallsPerHour + 1].good
              /\ source.decisions[i].alloc =
                    Allocated(calls[(i - 1) * CallsPerHour + 1], i,
                              IF i = 1 THEN Split ELSE source.decisions[i - 1].alloc)
      BY <1>7, <1>8 DEF AllocationsShape, calls
    <3>2. h \in 1 .. n /\ h - 1 = d
      BY <1>1, <2>3
    <3>3. first = (h - 1) * CallsPerHour + 1
      BY <3>2
    <3> HIDE DEF h, first
    <3>4. /\ source.decisions[h].fallback = ~calls[first].good
          /\ source.decisions[h].alloc =
                    Allocated(calls[first], h,
                              IF h = 1 THEN Split ELSE source.decisions[d].alloc)
      BY <3>1, <3>2, <3>3
    <3> QED
      BY <3>4 DEF h, given
  <2>5. (IF d + 1 = 1 THEN Split ELSE source.decisions[d].alloc) = LastAllocation(Me)
    <3>1. Me.decisions = << >> <=> d = 0
      BY <1>1, Streams DEF d
    <3>2. d # 0 => Me.decisions[d] = source.decisions[d]
      <4>1. d # 0 => d \in DOMAIN Me.decisions /\ d <= n
        BY <1>1, <1>3, <1>7
      <4> QED
        BY <1>1, <4>1 DEF PrefixShape, Copied
    <3> QED
      BY <1>1, <3>1, <3>2 DEF LastAllocation, d
  <2> HIDE DEF first
  <2>6. given.fallback = ~Me.calls[first].good
        /\ given.alloc = Allocated(Me.calls[first], d + 1, LastAllocation(Me))
    BY <2>2, <2>4, <2>5
  <2> QED
    BY <2>6 DEF first
<1>18. Closes(Me, source, n, rows, given)
  <2>1. /\ Len(Me.steps) = (d + 1) * StepsPerHour /\ Len(Me.updates) = (d + 1) * Z
        /\ \A k \in 1 .. Z : given.versions[ZoneSeq[k]] = Me.updates[d * Z + k].after
        /\ \A i \in DOMAIN Me.steps : d * StepsPerHour < i => Me.steps[i].versions = given.versions
    BY <1>2, <1>5, <1>12
  <2>2. (d + 1) * CallsPerHour <= Len(Me.calls)
    BY <1>5, <1>10
  <2>3. given.hour = d /\ given = source.decisions[d + 1] /\ d < Hours /\ Len(rows) = Z
    BY <1>1, <1>11, <1>14 DEF given
  <2>4. \A k \in 1 .. Z : /\ rows[k].hour = d /\ rows[k].zone = ZoneSeq[k]
                          /\ rows[k].by = Me.calls[(d + 1) * CallsPerHour].by
                          /\ d < n => rows[k] = source.caol[d * Z + k]
    BY <1>16
  <2> QED
    BY <1>17, <2>1, <2>2, <2>3, <2>4 DEF Closes, d
<1> QED
  BY <1>2, <1>3, <1>4, <1>5, <1>11, <1>12, <1>14, <1>18 DEF n, d, hour, source, rows

LEMMA Completed == Append(<<"started">>, "completed") = <<"started", "completed">>
<1> DEFINE Events == {"started", "completed"}
           a == <<"started">>
           e == "completed"
           c == <<"started", "completed">>
           s == Append(a, e)
<1>1. /\ a \in Seq(Events) /\ Len(a) = 1 /\ a[1] = "started"
      /\ c \in Seq(Events) /\ Len(c) = 2 /\ c[1] = "started" /\ c[2] = e
      /\ e \in Events
  OBVIOUS
<1>2. \A T : a \in Seq(T) /\ e \in T =>
         /\ s \in Seq(T) /\ Len(s) = Len(a) + 1 /\ s[Len(a) + 1] = e
         /\ \A i \in 1 .. Len(a) : s[i] = a[i]
  <2> HIDE DEF a, e
  <2> TAKE T
  <2> HAVE a \in Seq(T) /\ e \in T
  <2>1. s \in Seq(T) /\ Len(s) = Len(a) + 1
    BY OneMore
  <2>2. s[Len(a) + 1] = e
    BY OneMore
  <2>3. \A i \in 1 .. Len(a) : s[i] = a[i]
    BY OneMore
  <2> QED
    BY <2>1, <2>2, <2>3
<1> HIDE DEF a, c, s, e, Events
<1>3. s \in Seq(Events) /\ Len(s) = 2 /\ s[1] = a[1] /\ s[2] = e
  BY <1>1, <1>2
<1>4. \A i \in 1 .. 2 : s[i] = c[i]
  <2>1. \A i \in 1 .. 2 : i = 1 \/ i = 2
    OBVIOUS
  <2> QED
    BY <1>1, <1>3, <2>1
<1>5. s = [i \in 1 .. 2 |-> s[i]] /\ c = [i \in 1 .. 2 |-> c[i]]
  BY <1>1, <1>3
<1> QED
  BY <1>4, <1>5 DEF a, c, s, e

LEMMA ReplayHourEndStep ==
    ASSUME HourlyInv, ReplayHourEnd
    PROVE  HourlyInv'
<1> DEFINE source == Origin(runs, proc.run)
           n == Imported(Me, source)
           d == Len(Me.decisions)
           r == proc.run
           hour == HourOf(proc.step - 1)
           rows == OfHour(Source.caol, hour)
           decision == Source.decisions[hour + 1]
           last == proc.step = Me.cut
<1>1. /\ proc.pc = "hour_end" /\ Me \in Directories /\ proc \in Processes /\ Me.end = "open"
      /\ r \in Nat \ {0} /\ r \in DOMAIN runs /\ n \in Nat /\ d \in Nat
      /\ Shape(Me, r) /\ PrefixShape(Me, r, source, n) /\ Me.cut = n * StepsPerHour
      /\ Evaluating(proc, Me, source) /\ InHour(proc, Me, source)
  BY HourEntered DEF ReplayHourEnd
<1>2. /\ hour = d /\ d < n /\ n < Hours /\ ~Asked(Me, source)
      /\ last <=> d + 1 = n
      /\ rows \in Seq(MemoryRows) /\ decision \in DecisionRows
      /\ decision.versions = proc.versions /\ decision.alloc = proc.prev
      /\ Closes(Me, source, n, rows, decision)
      /\ proc.step = (d + 1) * StepsPerHour /\ Len(Me.calls) = n * CallsPerHour
  BY SourceCloses DEF ReplayHourEnd
<1>3. IF last /\ proc.versions # Source.ckpt.versions
         THEN Broken(<< >>, "terminal_runtime_error")
         ELSE /\ runs' = [runs EXCEPT ![proc.run] =
                    [Closed(hour, rows, decision)
                        EXCEPT !.resume = IF last THEN Append(@, "completed") ELSE @]]
              /\ proc' = [proc EXCEPT !.pc = AfterHour]
  BY DEF ReplayHourEnd
<1>4. Answered(Me) /\ Me.resume = Resumed(Me, source) /\ Me.src # 0
  <2>1. Answered(Me) /\ Me.resume = Resumed(Me, source)
    BY <1>1 DEF Evaluating
  <2>2. Me.src # 0
    BY <1>1, <1>2 DEF Imported
  <2> QED
    BY <2>1, <2>2
<1>5. /\ Me.calls \in Seq(CallRows) /\ Me.caol \in Seq(MemoryRows)
      /\ Me.decisions \in Seq(DecisionRows)
  BY <1>1, Streams
<1> HIDE DEF rows, decision, hour, last
<1>6. CASE Broken(<< >>, "terminal_runtime_error")
  BY <1>1, <1>6, BreaksOff
<1>7. CASE ~(last /\ proc.versions # Source.ckpt.versions)
  <2> DEFINE caol == Me.caol \o rows
             decisions == Append(Me.decisions, decision)
             ckpt == [next |-> proc.step, test |-> proc.run, versions |-> proc.versions]
             resume == IF last THEN <<"started", "completed">> ELSE <<"started">>
             new == [Me EXCEPT !.caol = caol, !.decisions = decisions, !.ckpt = ckpt,
                               !.resume = resume]
             p == [proc EXCEPT !.pc = AfterHour]
  <2>1. runs' = [runs EXCEPT ![proc.run] = new] /\ proc' = p
    <3>1. Me.resume = <<"started">>
      BY <1>2, <1>4 DEF Resumed
    <3>2. Append(<<"started">>, "completed") = <<"started", "completed">>
      BY Completed
    <3>3. (IF last THEN Append(Me.resume, "completed") ELSE Me.resume) = resume
      BY <3>1, <3>2
    <3> HIDE DEF resume
    <3>4. [Closed(hour, rows, decision)
              EXCEPT !.resume = IF last THEN Append(@, "completed") ELSE @]
          = [Closed(hour, rows, decision) EXCEPT !.resume = resume]
      <4>1. Closed(hour, rows, decision).resume = Me.resume
        BY <1>1 DEF Closed, Directories
      <4> QED
        BY <3>3, <4>1
    <3>5. [Closed(hour, rows, decision) EXCEPT !.resume = resume] = new
      BY <1>1 DEF Closed, Directories
    <3> QED
      BY <1>3, <1>7, <3>4, <3>5
  <2>2. caol \in Seq(MemoryRows)
    BY <1>2, <1>5, Joined
  <2>3. decisions \in Seq(DecisionRows)
    BY <1>2, <1>5, OneMore
  <2>4. ckpt \in Checkpoints
    BY <1>1 DEF Checkpoints, Processes
  <2>5. resume \in Seq({"started", "completed"})
    <3>1. <<"started">> \in Seq({"started", "completed"})
      OBVIOUS
    <3>2. <<"started", "completed">> \in Seq({"started", "completed"})
      OBVIOUS
    <3> QED
      BY <3>1, <3>2
  <2>6. resume = IF last THEN <<"started", "completed">> ELSE <<"started">>
    OBVIOUS
  <2> HIDE DEF caol, decisions, ckpt, resume
  <2>8. /\ new \in Directories /\ new.calls = Me.calls /\ new.updates = Me.updates
        /\ new.steps = Me.steps /\ new.caol = caol /\ new.decisions = decisions
        /\ new.ckpt = ckpt /\ new.resume = resume
        /\ new.src = Me.src /\ new.cut = Me.cut /\ new.end = Me.end
        /\ new.dispatch = Me.dispatch /\ new.lifecycle = Me.lifecycle
    BY <1>1, <2>2, <2>3, <2>4, <2>5 DEF Directories
  <2>10. p \in Processes /\ p.pc = AfterHour /\ p.run = proc.run /\ p.step = proc.step
         /\ p.versions = proc.versions /\ p.fell = proc.fell /\ p.prev = proc.prev
    <3>1. AfterHour \in {"stop", "hour"}
      BY DEF AfterHour
    <3> DEFINE pc == AfterHour
    <3> HIDE DEF pc
    <3>2. p = [proc EXCEPT !.pc = pc] /\ pc \in Pcs
      BY <3>1 DEF pc, Pcs
    <3> HIDE DEF p
    <3>3. /\ p \in Processes /\ p.pc = pc /\ p.run = proc.run /\ p.step = proc.step
          /\ p.versions = proc.versions /\ p.fell = proc.fell /\ p.prev = proc.prev
      BY <1>1, <3>2 DEF Processes
    <3> QED
      BY <3>3 DEF pc
  <2> HIDE DEF new, p
  <2>14. /\ Shape(new, r) /\ PrefixShape(new, r, source, n) /\ Answered(new)
         /\ Len(new.decisions) = d + 1 /\ LastVersions(new) = proc.versions
         /\ LastAllocation(new) = proc.prev
    <3>1. new.caol = Me.caol \o rows /\ new.decisions = Append(Me.decisions, decision)
      BY <2>8 DEF caol, decisions
    <3>2. new.ckpt = [next |-> (d + 1) * StepsPerHour, test |-> r,
                      versions |-> decision.versions]
      BY <1>2, <2>8 DEF ckpt
    <3>3. d = Len(Me.decisions)
      OBVIOUS
    <3> HIDE DEF n, r, source, d
    <3>4. /\ Me \in Directories /\ new \in Directories /\ n \in Nat /\ d \in Nat
          /\ rows \in Seq(MemoryRows) /\ decision \in DecisionRows
          /\ Shape(Me, r) /\ PrefixShape(Me, r, source, n) /\ Answered(Me)
          /\ new.calls = Me.calls /\ new.steps = Me.steps /\ new.updates = Me.updates
          /\ Closes(Me, source, n, rows, decision)
      BY <1>1, <1>2, <1>4, <2>8
    <3>5. Shape(new, r)
      BY <3>1, <3>2, <3>3, <3>4, HourClosed
    <3>6. PrefixShape(new, r, source, n)
      BY <3>1, <3>2, <3>3, <3>4, HourClosed
    <3>7. Answered(new) /\ Len(new.decisions) = d + 1
      BY SMTT(30), <3>1, <3>2, <3>3, <3>4, HourClosed
    <3>8. LastVersions(new) = decision.versions /\ LastAllocation(new) = decision.alloc
      BY SMTT(30), <3>1, <3>2, <3>3, <3>4, HourClosed
    <3> QED
      BY <1>2, <3>5, <3>6, <3>7, <3>8
  <2>15. /\ Imported(new, source) = n /\ (Asked(new, source) <=> d + 1 = n)
         /\ Resumed(new, source) = resume
    <3>1. Imported(new, source) = n
      BY <2>8 DEF Imported
    <3>2. Asked(new, source) <=> n <= d + 1
      BY <2>14, <3>1 DEF Asked
    <3> HIDE DEF n, d
    <3>3. Asked(new, source) <=> d + 1 = n
      BY <1>1, <1>2, <3>2
    <3>4. Resumed(new, source) = resume
      BY <1>2, <1>4, <2>6, <2>8, <3>3 DEF Resumed
    <3> QED
      BY <3>1, <3>3, <3>4
  <2>16. Evaluating(p, new, source)
    BY <1>1, <2>8, <2>14, <2>15 DEF Evaluating
  <2>17. ProcShape(p, new, source)
    <3>1. Len(new.steps) = p.step /\ Len(new.updates) = (d + 1) * Z
      BY <1>1, <2>8, <2>10 DEF InHour
    <3>2. p.step = (d + 1) * StepsPerHour /\ Len(new.calls) = n * CallsPerHour
      BY <1>2, <2>8, <2>10
    <3>3. p.pc = IF p.step = Total THEN "stop" ELSE "hour"
      BY <2>10 DEF AfterHour
    <3>4. p.versions = LastVersions(new) /\ p.prev = LastAllocation(new)
      BY <2>10, <2>14
    <3> HIDE DEF d, n, source
    <3>5. Asked(new, source) => Len(new.calls) = (d + 1) * CallsPerHour
      BY <2>15, <3>2
    <3>6. ~Asked(new, source) => Len(new.calls) = Imported(new, source) * CallsPerHour
      BY <2>15, <3>2
    <3>7. (~Asked(new, source) => d + 1 < Hours) /\ d < Hours
      <4>1. Hours \in Nat
        BY ZoneCount, HourlyAssumption
      <4> QED
        BY <1>1, <1>2, <2>15, <4>1
    <3> QED
      BY <1>1, <2>14, <2>16, <3>1, <3>2, <3>3, <3>4, <3>5, <3>6, <3>7, HourOver
  <2>18. Ended(new, source)
    BY <1>1, <2>8, OpenEnded
  <2>19. p.pc # "idle"
    BY <2>10 DEF AfterHour
  <2> QED
    BY <1>1, <2>1, <2>8, <2>10, <2>14, <2>17, <2>18, <2>19, Writes
<1> QED
  BY <1>3, <1>6, <1>7

-----------------------------------------------------------------------------
(* What the verifier asks of a run that reached its last hour. *)

Complete(run, r) ==
    /\ run \in Directories /\ Shape(run, r)
    /\ Len(run.decisions) = Hours /\ Len(run.steps) = Total /\ Len(run.updates) = Hours * Z
    /\ Len(run.calls) = Hours * CallsPerHour /\ Answered(run)

LEMMA LastHour ==
    ASSUME NEW n \in Nat \ {0}
    PROVE  /\ Hours * n \in Nat \ {0} /\ (Hours - 1) * n \in Nat
           /\ (Hours - 1) * n + n = Hours * n
           /\ \A i \in 1 .. Hours * n :
                 /\ Block(n, i) \in Nat /\ Block(n, i) + 1 \in 1 .. Hours /\ Place(n, i) \in 1 .. n
                 /\ i = Block(n, i) * n + Place(n, i)
<1> DEFINE e == Hours - 1
<1>1. Hours \in Nat \ {0} /\ e \in Nat /\ Hours = e + 1
  BY ZoneCount
<1> HIDE DEF e
<1>2. /\ e * n \in Nat /\ (e + 1) * n = e * n + n
  BY <1>1, Multiples
<1>3. Hours * n = e * n + n
  BY <1>1, <1>2
<1> DEFINE x == e * n
           y == Hours * n
<1>4. x \in Nat /\ y = x + n
  BY <1>2, <1>3
<1>5. \A i \in 1 .. y : i \in Nat \ {0} /\ i <= Hours * n
  <2>1. y \in Nat
    BY <1>4
  <2> HIDE DEF x
  <2> QED
    BY <2>1
<1> HIDE DEF x, y
<1>6. y \in Nat \ {0}
  BY <1>4
<1>7. ASSUME NEW i \in 1 .. y
      PROVE  /\ Block(n, i) \in Nat /\ Block(n, i) + 1 \in 1 .. Hours /\ Place(n, i) \in 1 .. n
             /\ i = Block(n, i) * n + Place(n, i)
  <2>1. i \in Nat \ {0} /\ i <= Hours * n
    BY <1>5
  <2>2. /\ Block(n, i) \in Nat /\ Place(n, i) \in 1 .. n
        /\ i = Block(n, i) * n + Place(n, i)
    BY <2>1, Divided
  <2>3. Block(n, i) < Hours
    BY <1>1, <2>1, Blocks
  <2>4. Block(n, i) \in Nat
    BY <2>2
  <2>5. Block(n, i) + 1 \in 1 .. Hours
    BY <1>1, <2>3, <2>4
  <2> QED
    BY <2>2, <2>5
<1> QED
  BY <1>1, <1>2, <1>3, <1>6, <1>7 DEF e, y

LEMMA OneTestHolds ==
    ASSUME NEW run, NEW r, Complete(run, r),
           run.lifecycle = <<"initialized", "evaluation_started", "evaluation_completed", "stopped">>
    PROVE  OneTest(run) /\ run.steps[1].test = r
<1>1. /\ DOMAIN run.steps = 1 .. Total /\ Total \in Nat \ {0}
      /\ \A s \in DOMAIN run.steps : run.steps[s].test = r
  <2>1. Total \in Nat \ {0}
    BY LastHour, ZoneCount DEF Total
  <2>2. DOMAIN run.steps = 1 .. Total
    BY Streams DEF Complete
  <2>3. \A s \in DOMAIN run.steps : run.steps[s].test = r
    BY DEF Complete, Shape, StepsShape
  <2> QED
    BY <2>1, <2>2, <2>3
<1>2. 1 \in DOMAIN run.steps
  BY <1>1
<1>3. {row.test : row \in Range(run.steps)} = {r}
  <2>1. \A row \in Range(run.steps) : row.test = r
    BY <1>1 DEF Range
  <2>2. run.steps[1] \in Range(run.steps)
    BY <1>2 DEF Range
  <2> QED
    BY <2>1, <2>2
<1>4. Cardinality({r}) = 1
  BY FS_Singleton
<1> QED
  BY <1>1, <1>2, <1>3, <1>4 DEF OneTest

LEMMA TimelineHolds ==
    ASSUME NEW run, NEW r, Complete(run, r)
    PROVE  TimelineWhole(run)
<1>1. DOMAIN run.decisions = 1 .. Hours
  BY Streams DEF Complete
<1>2. \A h \in 1 .. Hours : run.decisions[h].hour = h - 1
  BY <1>1 DEF Complete, Shape, DecisionsShape
<1> QED
  BY <1>2 DEF Complete, TimelineWhole

LEMMA UpdatesHold ==
    ASSUME NEW run, NEW r, Complete(run, r)
    PROVE  UpdatesReplayed(run)
<1> DEFINE us == run.updates
           ds == run.decisions
<1>1. /\ us \in Seq(UpdateRows) /\ DOMAIN us = 1 .. Hours * Z /\ Len(us) = Hours * Z
      /\ ds \in Seq(DecisionRows) /\ DOMAIN ds = 1 .. Hours
      /\ DOMAIN run.steps = 1 .. Hours * StepsPerHour
  BY Streams DEF Complete, Total
<1>2. /\ Hours \in Nat \ {0} /\ Z \in Nat \ {0} /\ StepsPerHour \in Nat \ {0}
  BY ZoneCount
<1>3. \A i \in DOMAIN us :
         /\ us[i].hour = Block(Z, i) /\ us[i].zone = ZoneSeq[Place(Z, i)]
         /\ us[i].before = IF i <= Z THEN 0 ELSE us[i - Z].after
         /\ Block(Z, i) < Hours => us[i].after = ds[Block(Z, i) + 1].versions[ZoneSeq[Place(Z, i)]]
  BY DEF Complete, Shape, UpdatesShape
<1>4. [i \in DOMAIN us |-> <<us[i].hour, us[i].zone>>] =
         [i \in 1 .. Hours * Len(ZoneSeq) |->
             <<(i - 1) \div Len(ZoneSeq), ZoneSeq[1 + ((i - 1) % Len(ZoneSeq))]>>]
  <2>1. DOMAIN us = 1 .. Hours * Len(ZoneSeq)
    BY <1>1 DEF Z
  <2>2. \A i \in DOMAIN us :
           <<us[i].hour, us[i].zone>> =
           <<(i - 1) \div Len(ZoneSeq), ZoneSeq[1 + ((i - 1) % Len(ZoneSeq))]>>
    BY <1>3 DEF Block, Place, Z
  <2> HIDE DEF us
  <2> QED
    BY <2>1, <2>2
<1>5. EndsAt(us, ds[Hours].versions)
  <2> DEFINE versions == ds[Hours].versions
  <2>1. versions \in Programs
    <3>1. ds[Hours] \in DecisionRows
      BY <1>1, <1>2
    <3> QED
      BY <3>1 DEF DecisionRows
  <2>2. Zoned(us)
    BY <1>3 DEF Zoned
  <2>3. ASSUME NEW k \in 1 .. Z
        PROVE  us[(Hours - 1) * Z + k].after = versions[ZoneSeq[k]]
    <3> DEFINE e == Hours - 1
               i == e * Z + k
    <3>1. e \in Nat /\ e + 1 = Hours /\ e < Hours
      BY <1>2
    <3> HIDE DEF e
    <3>2. Block(Z, i) = e /\ Place(Z, i) = k
      BY <1>2, <3>1, Positions
    <3>3. i \in DOMAIN us
      <4> DEFINE x == e * Z
                 y == Hours * Z
      <4>1. x \in Nat /\ x + Z = y
        BY <1>2, LastHour DEF e
      <4> HIDE DEF x, y
      <4>2. x + k \in 1 .. y
        BY <1>2, <4>1
      <4> QED
        BY <1>1, <4>2 DEF x, y
    <3> HIDE DEF i, us, ds
    <3>4. us[i].after = ds[e + 1].versions[ZoneSeq[k]]
      BY <1>3, <3>1, <3>2, <3>3
    <3> QED
      BY <3>1, <3>4 DEF i, e
  <2>4. Hours \in Nat /\ Hours # 0
    BY <1>2
  <2>5. \A i \in DOMAIN us : us[i].before = IF i <= Z THEN 0 ELSE us[i - Z].after
    BY <1>3
  <2> HIDE DEF us, versions
  <2> QED
    BY <1>1, <2>1, <2>2, <2>3, <2>4, <2>5, EndsAtLast DEF versions
<1>6. ASSUME NEW h \in 1 .. Hours,
             NEW s \in (h - 1) * StepsPerHour + 1 .. h * StepsPerHour
      PROVE  run.steps[s].versions = run.decisions[h].versions
  <2> DEFINE e == h - 1
  <2>1. e \in Nat /\ e + 1 = h /\ h \in Int /\ e < Hours
    BY <1>2
  <2> HIDE DEF e
  <2>2. /\ e * StepsPerHour \in Nat /\ (e + 1) * StepsPerHour = e * StepsPerHour + StepsPerHour
    BY <1>2, <2>1, Multiples
  <2>3. h * StepsPerHour <= Hours * StepsPerHour /\ Hours * StepsPerHour \in Nat
    BY <1>2, Multiples
  <2>4. s \in e * StepsPerHour + 1 .. e * StepsPerHour + StepsPerHour
    BY <2>1, <2>2 DEF e
  <2>5. s \in Nat \ {0} /\ s > e * StepsPerHour /\ s <= e * StepsPerHour + StepsPerHour
    BY <1>2, <2>2, <2>4
  <2>6. Block(StepsPerHour, s) = e
    BY <1>2, <2>1, <2>5, Blocks
  <2>7. s \in DOMAIN run.steps
    <3>1. s <= h * StepsPerHour
      BY <2>1, <2>2, <2>5
    <3> DEFINE x == h * StepsPerHour
               y == Hours * StepsPerHour
    <3>2. s <= x /\ x <= y /\ y \in Nat /\ x \in Int
      BY <1>2, <2>3, <3>1
    <3> HIDE DEF x, y
    <3>3. s \in 1 .. y
      BY <2>5, <3>2
    <3> QED
      BY <1>1, <3>3 DEF y
  <2>8. Block(StepsPerHour, s) < Hours =>
           run.steps[s].versions = run.decisions[Block(StepsPerHour, s) + 1].versions
    BY <2>7 DEF Complete, Shape, StepsShape
  <2> QED
    BY <2>1, <2>6, <2>8
<1> QED
  BY <1>4, <1>5, <1>6 DEF UpdatesReplayed

LEMMA AllocationsHold ==
    ASSUME NEW run, NEW r, Complete(run, r)
    PROVE  AllocationsResolved(run)
<1> DEFINE calls == run.calls
           ds == run.decisions
<1>1. /\ calls \in Seq(CallRows) /\ Len(calls) = Hours * CallsPerHour
      /\ DOMAIN calls = 1 .. Len(calls) /\ DOMAIN ds = 1 .. Hours
  BY Streams DEF Complete
<1>2. Hours \in Nat \ {0} /\ CallsPerHour \in Nat \ {0}
  BY ZoneCount
<1>3. \A i \in DOMAIN calls : CallPlaced(calls[i], i) /\ calls[i].ok
  BY DEF Complete, Shape, CallsShape, Answered
<1>4. \A h \in 1 .. Hours :
         /\ ds[h].fallback = ~calls[(h - 1) * CallsPerHour + 1].good
         /\ ds[h].alloc = Allocated(calls[(h - 1) * CallsPerHour + 1], h,
                                    IF h = 1 THEN Split ELSE ds[h - 1].alloc)
  <2>1. AllocationsShape(run)
    BY DEF Complete, Shape
  <2> QED
    BY <1>1, <2>1 DEF AllocationsShape
<1> HIDE DEF calls, ds
<1>5. ASSUME NEW h \in 1 .. Hours
      PROVE  LET raw == RawOrchestrator(run, h - 1)
             IN  /\ Len(raw) = 1
                 /\ ds[h].fallback = ~raw[1].good
                 /\ ds[h].alloc = IF raw[1].good THEN <<raw[1].by, h - 1>>
                                  ELSE IF h = 1 THEN Split ELSE ds[h - 1].alloc
  <2> DEFINE e == h - 1
             j == e * CallsPerHour + 1
             kept == {i \in DOMAIN calls :
                         LET c == calls[i]
                         IN  c.ok /\ c.who = "orchestrator" /\ c.hour = e}
             raw == RawOrchestrator(run, e)
  <2>1. e \in Nat /\ e + 1 \in 1 .. Hours
    BY <1>2
  <2>2. j \in 1 .. Len(calls) /\ Block(CallsPerHour, j) = e /\ Place(CallsPerHour, j) = 1
    <3> HIDE DEF e
    <3>1. Block(CallsPerHour, j) = e /\ Place(CallsPerHour, j) = 1 /\ j \in Nat \ {0}
      <4>1. 1 \in 1 .. CallsPerHour
        BY <1>2
      <4> QED
        BY <1>2, <2>1, <4>1, Positions
    <3>2. e < Hours
      BY <1>2, <2>1
    <3>3. e * CallsPerHour + CallsPerHour <= Hours * CallsPerHour
      BY <1>2, <2>1, <3>2, Multiples
    <3> DEFINE x == e * CallsPerHour
               y == Hours * CallsPerHour
    <3>4. x \in Nat /\ y \in Nat /\ x + CallsPerHour <= y /\ j = x + 1
      BY <1>2, <2>1, <3>3, Multiples
    <3> HIDE DEF x, y, j
    <3>5. j \in 1 .. y
      BY <1>2, <3>4
    <3> QED
      BY <1>1, <3>1, <3>5 DEF y
  <2> HIDE DEF e, j
  <2>3. ASSUME NEW i \in 1 .. Len(calls)
        PROVE  i \in kept <=> i = j
    <3>0. i \in Nat \ {0} /\ i \in DOMAIN calls
      BY <1>1
    <3>1. Place(CallsPerHour, i) \in 1 .. CallsPerHour
      BY <1>2, <3>0, Divided
    <3>2. Caller(Place(CallsPerHour, i)) = "orchestrator" <=> Place(CallsPerHour, i) = 1
      BY <3>1, CallerIs
    <3>3. /\ calls[i].hour = Block(CallsPerHour, i)
          /\ calls[i].who = Caller(Place(CallsPerHour, i)) /\ calls[i].ok
      BY <1>3, <3>0 DEF CallPlaced
    <3>4. i \in kept <=> Block(CallsPerHour, i) = e /\ Place(CallsPerHour, i) = 1
      BY <3>0, <3>2, <3>3
    <3>5. Block(CallsPerHour, i) = e /\ Place(CallsPerHour, i) = 1 => i = j
      <4>1. i = Block(CallsPerHour, i) * CallsPerHour + Place(CallsPerHour, i)
        BY <1>2, <3>0, Divided
      <4> QED
        BY <4>1 DEF j
    <3> QED
      BY <2>2, <3>4, <3>5
  <2>4. raw = Rows(calls, kept)
    BY DEF RawOrchestrator, calls
  <2> HIDE DEF kept
  <2>5. Len(raw) = 1 /\ raw[1] = calls[j]
    <3>1. Len(Rows(calls, kept)) = 1 /\ Rows(calls, kept)[1] = calls[j]
      BY <1>1, <2>2, <2>3, OneRow
    <3> QED
      BY <2>4, <3>1
  <2>6. /\ ds[h].fallback = ~calls[j].good
        /\ ds[h].alloc = Allocated(calls[j], h, IF h = 1 THEN Split ELSE ds[h - 1].alloc)
    BY <1>4 DEF j, e
  <2> HIDE DEF raw
  <2>7. /\ Len(raw) = 1
        /\ ds[h].fallback = ~raw[1].good
        /\ ds[h].alloc = IF raw[1].good THEN <<raw[1].by, h - 1>>
                         ELSE IF h = 1 THEN Split ELSE ds[h - 1].alloc
    BY <2>5, <2>6 DEF Allocated
  <2> QED
    BY <2>7 DEF raw, e
<1> QED
  BY <1>5 DEF AllocationsResolved, ds

LEMMA MemoryHolds ==
    ASSUME NEW run, NEW r, Complete(run, r)
    PROVE  MemoryReplayed(run)
<1> DEFINE us == run.updates
           caol == run.caol
           calls == run.calls
<1>1. /\ caol \in Seq(MemoryRows) /\ DOMAIN us = 1 .. Hours * Z
      /\ DOMAIN caol = 1 .. Len(caol) /\ DOMAIN calls = 1 .. Hours * CallsPerHour
  BY Streams DEF Complete
<1>2. /\ Hours \in Nat \ {0} /\ Z \in Nat \ {0} /\ CallsPerHour \in Nat \ {0}
  BY ZoneCount
<1>3. \A i \in DOMAIN us : us[i].hour = Block(Z, i) /\ us[i].zone = ZoneSeq[Place(Z, i)]
  BY DEF Complete, Shape, UpdatesShape
<1>4. /\ Len(caol) = Hours * Z
      /\ \A i \in DOMAIN caol :
            /\ caol[i].hour = Block(Z, i) /\ caol[i].zone = ZoneSeq[Place(Z, i)]
            /\ caol[i].by = calls[(Block(Z, i) + 1) * CallsPerHour].by
  BY DEF Complete, Shape, MemoryShape
<1>5. \A i \in DOMAIN calls : CallPlaced(calls[i], i)
  BY DEF Complete, Shape, CallsShape
<1> HIDE DEF us, caol, calls
<1>6. DOMAIN caol = DOMAIN us
  BY <1>1, <1>4
<1>7. [i \in DOMAIN caol |-> <<caol[i].hour, caol[i].zone>>] =
          [i \in DOMAIN us |-> <<us[i].hour, us[i].zone>>]
  <2>1. \A i \in DOMAIN us : <<caol[i].hour, caol[i].zone>> = <<us[i].hour, us[i].zone>>
    BY <1>3, <1>4, <1>6
  <2> QED
    BY <1>6, <2>1
<1>8. ASSUME NEW row \in Range(caol)
      PROVE  \E c \in Range(calls) : c.who = "reflector" /\ c.hour = row.hour /\ c.by = row.by
  <2>1. PICK i \in DOMAIN caol : row = caol[i]
    BY DEF Range
  <2> DEFINE e == Block(Z, i)
             j == (e + 1) * CallsPerHour
  <2>2. e \in Nat /\ e + 1 \in 1 .. Hours
    <3>1. i \in 1 .. Hours * Z
      BY <1>1, <1>6
    <3> QED
      BY <1>2, <3>1, LastHour
  <2>3. row.hour = e /\ row.by = calls[j].by
    BY <1>4, <2>1
  <2> HIDE DEF e
  <2>4. j = e * CallsPerHour + CallsPerHour
    BY <1>2, <2>2, Multiples
  <2>5. Block(CallsPerHour, j) = e /\ Place(CallsPerHour, j) = CallsPerHour /\ j \in Nat \ {0}
    <3>1. CallsPerHour \in 1 .. CallsPerHour
      BY <1>2
    <3>2. /\ Block(CallsPerHour, e * CallsPerHour + CallsPerHour) = e
          /\ Place(CallsPerHour, e * CallsPerHour + CallsPerHour) = CallsPerHour
          /\ e * CallsPerHour + CallsPerHour \in Nat \ {0}
      BY <1>2, <2>2, <3>1, Positions
    <3> HIDE DEF j
    <3> QED
      BY <2>4, <3>2
  <2>6. j <= Hours * CallsPerHour
    <3>1. e + 1 \in Int /\ Hours \in Int /\ e + 1 <= Hours
      BY <1>2, <2>2
    <3> QED
      BY <1>2, <3>1, Multiples
  <2> HIDE DEF j
  <2>7. j \in DOMAIN calls
    <3> DEFINE y == Hours * CallsPerHour
    <3>1. y \in Nat
      BY <1>2, LastHour
    <3> HIDE DEF y
    <3>2. j \in 1 .. y
      BY <2>5, <2>6, <3>1 DEF y
    <3> QED
      BY <1>1, <3>2 DEF y
  <2>8. calls[j].hour = e /\ calls[j].who = "reflector"
    BY <1>5, <2>5, <2>7, CallerIs DEF CallPlaced
  <2>9. calls[j] \in Range(calls)
    BY <2>7 DEF Range
  <2> QED
    BY <2>3, <2>8, <2>9
<1> QED
  BY <1>7, <1>8 DEF MemoryReplayed, us, caol, calls

LEMMA CallsHold ==
    ASSUME NEW run, NEW r, Complete(run, r), run.retries = RetriesOf(run.calls)
    PROVE  CallsAligned(run) /\ CallsAccounted(run)
<1> DEFINE calls == run.calls
<1>1. calls \in Seq(CallRows) /\ DOMAIN calls = 1 .. Hours * CallsPerHour
  BY Streams DEF Complete
<1>2. \A i \in DOMAIN calls : calls[i].ord = i - 1 /\ calls[i].ok
  BY DEF Complete, Shape, CallsShape, CallPlaced, Answered
<1> HIDE DEF calls
<1>3. [i \in DOMAIN calls |-> calls[i].ord] = [i \in 1 .. Hours * CallsPerHour |-> i - 1]
  BY <1>1, <1>2
<1>4. \A c \in Range(calls) : c.ok /\ c.tries <= RetryLimit + 1
  <2> TAKE c \in Range(calls)
  <2>1. PICK i \in DOMAIN calls : c = calls[i]
    BY DEF Range
  <2>2. c \in CallRows
    <3>1. \A j \in DOMAIN calls : calls[j] \in CallRows
      <4>1. calls \in Seq(CallRows)
        BY <1>1
      <4> QED
        BY <4>1
    <3> QED
      BY <2>1, <3>1
  <2>3. c.tries \in 1 .. RetryLimit + 1
    BY <2>2 DEF CallRows
  <2>4. RetryLimit \in Nat
    BY HourlyAssumption
  <2> QED
    BY <1>2, <2>1, <2>3, <2>4
<1> QED
  BY <1>3, <1>4 DEF CallsAligned, CallsAccounted, calls

LEMMA ManifestHolds ==
    ASSUME NEW run, NEW r, Complete(run, r), run.dispatch = "stopped", run.scanned,
           run.steps[1].test = r
    PROVE  ManifestIdentity(run) /\ run.ckpt.test = r
<1>1. Hours # 0 /\ CheckpointShape(run, r) /\ Len(run.decisions) = Hours
  BY ZoneCount DEF Complete, Shape
<1>2. run.ckpt = [next |-> Hours * StepsPerHour, test |-> r,
                  versions |-> run.decisions[Hours].versions]
  BY <1>1 DEF CheckpointShape
<1> QED
  BY <1>2 DEF ManifestIdentity, Total

LEMMA SameRows ==
    ASSUME NEW T, NEW rows \in Seq(T), NEW from \in Seq(T), NEW m \in Nat, m <= Len(rows),
           m <= Len(from), \A i \in 1 .. m : rows[i] = from[i]
    PROVE  SubSeq(rows, 1, m) = SubSeq(from, 1, m)
<1> DEFINE s == SubSeq(rows, 1, m)
           t == SubSeq(from, 1, m)
<1>1. s \in Seq(T) /\ Len(s) = m /\ t \in Seq(T) /\ Len(t) = m
  OBVIOUS
<1>2. \A i \in 1 .. m : s[i] = rows[i]
  OBVIOUS
<1>3. \A i \in 1 .. m : t[i] = from[i]
  OBVIOUS
<1> HIDE DEF s, t
<1>4. s = [i \in 1 .. m |-> s[i]] /\ t = [i \in 1 .. m |-> t[i]]
  BY <1>1
<1>5. \A i \in 1 .. m : s[i] = t[i]
  BY <1>2, <1>3
<1> QED
  BY <1>4, <1>5 DEF s, t

LEMMA SameHours ==
    ASSUME NEW T, NEW rows \in Seq(T), NEW from \in Seq(T), NEW n \in Nat \ {0}, NEW d \in Nat,
           d * n <= Len(rows), d * n <= Len(from),
           \A i \in DOMAIN rows : rows[i].hour = Block(n, i),
           \A i \in DOMAIN from : from[i].hour = Block(n, i),
           \A i \in DOMAIN rows : i <= d * n => rows[i] = from[i]
    PROVE  BeforeHour(rows, d) = BeforeHour(from, d)
<1>1. BeforeHour(rows, d) = SubSeq(rows, 1, d * n)
  BY BeforeHourIs
<1>2. BeforeHour(from, d) = SubSeq(from, 1, d * n)
  BY BeforeHourIs
<1>3. d * n \in Nat
  BY Multiples
<1> DEFINE m == d * n
<1>4. m \in Nat /\ m <= Len(rows) /\ m <= Len(from)
  BY <1>3
<1>5. \A i \in DOMAIN rows : i <= m => rows[i] = from[i]
  OBVIOUS
<1> HIDE DEF m
<1>6. \A i \in 1 .. m : i \in DOMAIN rows /\ i <= m
  BY <1>4
<1>7. \A i \in 1 .. m : rows[i] = from[i]
  BY <1>5, <1>6
<1>8. SubSeq(rows, 1, m) = SubSeq(from, 1, m)
  BY <1>4, <1>7, SameRows
<1> QED
  BY <1>1, <1>2, <1>8 DEF m

\* A run that holds the hours it was started from, to the digits of the steps.
LEMMA PrefixHolds ==
    ASSUME NEW run \in Directories, NEW source \in Directories, NEW r, NEW q, NEW n \in Nat,
           Shape(run, r), Shape(source, q), PrefixShape(run, r, source, n),
           n <= Len(run.decisions), n <= Len(source.decisions),
           \A s \in 1 .. n * StepsPerHour : run.steps[s].num = source.steps[s].num
    PROVE  PrefixIdentity(run, n * StepsPerHour) = PrefixIdentity(source, n * StepsPerHour)
<1> DEFINE cut == n * StepsPerHour
<1>1. /\ StepsPerHour \in Nat \ {0} /\ Z \in Nat \ {0} /\ CallsPerHour \in Nat \ {0}
      /\ cut \in Nat
  <2>1. StepsPerHour \in Nat \ {0} /\ Z \in Nat \ {0} /\ CallsPerHour \in Nat \ {0}
    BY ZoneCount
  <2> QED
    BY <2>1, Multiples
<1>2. cut \div StepsPerHour = n
  <2>1. 0 \in 0 .. StepsPerHour - 1 /\ n * StepsPerHour + 0 = n * StepsPerHour
    BY <1>1
  <2>2. HourOf(n * StepsPerHour + 0) = n
    BY <2>1, HourAt
  <2> QED
    BY <2>1, <2>2 DEF HourOf
<1>3. ASSUME NEW dir \in {run, source}
      PROVE  /\ dir \in Directories /\ n <= Len(dir.decisions)
             /\ n * Z <= Len(dir.updates) /\ n * Z <= Len(dir.caol)
             /\ n * CallsPerHour <= Len(dir.calls) /\ cut <= Len(dir.steps)
             /\ \A i \in DOMAIN dir.updates : dir.updates[i].hour = Block(Z, i)
             /\ \A i \in DOMAIN dir.caol : dir.caol[i].hour = Block(Z, i)
             /\ \A i \in DOMAIN dir.calls : dir.calls[i].hour = Block(CallsPerHour, i)
             /\ \A s \in 1 .. cut : dir.steps[s].versions =
                                        dir.decisions[Block(StepsPerHour, s) + 1].versions
  <2> DEFINE d == Len(dir.decisions)
  <2>1. dir \in Directories /\ n <= d /\ d \in Nat
    BY Streams
  <2>2. UpdatesShape(dir) /\ MemoryShape(dir) /\ CallsShape(dir) /\ \E x : StepsShape(dir, x)
    BY DEF Shape
  <2>3. /\ Len(dir.updates) \in {d * Z, (d + 1) * Z} /\ Len(dir.caol) = d * Z
        /\ d * CallsPerHour <= Len(dir.calls) /\ d * StepsPerHour <= Len(dir.steps)
    BY <2>2 DEF UpdatesShape, MemoryShape, CallsShape, StepsShape
  <2>4. /\ Len(dir.updates) \in Nat /\ Len(dir.caol) \in Nat /\ Len(dir.calls) \in Nat
        /\ Len(dir.steps) \in Nat /\ DOMAIN dir.steps = 1 .. Len(dir.steps)
    BY <2>1, Streams
  <2>5. /\ \A i \in DOMAIN dir.updates : dir.updates[i].hour = Block(Z, i)
        /\ \A i \in DOMAIN dir.caol : dir.caol[i].hour = Block(Z, i)
        /\ \A i \in DOMAIN dir.calls : dir.calls[i].hour = Block(CallsPerHour, i)
    BY <2>2 DEF UpdatesShape, MemoryShape, CallsShape, CallPlaced
  <2>6. \A s \in DOMAIN dir.steps : Block(StepsPerHour, s) < d => dir.steps[s].versions =
                                        dir.decisions[Block(StepsPerHour, s) + 1].versions
    BY <2>2 DEF StepsShape
  <2> HIDE DEF d
  <2>7. n * Z <= d * Z /\ (d + 1) * Z = d * Z + Z /\ d * Z \in Nat /\ n * Z \in Nat
    <3>1. n * Z <= d * Z
      BY <1>1, <2>1, Multiples
    <3>2. (d + 1) * Z = d * Z + Z /\ d * Z \in Nat /\ n * Z \in Nat
      BY <1>1, <2>1, Multiples
    <3> QED
      BY <3>1, <3>2
  <2>8. n * Z <= Len(dir.updates) /\ n * Z <= Len(dir.caol)
    <3> DEFINE x == n * Z
               y == d * Z
               w == (d + 1) * Z
               m == Len(dir.updates)
    <3>1. x <= y /\ w = y + Z /\ x \in Nat /\ y \in Nat /\ Z \in Nat /\ m \in {y, w}
      BY <1>1, <2>3, <2>7
    <3> HIDE DEF x, y, w, m
    <3>2. x <= m
      BY <3>1
    <3> QED
      BY <2>3, <2>7, <3>2 DEF x, m
  <2>9. n * CallsPerHour <= Len(dir.calls)
    <3>1. n * CallsPerHour <= d * CallsPerHour /\ d * CallsPerHour \in Int
          /\ n * CallsPerHour \in Int
      BY <1>1, <2>1, Multiples
    <3> QED
      BY <2>3, <2>4, <3>1
  <2>10. cut <= Len(dir.steps)
    <3>1. n * StepsPerHour <= d * StepsPerHour /\ d * StepsPerHour \in Int
      BY <1>1, <2>1, Multiples
    <3> QED
      BY <1>1, <2>3, <2>4, <3>1
  <2>11. ASSUME NEW s \in 1 .. cut
         PROVE  dir.steps[s].versions = dir.decisions[Block(StepsPerHour, s) + 1].versions
    <3>1. s \in Nat \ {0} /\ s <= n * StepsPerHour /\ s \in DOMAIN dir.steps
      <4>1. s \in Nat \ {0} /\ s <= cut
        BY <1>1
      <4>2. s \in DOMAIN dir.steps
        BY <1>1, <2>4, <2>10, <4>1
      <4> QED
        BY <4>1, <4>2
    <3>2. Block(StepsPerHour, s) < n
      BY <1>1, <3>1, Blocks
    <3>3. Block(StepsPerHour, s) \in Nat
      BY <1>1, <3>1, Divided
    <3>4. Block(StepsPerHour, s) < d
      BY <2>1, <3>2, <3>3
    <3> QED
      BY <2>6, <3>1, <3>4
  <2> QED
    BY <2>1, <2>5, <2>8, <2>9, <2>10, <2>11 DEF d
<1>4. run \in {run, source} /\ source \in {run, source}
  OBVIOUS
<1>5. /\ run.updates \in Seq(UpdateRows) /\ source.updates \in Seq(UpdateRows)
      /\ run.caol \in Seq(MemoryRows) /\ source.caol \in Seq(MemoryRows)
      /\ run.calls \in Seq(CallRows) /\ source.calls \in Seq(CallRows)
      /\ run.decisions \in Seq(DecisionRows) /\ source.decisions \in Seq(DecisionRows)
      /\ DOMAIN run.decisions = 1 .. Len(run.decisions)
      /\ Len(run.decisions) \in Nat /\ Len(source.decisions) \in Nat
  BY Streams
<1>6. BeforeHour(run.updates, n) = BeforeHour(source.updates, n)
  <2>1. \A i \in DOMAIN run.updates : i <= n * Z => run.updates[i] = source.updates[i]
    BY DEF PrefixShape, Copied
  <2>2. /\ n * Z <= Len(run.updates) /\ n * Z <= Len(source.updates)
        /\ \A i \in DOMAIN run.updates : run.updates[i].hour = Block(Z, i)
        /\ \A i \in DOMAIN source.updates : source.updates[i].hour = Block(Z, i)
    BY <1>3, <1>4
  <2> DEFINE rows == run.updates
             from == source.updates
  <2>3. /\ rows \in Seq(UpdateRows) /\ from \in Seq(UpdateRows) /\ Z \in Nat \ {0} /\ n \in Nat
        /\ n * Z <= Len(rows) /\ n * Z <= Len(from)
    BY <1>1, <1>5, <2>2
  <2>4. /\ \A i \in DOMAIN rows : rows[i].hour = Block(Z, i)
        /\ \A i \in DOMAIN from : from[i].hour = Block(Z, i)
        /\ \A i \in DOMAIN rows : i <= n * Z => rows[i] = from[i]
    BY <2>1, <2>2
  <2> HIDE DEF rows, from
  <2>5. BeforeHour(rows, n) = BeforeHour(from, n)
    BY <2>3, <2>4, SameHours
  <2> QED
    BY <2>5 DEF rows, from
<1>7. BeforeHour(run.caol, n) = BeforeHour(source.caol, n)
  <2>1. \A i \in DOMAIN run.caol : i <= n * Z => run.caol[i] = source.caol[i]
    BY DEF PrefixShape, Copied
  <2>2. /\ n * Z <= Len(run.caol) /\ n * Z <= Len(source.caol)
        /\ \A i \in DOMAIN run.caol : run.caol[i].hour = Block(Z, i)
        /\ \A i \in DOMAIN source.caol : source.caol[i].hour = Block(Z, i)
    BY <1>3, <1>4
  <2> DEFINE rows == run.caol
             from == source.caol
  <2>3. /\ rows \in Seq(MemoryRows) /\ from \in Seq(MemoryRows) /\ Z \in Nat \ {0} /\ n \in Nat
        /\ n * Z <= Len(rows) /\ n * Z <= Len(from)
    BY <1>1, <1>5, <2>2
  <2>4. /\ \A i \in DOMAIN rows : rows[i].hour = Block(Z, i)
        /\ \A i \in DOMAIN from : from[i].hour = Block(Z, i)
        /\ \A i \in DOMAIN rows : i <= n * Z => rows[i] = from[i]
    BY <2>1, <2>2
  <2> HIDE DEF rows, from
  <2>5. BeforeHour(rows, n) = BeforeHour(from, n)
    BY <2>3, <2>4, SameHours
  <2> QED
    BY <2>5 DEF rows, from
<1>8. BeforeHour(run.calls, n) = BeforeHour(source.calls, n)
  <2>1. \A i \in DOMAIN run.calls : i <= n * CallsPerHour => run.calls[i] = source.calls[i]
    BY DEF PrefixShape, CallsOwned
  <2>2. /\ n * CallsPerHour <= Len(run.calls) /\ n * CallsPerHour <= Len(source.calls)
        /\ \A i \in DOMAIN run.calls : run.calls[i].hour = Block(CallsPerHour, i)
        /\ \A i \in DOMAIN source.calls : source.calls[i].hour = Block(CallsPerHour, i)
    BY <1>3, <1>4
  <2> DEFINE rows == run.calls
             from == source.calls
  <2>3. /\ rows \in Seq(CallRows) /\ from \in Seq(CallRows) /\ CallsPerHour \in Nat \ {0} /\ n \in Nat
        /\ n * CallsPerHour <= Len(rows) /\ n * CallsPerHour <= Len(from)
    BY <1>1, <1>5, <2>2
  <2>4. /\ \A i \in DOMAIN rows : rows[i].hour = Block(CallsPerHour, i)
        /\ \A i \in DOMAIN from : from[i].hour = Block(CallsPerHour, i)
        /\ \A i \in DOMAIN rows : i <= n * CallsPerHour => rows[i] = from[i]
    BY <2>1, <2>2
  <2> HIDE DEF rows, from
  <2>5. BeforeHour(rows, n) = BeforeHour(from, n)
    BY <2>3, <2>4, SameHours
  <2> QED
    BY <2>5 DEF rows, from
<1>9. /\ SubSeq(run.decisions, 1, n) = SubSeq(source.decisions, 1, n)
      /\ \A h \in 1 .. n : run.decisions[h] = source.decisions[h]
  <2>1. \A h \in DOMAIN run.decisions : h <= n => run.decisions[h] = source.decisions[h]
    BY DEF PrefixShape, Copied
  <2>2. \A h \in 1 .. n : h \in DOMAIN run.decisions /\ h <= n
    BY <1>5
  <2>3. \A h \in 1 .. n : run.decisions[h] = source.decisions[h]
    BY <2>1, <2>2
  <2> QED
    BY <1>5, <2>3, SameRows
<1>10. ASSUME NEW s \in 1 .. cut
       PROVE  run.steps[s].versions = source.steps[s].versions
  <2> DEFINE e == Block(StepsPerHour, s)
  <2>1. e + 1 \in 1 .. n
    <3>1. s \in Nat \ {0} /\ s <= n * StepsPerHour
      BY <1>1
    <3>2. e < n /\ e \in Nat
      BY <1>1, <3>1, Blocks, Divided
    <3> HIDE DEF e
    <3> QED
      BY <3>2
  <2>2. run.steps[s].versions = run.decisions[e + 1].versions
    BY <1>3, <1>4
  <2>3. source.steps[s].versions = source.decisions[e + 1].versions
    BY <1>3, <1>4
  <2> HIDE DEF e
  <2> QED
    BY <1>9, <2>1, <2>2, <2>3
<1>11. [s \in 1 .. cut |-> [num |-> run.steps[s].num, versions |-> run.steps[s].versions]] =
       [s \in 1 .. cut |-> [num |-> source.steps[s].num, versions |-> source.steps[s].versions]]
  <2>1. \A s \in 1 .. cut : run.steps[s].num = source.steps[s].num
    OBVIOUS
  <2> HIDE DEF cut
  <2> QED
    BY <1>10, <2>1
<1> HIDE DEF cut
<1>12. PrefixIdentity(run, cut) = PrefixIdentity(source, cut)
  BY <1>2, <1>6, <1>7, <1>8, <1>9, <1>11 DEF PrefixIdentity
<1> QED
  BY <1>12 DEF cut

\* What publishing asks of a resumed run holds but for the digits of its replay.
LEMMA ResumeHolds ==
    ASSUME HourlyInv, proc.pc = "verify", ~Differs(Me, Origin(runs, proc.run))
    PROVE  Me.ckpt.test = proc.run => ResumeIntact(Me)
<1> DEFINE source == Origin(runs, proc.run)
           n == Imported(Me, source)
           d == Len(Me.decisions)
           r == proc.run
<1>1. /\ Me \in Directories /\ r \in DOMAIN runs /\ DirectoryInv(Me, r, source)
      /\ source \in Directories /\ n \in Nat /\ r \in Nat
      /\ ProcShape(proc, Me, source)
      /\ Me.src # 0 => /\ Me.src \in DOMAIN runs /\ Me.src < r /\ source = runs[Me.src]
  BY Running, Sources DEF Me
<1>2. Over(proc, Me, source)
  BY <1>1 DEF ProcShape
<1>3. d = Hours /\ Me.resume = Resumed(Me, source)
  BY <1>2 DEF Over
<1>4. CASE Me.src = 0
  BY <1>3, <1>4 DEF Resumed, ResumeIntact
<1>5. CASE Me.src # 0
  <2>1. /\ Shape(Me, r) /\ PrefixShape(Me, r, source, n) /\ Me.cut = n * StepsPerHour
        /\ n \in 1 .. Hours - 1 /\ n = Len(source.decisions)
    BY <1>1, <1>5 DEF DirectoryInv, Started, Imported
  <2>2. Shape(source, Me.src)
    BY <1>1, <1>5, Sources DEF DirectoryInv
  <2>3. Me.resume = <<"started", "completed">>
    <3>1. n <= d
      <4>1. Hours \in Nat
        BY ZoneCount
      <4> QED
        BY <1>3, <2>1, <4>1
    <3>2. Asked(Me, source)
      BY <3>1 DEF Asked
    <3> QED
      BY <1>3, <1>5, <3>2 DEF Resumed
  <2>4. PrefixIdentity(Me, Me.cut) = PrefixIdentity(source, Me.cut)
    <3>1. n <= d /\ n <= Len(source.decisions) /\ n \in Nat
      <4>1. Hours \in Nat
        BY ZoneCount
      <4> QED
        BY <1>1, <1>3, <2>1, <4>1
    <3>2. \A s \in 1 .. n * StepsPerHour : Me.steps[s].num = source.steps[s].num
      BY <2>1 DEF Differs
    <3> HIDE DEF n, source, r
    <3>3. PrefixIdentity(Me, n * StepsPerHour) = PrefixIdentity(source, n * StepsPerHour)
      BY <1>1, <2>1, <2>2, <3>1, <3>2, PrefixHolds
    <3> QED
      BY <2>1, <3>3
  <2>5. ASSUME Me.ckpt.test = r  PROVE Me.src # Me.ckpt.test
    BY <1>1, <1>5, <2>5, Streams
  <2> QED
    BY <1>1, <1>5, <2>3, <2>4, <2>5 DEF ResumeIntact
<1> QED
  BY <1>4, <1>5

LEMMA EligibleUnlessDiffers ==
    ASSUME HourlyInv, proc.pc = "verify", ~Differs(Me, Origin(runs, proc.run))
    PROVE  CompletionEligible(Me)
<1> DEFINE source == Origin(runs, proc.run)
           r == proc.run
<1>1. /\ Me \in Directories /\ DirectoryInv(Me, r, source) /\ ProcShape(proc, Me, source)
  BY Running, Sources DEF Me
<1>2. Over(proc, Me, source) /\ Stopped(Me)
  BY <1>1 DEF ProcShape
<1>3. Complete(Me, r)
  BY <1>1, <1>2 DEF Over, Complete, DirectoryInv
<1>4. /\ Me.dispatch = "stopped" /\ Me.scanned /\ Me.retries = RetriesOf(Me.calls)
      /\ Me.lifecycle =
            <<"initialized", "evaluation_started", "evaluation_completed", "stopped">>
  BY <1>2 DEF Stopped
<1>5. OneTest(Me) /\ Me.steps[1].test = r
  BY <1>3, <1>4, OneTestHolds
<1>6. TimelineWhole(Me) /\ UpdatesReplayed(Me) /\ AllocationsResolved(Me) /\ MemoryReplayed(Me)
  BY <1>3, TimelineHolds, UpdatesHold, AllocationsHold, MemoryHolds
<1>7. CallsAligned(Me) /\ CallsAccounted(Me)
  BY <1>3, <1>4, CallsHold
<1>8. ManifestIdentity(Me) /\ Me.ckpt.test = r
  BY <1>3, <1>4, <1>5, ManifestHolds
<1>9. ResumeIntact(Me)
  BY <1>8, ResumeHolds
<1> QED
  BY <1>5, <1>6, <1>7, <1>8, <1>9 DEF CompletionEligible

\* What an eligible run keeps for good.
LEMMA EligibleKeeps ==
    ASSUME HourlyInv, NEW r \in DOMAIN runs, CompletionEligible(runs[r])
    PROVE  Kept(runs[r], Origin(runs, r))
<1> DEFINE run == runs[r]
           m == Hours * CallsPerHour
           ords == [i \in DOMAIN run.calls |-> run.calls[i].ord]
<1>1. ords = [i \in 1 .. m |-> i - 1]
  BY DEF CompletionEligible, CallsAligned
<1>2. m \in Nat
  <2>1. CallsPerHour \in Nat \ {0}
    BY ZoneCount
  <2> QED
    BY <2>1, LastHour
<1>3. IsInjective(ords)
  <2> HIDE DEF m
  <2>1. \A i, j \in 1 .. m : i - 1 = j - 1 => i = j
    BY <1>2
  <2> DEFINE f == [i \in 1 .. m |-> i - 1]
  <2>2. DOMAIN f = 1 .. m /\ \A i \in 1 .. m : f[i] = i - 1
    OBVIOUS
  <2> HIDE DEF f
  <2>3. IsInjective(f)
    BY <2>1, <2>2 DEF IsInjective
  <2> QED
    BY <1>1, <2>3 DEF f
<1>4. ASSUME run.cut > 0
      PROVE  PrefixIdentity(run, run.cut) = PrefixIdentity(Origin(runs, r), run.cut)
  <2>1. run.src # 0 /\ Origin(runs, r) = runs[run.src]
    BY <1>4, Sources
  <2>2. ResumeIntact(run)
    BY DEF CompletionEligible
  <2> QED
    BY <2>1, <2>2 DEF ResumeIntact
<1> QED
  BY <1>3, <1>4 DEF Kept

LEMMA PublishStep ==
    ASSUME HourlyInv, Publish
    PROVE  HourlyInv'
<1> DEFINE source == Origin(runs, proc.run)
           r == proc.run
<1>1. /\ proc.pc = "verify" /\ Me \in Directories /\ proc \in Processes /\ Me.end = "open"
      /\ r \in DOMAIN runs
  BY Running, Sources DEF Publish, Me
<1>2. CASE CompletionEligible(Me)
  <2> DEFINE label == IF ReleasePass(Me) THEN "release_pass" ELSE "degraded"
             new == [Me EXCEPT !.end = label]
  <2>1. runs' = [runs EXCEPT ![proc.run] = new] /\ proc' = Idle
    BY <1>2 DEF Publish, Me
  <2>2. label \in {"release_pass", "degraded"}
    OBVIOUS
  <2> HIDE DEF label
  <2>3. /\ new \in Directories /\ new.calls = Me.calls /\ new.updates = Me.updates
        /\ new.steps = Me.steps /\ new.caol = Me.caol /\ new.decisions = Me.decisions
        /\ new.ckpt = Me.ckpt /\ new.retries = Me.retries /\ new.src = Me.src
        /\ new.cut = Me.cut /\ new.end = label
    BY <1>1, <2>2 DEF Directories, Ends
  <2> HIDE DEF new
  <2>4. Kept(Me, source)
    BY <1>1, <1>2, EligibleKeeps DEF Me
  <2>5. Kept(new, source)
    <3>1. PrefixIdentity(new, new.cut) = PrefixIdentity(Me, Me.cut)
      BY <2>3 DEF PrefixIdentity
    <3> QED
      BY <2>3, <2>4, <3>1 DEF Kept
  <2>6. Ended(new, source)
    BY <2>2, <2>3, <2>5 DEF Ended
  <2>7. new.end # "open"
    BY <2>2, <2>3
  <2> QED
    BY <1>1, <2>1, <2>3, <2>6, <2>7, IdleIs, Records
<1>3. CASE ~CompletionEligible(Me)
  <2> DEFINE p == [proc EXCEPT !.pc = "failing", !.error = "verification_failed"]
  <2>1. runs' = runs /\ proc' = p
    BY <1>3 DEF Publish
  <2>2. Differs(Me, source)
    BY <1>1, <1>3, EligibleUnlessDiffers
  <2>3. p \in Processes /\ p.pc = "failing" /\ p.error = "verification_failed" /\ p.run = r
    BY <1>1 DEF Processes, Pcs, Errors
  <2> HIDE DEF p
  <2>4. ProcShape(p, Me, source)
    BY <2>2, <2>3 DEF ProcShape, Failing
  <2>5. runs' = [runs EXCEPT ![proc.run] = Me]
    BY <1>1, <2>1, Sources DEF Me
  <2>6. Ended(Me, source)
    BY <1>1, OpenEnded
  <2> QED
    BY <1>1, <2>1, <2>3, <2>4, <2>5, <2>6, Records
<1> QED
  BY <1>2, <1>3

-----------------------------------------------------------------------------
(* What the invariant says of a run that a transport failure ended. *)

LEMMA TransportEligible ==
    ASSUME HourlyInv, NEW r \in DOMAIN runs, runs[r].end = "terminal_transport_error",
           Len(runs[r].decisions) \in 1 .. Hours - 1
    PROVE  LET run == runs[r]
               d == Len(run.decisions)
           IN  /\ Eligible(run) /\ CkptHour(run) = d /\ run.ckpt.next = d * StepsPerHour
               /\ run.ckpt.test = r /\ run.ckpt.versions = run.decisions[d].versions
<1> DEFINE run == runs[r]
           d == Len(run.decisions)
<1>1. run \in Directories /\ Shape(run, r) /\ Ended(run, Origin(runs, r))
  BY Sources DEF DirectoryInv
<1>2. /\ StepsPerHour \in Nat \ {0} /\ Hours \in Nat \ {0}
  BY ZoneCount
<1>3. run.scanned /\ run.end = "terminal_transport_error"
  BY <1>1 DEF Ended
<1>4. run.ckpt = [next |-> d * StepsPerHour, test |-> r, versions |-> run.decisions[d].versions]
  <2>1. d # 0
    BY <1>2
  <2> QED
    BY <1>1, <2>1 DEF Shape, CheckpointShape
<1>5. run.ckpt.next = d * StepsPerHour
  BY <1>4
<1>6. d \in Nat \ {0} /\ d < Hours
  BY <1>2
<1> HIDE DEF d
<1>7. d * StepsPerHour # 0 /\ d * StepsPerHour < Total
  <2>1. 1 * StepsPerHour <= d * StepsPerHour /\ 1 * StepsPerHour = StepsPerHour
    BY <1>2, <1>6, Multiples
  <2>2. d * StepsPerHour + StepsPerHour <= Hours * StepsPerHour
    BY <1>2, <1>6, Multiples
  <2> DEFINE x == d * StepsPerHour
             y == Hours * StepsPerHour
  <2>3. x \in Nat /\ y \in Nat /\ StepsPerHour <= x /\ x + StepsPerHour <= y
    BY <1>2, <1>6, <2>1, <2>2, Multiples
  <2> HIDE DEF x, y
  <2>4. x # 0 /\ x < y
    BY <1>2, <2>3
  <2> QED
    BY <2>4 DEF x, y, Total
<1>8. run.ckpt # NoCheckpoint
  BY <1>5, <1>7 DEF NoCheckpoint
<1>9. Eligible(run)
  BY <1>3, <1>5, <1>7, <1>8 DEF Eligible
<1>10. CkptHour(run) = d
  <2>1. 0 \in 0 .. StepsPerHour - 1 /\ d * StepsPerHour + 0 = d * StepsPerHour /\ d \in Nat
    BY <1>2, <1>6
  <2>2. HourOf(d * StepsPerHour + 0) = d
    BY <2>1, HourAt
  <2> QED
    BY <1>5, <2>1, <2>2 DEF HourOf, CkptHour
<1> QED
  BY <1>4, <1>9, <1>10 DEF d

\* The rows of the hours closed, of streams that hold them.
LEMMA ClosedRows ==
    ASSUME NEW run \in Directories, NEW r, Shape(run, r), NEW d \in Nat,
           d = Len(run.decisions)
    PROVE  /\ BeforeHour(run.updates, d) = SubSeq(run.updates, 1, d * Z)
           /\ BeforeHour(run.caol, d) = SubSeq(run.caol, 1, d * Z)
           /\ BeforeHour(run.calls, d) = SubSeq(run.calls, 1, d * CallsPerHour)
           /\ BeforeHour(run.decisions, d) = run.decisions
           /\ d * Z <= Len(run.updates) /\ d * Z <= Len(run.caol)
           /\ d * CallsPerHour <= Len(run.calls)
           /\ d * Z \in Nat /\ d * CallsPerHour \in Nat
           /\ \A row \in Range(run.updates) \cup Range(run.decisions) \cup Range(run.caol) :
                 row.hour <= d
<1>1. /\ Z \in Nat \ {0} /\ CallsPerHour \in Nat \ {0}
  BY ZoneCount
<1>2. /\ run.updates \in Seq(UpdateRows) /\ run.caol \in Seq(MemoryRows)
      /\ run.calls \in Seq(CallRows) /\ run.decisions \in Seq(DecisionRows)
      /\ DOMAIN run.updates = 1 .. Len(run.updates) /\ DOMAIN run.caol = 1 .. Len(run.caol)
      /\ DOMAIN run.decisions = 1 .. d /\ Len(run.updates) \in Nat
  BY Streams
<1>3. UpdatesShape(run) /\ MemoryShape(run) /\ CallsShape(run) /\ DecisionsShape(run)
  BY DEF Shape
<1>4. /\ Len(run.updates) \in {d * Z, (d + 1) * Z} /\ Len(run.caol) = d * Z
      /\ d * CallsPerHour <= Len(run.calls)
  BY <1>3 DEF UpdatesShape, MemoryShape, CallsShape
<1>5. /\ \A i \in DOMAIN run.updates : run.updates[i].hour = Block(Z, i)
      /\ \A i \in DOMAIN run.caol : run.caol[i].hour = Block(Z, i)
      /\ \A i \in DOMAIN run.calls : run.calls[i].hour = Block(CallsPerHour, i)
  BY <1>3 DEF UpdatesShape, MemoryShape, CallsShape, CallPlaced
<1>6. \A h \in 1 .. d : run.decisions[h].hour = h - 1
  BY <1>2, <1>3 DEF DecisionsShape
<1>7. d * Z \in Nat /\ d * CallsPerHour \in Nat /\ (d + 1) * Z = d * Z + Z
  <2>1. d \in Int /\ d >= 0
    OBVIOUS
  <2>2. d * Z \in Nat /\ (d + 1) * Z = d * Z + Z
    BY <1>1, <2>1, Multiples
  <2>3. d * CallsPerHour \in Nat
    BY <1>1, <2>1, Multiples
  <2> QED
    BY <2>2, <2>3
<1>8. d * Z <= Len(run.updates) /\ Len(run.updates) <= (d + 1) * Z
  <2> DEFINE x == d * Z
             w == (d + 1) * Z
             m == Len(run.updates)
  <2>1. x \in Nat /\ w = x + Z /\ m \in {x, w} /\ Z \in Nat
    BY <1>1, <1>4, <1>7
  <2> HIDE DEF x, w, m
  <2>2. x <= m /\ m <= w
    BY <2>1
  <2> QED
    BY <2>2 DEF x, w, m
<1>9. BeforeHour(run.updates, d) = SubSeq(run.updates, 1, d * Z)
  <2> DEFINE rows == run.updates
  <2>1. rows \in Seq(UpdateRows) /\ d * Z <= Len(rows)
        /\ \A i \in DOMAIN rows : rows[i].hour = Block(Z, i)
    BY <1>2, <1>5, <1>8
  <2> HIDE DEF rows
  <2>2. BeforeHour(rows, d) = SubSeq(rows, 1, d * Z)
    BY <1>1, <2>1, BeforeHourIs
  <2> QED
    BY <2>2 DEF rows
<1>10. d * Z <= Len(run.caol) /\ BeforeHour(run.caol, d) = SubSeq(run.caol, 1, d * Z)
  <2> DEFINE rows == run.caol
             x == d * Z
  <2>0. x \in Nat /\ Len(rows) = x
    BY <1>4, <1>7
  <2> HIDE DEF x
  <2>1. rows \in Seq(MemoryRows) /\ x <= Len(rows)
        /\ \A i \in DOMAIN rows : rows[i].hour = Block(Z, i)
    BY <1>2, <1>5, <2>0
  <2> HIDE DEF rows
  <2>2. BeforeHour(rows, d) = SubSeq(rows, 1, d * Z)
    BY <1>1, <2>1, BeforeHourIs DEF x
  <2> QED
    BY <2>1, <2>2 DEF rows, x
<1>11. BeforeHour(run.calls, d) = SubSeq(run.calls, 1, d * CallsPerHour)
  <2> DEFINE rows == run.calls
  <2>1. rows \in Seq(CallRows) /\ d * CallsPerHour <= Len(rows)
        /\ \A i \in DOMAIN rows : rows[i].hour = Block(CallsPerHour, i)
    BY <1>2, <1>4, <1>5
  <2> HIDE DEF rows
  <2>2. BeforeHour(rows, d) = SubSeq(rows, 1, d * CallsPerHour)
    BY <1>1, <2>1, BeforeHourIs
  <2> QED
    BY <2>2 DEF rows
<1>12. BeforeHour(run.decisions, d) = run.decisions
  <2> DEFINE rows == run.decisions
             kept == {i \in DOMAIN rows : rows[i].hour < d}
  <2>1. \A i \in DOMAIN rows : i \in kept
    <3>1. \A i \in 1 .. d : i - 1 < d
      OBVIOUS
    <3> QED
      BY <1>2, <1>6, <3>1
  <2>2. rows \in Seq(DecisionRows)
    BY <1>2
  <2>3. BeforeHour(rows, d) = Rows(rows, kept)
    BY DEF BeforeHour
  <2> HIDE DEF rows, kept
  <2>4. Rows(rows, kept) = rows
    BY <2>1, <2>2, AllRows
  <2> QED
    BY <2>3, <2>4 DEF rows
<1>13. ASSUME NEW row \in Range(run.updates) \cup Range(run.decisions) \cup Range(run.caol)
       PROVE  row.hour <= d
  <2>1. CASE row \in Range(run.updates)
    <3>1. PICK i \in DOMAIN run.updates : row = run.updates[i]
      BY <2>1 DEF Range
    <3>2. i \in Nat \ {0} /\ i <= (d + 1) * Z
      <4> DEFINE w == (d + 1) * Z
                 m == Len(run.updates)
      <4>1. m <= w /\ m \in Nat /\ w \in Int /\ i \in 1 .. m
        BY <1>1, <1>2, <1>7, <1>8, <3>1
      <4> HIDE DEF w, m
      <4>2. i \in Nat \ {0} /\ i <= w
        BY <4>1
      <4> QED
        BY <4>2 DEF w
    <3>3. Block(Z, i) < d + 1 /\ Block(Z, i) \in Nat
      <4>1. d + 1 \in Nat
        OBVIOUS
      <4> QED
        BY <1>1, <3>2, <4>1, Blocks, Divided
    <3>4. row.hour = Block(Z, i)
      BY <1>5, <3>1
    <3> QED
      BY <3>3, <3>4
  <2>2. CASE row \in Range(run.decisions)
    <3>1. PICK h \in 1 .. d : row = run.decisions[h]
      BY <1>2, <2>2 DEF Range
    <3> QED
      BY <1>6, <3>1
  <2>3. CASE row \in Range(run.caol)
    <3>1. PICK i \in DOMAIN run.caol : row = run.caol[i]
      BY <2>3 DEF Range
    <3>2. i \in Nat \ {0} /\ i <= d * Z
      BY <1>2, <1>4, <1>7, <3>1
    <3>3. Block(Z, i) < d /\ Block(Z, i) \in Nat
      BY <1>1, <3>2, Blocks, Divided
    <3>4. row.hour = Block(Z, i)
      BY <1>5, <3>1
    <3> QED
      BY <3>3, <3>4
  <2> QED
    BY <2>1, <2>2, <2>3
<1> QED
  BY <1>4, <1>7, <1>8, <1>9, <1>10, <1>11, <1>12, <1>13

LEMMA TransportPrefixWhole ==
    ASSUME HourlyInv, NEW r \in DOMAIN runs, runs[r].end = "terminal_transport_error",
           Len(runs[r].decisions) \in 1 .. Hours - 1
    PROVE  PrefixWhole(runs[r])
<1> DEFINE run == runs[r]
           d == Len(run.decisions)
           calls == run.calls
           answered == {i \in DOMAIN calls : calls[i].hour < d /\ calls[i].ok}
<1>1. /\ run \in Directories /\ Shape(run, r) /\ d \in Nat
      /\ CkptHour(run) = d /\ run.ckpt.next = d * StepsPerHour /\ run.ckpt.test = r
  BY Sources, TransportEligible, Streams DEF DirectoryInv
<1>2. /\ StepsPerHour \in Nat \ {0} /\ Z \in Nat \ {0} /\ CallsPerHour \in Nat \ {0}
      /\ Z = Len(ZoneSeq)
  BY ZoneCount DEF Z
<1>3. /\ run.updates \in Seq(UpdateRows) /\ run.caol \in Seq(MemoryRows)
      /\ run.calls \in Seq(CallRows) /\ DOMAIN run.decisions = 1 .. d
      /\ DOMAIN run.steps = 1 .. Len(run.steps) /\ Len(run.steps) \in Nat
      /\ DOMAIN run.calls = 1 .. Len(run.calls) /\ Len(run.calls) \in Nat
  BY <1>1, Streams
<1>4. /\ d * StepsPerHour <= Len(run.steps) /\ Len(run.steps) <= (d + 1) * StepsPerHour
      /\ \A s \in DOMAIN run.steps : run.steps[s].test = r
      /\ \A h \in 1 .. d : run.decisions[h].hour = h - 1
      /\ \A i \in DOMAIN run.calls : /\ CallPlaced(run.calls[i], i)
                                     /\ i <= d * CallsPerHour => run.calls[i].ok
  BY <1>1, <1>3 DEF Shape, StepsShape, DecisionsShape, CallsShape
<1>5. /\ BeforeHour(run.updates, d) = SubSeq(run.updates, 1, d * Z)
      /\ BeforeHour(run.caol, d) = SubSeq(run.caol, 1, d * Z)
      /\ BeforeHour(run.decisions, d) = run.decisions
      /\ d * Z <= Len(run.updates) /\ d * Z <= Len(run.caol)
      /\ d * CallsPerHour <= Len(run.calls)
      /\ d * Z \in Nat /\ d * CallsPerHour \in Nat
      /\ \A row \in Range(run.updates) \cup Range(run.decisions) \cup Range(run.caol) :
            row.hour <= d
  BY <1>1, ClosedRows
<1> HIDE DEF d, calls
<1>6. Len(BeforeHour(run.updates, d)) = d * Z /\ Len(BeforeHour(run.caol, d)) = d * Z
  <2> DEFINE x == d * Z
  <2>1. /\ x \in Nat /\ x <= Len(run.updates) /\ x <= Len(run.caol)
        /\ run.updates \in Seq(UpdateRows) /\ run.caol \in Seq(MemoryRows)
    BY <1>3, <1>5
  <2> HIDE DEF x
  <2>2. Len(SubSeq(run.updates, 1, x)) = x
    BY <2>1
  <2>3. Len(SubSeq(run.caol, 1, x)) = x
    BY <2>1
  <2> QED
    BY <1>5, <2>2, <2>3 DEF x
<1> DEFINE m == d * CallsPerHour
<1>7. m \in Nat /\ m <= Len(run.calls)
  BY <1>5
<1>8. \A i \in DOMAIN run.calls : i <= m => run.calls[i].ok
  BY <1>4
<1>9. run.ckpt.next = d * StepsPerHour /\ (d + 1) * StepsPerHour = d * StepsPerHour + StepsPerHour
      /\ d * StepsPerHour \in Nat
  BY <1>1, <1>2, Multiples
<1>10. \A i \in DOMAIN calls : calls[i].hour < d <=> i <= m
  <2> TAKE i \in DOMAIN calls
  <2>1. i \in Nat \ {0} /\ calls[i].hour = Block(CallsPerHour, i)
    BY <1>3, <1>4 DEF CallPlaced, calls
  <2>2. i <= d * CallsPerHour <=> Block(CallsPerHour, i) < d
    BY <1>1, <1>2, <2>1, Blocks
  <2> QED
    BY <2>1, <2>2 DEF m
<1> HIDE DEF m
<1>11. answered = 1 .. m
  <2>1. \A i \in 1 .. m : i \in DOMAIN calls /\ i <= m /\ calls[i].ok
    <3>1. \A i \in 1 .. m : i \in 1 .. Len(run.calls) /\ i <= m
      BY <1>3, <1>7
    <3> QED
      BY <1>3, <1>8, <3>1 DEF calls
  <2>2. \A i \in DOMAIN calls : i <= m => i \in 1 .. m
    BY <1>3, <1>7 DEF calls
  <2> QED
    BY <1>10, <2>1, <2>2
<1> HIDE DEF answered
<1>12. Cardinality(answered) = m /\ {calls[i].ord : i \in answered} = 0 .. m - 1
  <2>1. \A i \in 1 .. m : calls[i].ord = i - 1
    <3>1. \A i \in 1 .. m : i \in DOMAIN run.calls
      BY <1>3, <1>7
    <3> QED
      BY <1>4, <3>1 DEF CallPlaced, calls
  <2>2. Cardinality(1 .. m) = m
    <3>1. Cardinality(1 .. m) = IF 1 > m THEN 0 ELSE m - 1 + 1
      BY <1>7, FS_Interval
    <3> QED
      BY <1>7, <3>1
  <2>3. ASSUME NEW x \in 0 .. m - 1
        PROVE  \E i \in 1 .. m : x = calls[i].ord
    <3>1. x + 1 \in 1 .. m /\ x = (x + 1) - 1
      BY <1>7
    <3> DEFINE i == x + 1
    <3>2. i \in 1 .. m /\ x = i - 1
      BY <3>1
    <3> HIDE DEF i
    <3> QED
      BY <2>1, <3>2
  <2>4. \A i \in 1 .. m : calls[i].ord \in 0 .. m - 1
    <3>1. \A i \in 1 .. m : i - 1 \in 0 .. m - 1
      BY <1>7
    <3> QED
      BY <2>1, <3>1
  <2>5. {calls[i].ord : i \in 1 .. m} = 0 .. m - 1
    <3> DEFINE ords == {calls[i].ord : i \in 1 .. m}
    <3>1. \A x \in ords : x \in 0 .. m - 1
      BY <2>4
    <3>2. \A x \in 0 .. m - 1 : x \in ords
      BY <2>3
    <3> HIDE DEF ords
    <3> QED
      BY <3>1, <3>2 DEF ords
  <2> QED
    BY <1>11, <2>2, <2>5
<1>13. \A i \in DOMAIN run.calls : run.calls[i].hour < d => run.calls[i].ok
  <2> TAKE i \in DOMAIN run.calls
  <2> HAVE run.calls[i].hour < d
  <2>1. Block(CallsPerHour, i) < d
    BY <1>4 DEF CallPlaced
  <2>2. i \in Nat \ {0}
    BY <1>3
  <2>3. i <= d * CallsPerHour
    BY <1>1, <1>2, <2>1, <2>2, Blocks
  <2> QED
    BY <1>4, <2>3
<1>14. [i \in 1 .. d |-> i - 1] =
           [i \in DOMAIN BeforeHour(run.decisions, d) |-> run.decisions[i].hour]
  BY <1>3, <1>4, <1>5
<1>15. run.ckpt.next <= Len(run.steps) /\ OneHourBeyond(run)
  <2> DEFINE x == d * StepsPerHour
             w == (d + 1) * StepsPerHour
  <2>1. /\ x \in Nat /\ w = x + StepsPerHour /\ x <= Len(run.steps) /\ Len(run.steps) <= w
        /\ run.ckpt.next = x
    BY <1>4, <1>9
  <2> HIDE DEF x, w
  <2> QED
    BY <2>1 DEF OneHourBeyond
<1>16. \A s \in 1 .. run.ckpt.next : run.steps[s].test = run.ckpt.test
  <2> DEFINE x == d * StepsPerHour
  <2>1. x \in Nat /\ x <= Len(run.steps) /\ run.ckpt.next = x
    BY <1>4, <1>9
  <2> HIDE DEF x
  <2>2. \A s \in 1 .. x : s \in DOMAIN run.steps
    BY <1>3, <2>1
  <2> QED
    BY <1>1, <1>4, <2>1, <2>2
<1>17. /\ Len(BeforeHour(run.updates, d)) = d * Len(ZoneSeq)
       /\ Len(BeforeHour(run.caol, d)) = d * Len(ZoneSeq)
  BY <1>2, <1>6
<1>18. /\ Cardinality(answered) = d * CallsPerHour
       /\ {calls[i].ord : i \in answered} = 0 .. d * CallsPerHour - 1
  BY <1>12 DEF m
<1>19. CkptHour(run) = d
  BY <1>1
<1>20. \A row \in Range(run.updates) \cup Range(run.decisions) \cup Range(run.caol) :
          row.hour <= d
  BY <1>5
<1> DEFINE given(h) == {i \in DOMAIN run.calls : run.calls[i].hour < h /\ run.calls[i].ok}
           streams(h) ==
               /\ \A s \in 1 .. run.ckpt.next : run.steps[s].test = run.ckpt.test
               /\ Len(BeforeHour(run.updates, h)) = h * Len(ZoneSeq)
               /\ Len(BeforeHour(run.caol, h)) = h * Len(ZoneSeq)
               /\ [i \in 1 .. h |-> i - 1] =
                      [i \in DOMAIN BeforeHour(run.decisions, h) |-> run.decisions[i].hour]
           asked(h) ==
               /\ Cardinality(given(h)) = h * CallsPerHour
               /\ {run.calls[i].ord : i \in given(h)} = 0 .. h * CallsPerHour - 1
               /\ \A i \in DOMAIN run.calls : run.calls[i].hour < h => run.calls[i].ok
           beyond(h) ==
               \A row \in Range(run.updates) \cup Range(run.decisions) \cup Range(run.caol) :
                   row.hour <= h
<1>21. streams(d) /\ asked(d) /\ beyond(d)
  <2>1. streams(d)
    BY <1>14, <1>16, <1>17
  <2>2. beyond(d)
    BY <1>20
  <2>3. given(d) = answered /\ run.calls = calls
    BY DEF answered, calls
  <2> HIDE DEF given
  <2>4. asked(d)
    BY <1>13, <1>18, <2>3
  <2> QED
    BY <2>1, <2>2, <2>4
<1>22. PrefixWhole(run) <=>
          /\ run.ckpt.next <= Len(run.steps)
          /\ OneHourBeyond(run)
          /\ streams(CkptHour(run)) /\ asked(CkptHour(run)) /\ beyond(CkptHour(run))
  BY DEF PrefixWhole
<1> HIDE DEF streams, asked, beyond, given
<1> QED
  BY <1>15, <1>19, <1>21, <1>22

LEMMA TransportProgramsReplay ==
    ASSUME HourlyInv, NEW r \in DOMAIN runs, runs[r].end = "terminal_transport_error",
           Len(runs[r].decisions) \in 1 .. Hours - 1
    PROVE  ProgramsReplay(runs[r])
<1> DEFINE run == runs[r]
           d == Len(run.decisions)
           m == d * Z
           us == SubSeq(run.updates, 1, m)
<1>1. /\ run \in Directories /\ Shape(run, r) /\ d \in Nat
      /\ CkptHour(run) = d /\ run.ckpt.versions = run.decisions[d].versions
  BY Sources, TransportEligible, Streams DEF DirectoryInv
<1>2. Z \in Nat \ {0} /\ d # 0
  <2>1. Hours \in Nat
    BY ZoneCount
  <2> QED
    BY <2>1, ZoneCount
<1>3. /\ run.updates \in Seq(UpdateRows) /\ DOMAIN run.updates = 1 .. Len(run.updates)
      /\ Len(run.updates) \in Nat /\ DOMAIN run.decisions = 1 .. d
      /\ run.decisions \in Seq(DecisionRows)
  BY <1>1, Streams
<1>4. \A i \in DOMAIN run.updates :
         /\ run.updates[i].hour = Block(Z, i) /\ run.updates[i].zone = ZoneSeq[Place(Z, i)]
         /\ run.updates[i].before = IF i <= Z THEN 0 ELSE run.updates[i - Z].after
         /\ Block(Z, i) < d =>
               run.updates[i].after = run.decisions[Block(Z, i) + 1].versions[ZoneSeq[Place(Z, i)]]
  BY <1>1 DEF Shape, UpdatesShape
<1>5. BeforeHour(run.updates, d) = us /\ m <= Len(run.updates) /\ m \in Nat
  BY <1>1, ClosedRows
<1> HIDE DEF d, m, us
<1>6. /\ us \in Seq(UpdateRows) /\ Len(us) = m
      /\ \A i \in 1 .. m : us[i] = run.updates[i] /\ i \in DOMAIN run.updates
  <2>1. us \in Seq(UpdateRows) /\ Len(us) = m
    BY <1>3, <1>5 DEF us
  <2>2. \A i \in 1 .. m : us[i] = run.updates[i]
    BY <1>3, <1>5 DEF us
  <2>3. \A i \in 1 .. m : i \in DOMAIN run.updates
    BY <1>3, <1>5
  <2> QED
    BY <2>1, <2>2, <2>3
<1>7. DOMAIN us = 1 .. m
  BY <1>6
<1> DEFINE versions == run.decisions[d].versions
<1>8. versions \in Programs
  <2>1. d \in 1 .. d
    BY <1>1, <1>2
  <2>2. run.decisions[d] \in DecisionRows
    BY <1>3, <2>1
  <2> QED
    BY <2>2 DEF DecisionRows
<1>9. Zoned(us)
  BY <1>4, <1>6, <1>7 DEF Zoned
<1>10. ASSUME NEW i \in DOMAIN us
       PROVE  us[i].before = IF i <= Z THEN 0 ELSE us[i - Z].after
  <2>1. us[i].before = IF i <= Z THEN 0 ELSE run.updates[i - Z].after
    BY <1>4, <1>6, <1>7
  <2>2. ~(i <= Z) => i - Z \in 1 .. m
    BY <1>2, <1>5, <1>7
  <2> QED
    BY <1>6, <2>1, <2>2
<1>11. ASSUME NEW k \in 1 .. Z
       PROVE  us[(d - 1) * Z + k].after = versions[ZoneSeq[k]]
  <2> DEFINE e == d - 1
             i == e * Z + k
  <2>1. e \in Nat /\ d = e + 1 /\ e < d
    BY <1>1, <1>2
  <2> HIDE DEF e
  <2>2. Block(Z, i) = e /\ Place(Z, i) = k
    BY <1>2, <2>1, Positions
  <2>3. i \in 1 .. m
    <3> DEFINE x == e * Z
    <3>1. x \in Nat /\ m = x + Z
      BY <1>2, <2>1, Multiples DEF m
    <3> HIDE DEF x
    <3>2. x + k \in 1 .. m
      BY <1>2, <3>1
    <3> QED
      BY <3>2 DEF x
  <2> HIDE DEF i
  <2>4. us[i].after = run.decisions[e + 1].versions[ZoneSeq[k]]
    BY <1>4, <1>6, <2>1, <2>2, <2>3
  <2> QED
    BY <2>1, <2>4 DEF i, e
<1> HIDE DEF versions
<1>12. EndsAt(us, versions)
  <2>1. Len(us) = d * Z
    BY <1>6 DEF m
  <2>2. d = 0 => versions = Unchanged
    BY <1>2
  <2> HIDE DEF Z
  <2> QED
    BY <1>1, <1>6, <1>8, <1>9, <1>10, <1>11, <2>1, <2>2, EndsAtLast
<1> QED
  BY <1>1, <1>5, <1>12 DEF ProgramsReplay, versions

\* A failed call is the last one, or one of a batch that ends the calls.
LEMMA FailedHold ==
    ASSUME HourlyInv, NEW r \in DOMAIN runs
    PROVE  FailedCallsAccounted(runs[r])
<1> DEFINE run == runs[r]
           d == Len(run.decisions)
           m == Len(run.calls)
           calls == run.calls
           failed == {c \in Range(calls) : ~c.ok}
           batch == \E c \in failed : c.who \in Zones
<1> SUFFICES ASSUME failed # {}
             PROVE  /\ [i \in DOMAIN calls |-> calls[i].ord] = [i \in DOMAIN calls |-> i - 1]
                    /\ run.retries = RetriesOf(calls)
                    /\ ~batch => failed = {Last(calls)}
                    /\ batch => /\ Last(calls).who = Last(ZoneSeq)
                                /\ \A c \in failed : c.hour = Last(calls).hour
                                /\ OfHour(run.updates, Last(calls).hour) = << >>
                                /\ Len(run.steps) = Last(calls).hour * StepsPerHour
  BY DEF FailedCallsAccounted
<1>1. run \in Directories /\ Shape(run, r) /\ d \in Nat
  BY Sources, Streams DEF DirectoryInv
<1>2. /\ Z \in Nat \ {0} /\ CallsPerHour \in Nat \ {0} /\ CallsPerHour = Z + 2
      /\ DOMAIN ZoneSeq = 1 .. Z /\ \A k \in 1 .. Z : ZoneSeq[k] \in Zones
  BY ZoneCount
<1>3. calls \in Seq(CallRows) /\ DOMAIN calls = 1 .. m /\ m \in Nat
      /\ run.updates \in Seq(UpdateRows)
  BY <1>1, Streams
<1>4. \A i \in DOMAIN calls : CallPlaced(calls[i], i)
  BY <1>1 DEF Shape, CallsShape
<1>5. PICK f \in 1 .. m : ~calls[f].ok
  BY <1>3 DEF Range
<1>6. FailedShape(run)
  BY <1>1 DEF Shape
<1>7. /\ run.retries = RetriesOf(calls)
      /\ \/ /\ m \in {d * CallsPerHour + 1, (d + 1) * CallsPerHour}
            /\ \A i \in DOMAIN calls : i < m => calls[i].ok
         \/ /\ m = d * CallsPerHour + 1 + Z
            /\ \A i \in 1 .. d * CallsPerHour + 1 : calls[i].ok
            /\ Len(run.updates) = d * Z /\ Len(run.steps) = d * StepsPerHour
  BY <1>3, <1>5, <1>6 DEF FailedShape
<1>8. [i \in DOMAIN calls |-> calls[i].ord] = [i \in DOMAIN calls |-> i - 1]
  BY <1>4 DEF CallPlaced
<1>9. Last(calls) = calls[m] /\ m \in 1 .. m
  BY <1>3 DEF Last
<1>10. d * CallsPerHour \in Nat /\ (d + 1) * CallsPerHour = d * CallsPerHour + CallsPerHour
  <2>1. d \in Int /\ d >= 0 /\ CallsPerHour \in Nat \ {0}
    BY <1>1, <1>2
  <2> HIDE DEF d
  <2> QED
    BY <2>1, Multiples
<1>11. \A c \in failed : \E i \in 1 .. m : c = calls[i] /\ ~calls[i].ok
  BY <1>3 DEF Range
<1>12. \A i \in 1 .. m : ~calls[i].ok => calls[i] \in failed
  BY <1>3 DEF Range
<1>13. Last(ZoneSeq) = ZoneSeq[Z]
  BY DEF Last, Z
<1>18. UpdatesShape(run)
  BY <1>1 DEF Shape
<1> HIDE DEF failed, d, m, calls
<1>14. CASE /\ m \in {d * CallsPerHour + 1, (d + 1) * CallsPerHour}
            /\ \A i \in DOMAIN calls : i < m => calls[i].ok
  <2>1. \A i \in 1 .. m : ~calls[i].ok => i = m
    BY <1>3, <1>14
  <2>2. failed = {calls[m]}
    <3>1. \A c \in failed : c = calls[m]
      BY <1>11, <2>1
    <3>2. calls[m] \in failed
      BY <1>5, <1>12, <2>1
    <3> QED
      BY <3>1, <3>2
  <2>3. Place(CallsPerHour, m) \in {1, CallsPerHour}
    <3>1. CASE m = d * CallsPerHour + 1
      <4>1. 1 \in 1 .. CallsPerHour
        BY <1>2
      <4> QED
        BY ZenonT(40), <1>1, <1>2, <3>1, <4>1, Positions
    <3>2. CASE m = (d + 1) * CallsPerHour
      <4>1. CallsPerHour \in 1 .. CallsPerHour
        BY <1>2
      <4>2. Place(CallsPerHour, d * CallsPerHour + CallsPerHour) = CallsPerHour
        BY <1>1, <1>2, <4>1, Positions
      <4> QED
        BY <1>10, <3>2, <4>2
    <3> QED
      BY <1>14, <3>1, <3>2
  <2>4. calls[m].who \notin Zones
    <3>1. calls[m].who = Caller(Place(CallsPerHour, m))
      BY <1>3, <1>4, <1>9 DEF CallPlaced
    <3>2. Caller(1) \notin Zones /\ Caller(CallsPerHour) \notin Zones
      BY CallerIs, ZoneCount
    <3> QED
      BY <2>3, <3>1, <3>2
  <2>5. ~batch
    BY <2>2, <2>4
  <2> QED
    BY <1>7, <1>8, <1>9, <2>2, <2>5 DEF calls
<1>15. CASE /\ m = d * CallsPerHour + 1 + Z
            /\ \A i \in 1 .. d * CallsPerHour + 1 : calls[i].ok
            /\ Len(run.updates) = d * Z /\ Len(run.steps) = d * StepsPerHour
  <2>1. ASSUME NEW i \in 1 .. m, ~calls[i].ok
        PROVE  calls[i].hour = d /\ calls[i].who \in Zones
    <3> DEFINE x == d * CallsPerHour
               k == i - x
    <3>1. ~(i <= x + 1) /\ x \in Nat /\ m = x + 1 + Z
      <4>1. x \in Nat /\ m = x + 1 + Z /\ \A j \in 1 .. x + 1 : calls[j].ok
        BY <1>10, <1>15
      <4> HIDE DEF x
      <4>2. i <= x + 1 => i \in 1 .. x + 1
        BY <4>1
      <4> QED
        BY <2>1, <4>1, <4>2
    <3> HIDE DEF x
    <3>2. k \in 1 .. CallsPerHour /\ k \in 2 .. Z + 1 /\ i = x + k
      BY <1>2, <3>1
    <3> HIDE DEF k
    <3>3. Block(CallsPerHour, x + k) = d /\ Place(CallsPerHour, x + k) = k
      BY <1>1, <1>2, <3>2, Positions DEF x
    <3>4. calls[i].hour = d /\ calls[i].who = Caller(k)
      BY <1>3, <1>4, <3>2, <3>3 DEF CallPlaced
    <3>5. Caller(k) \in Zones
      BY <3>2, CallerIs
    <3> QED
      BY <3>4, <3>5
  <2>2. batch
    BY <1>5, <1>12, <2>1
  <2>3. \A c \in failed : c.hour = d
    BY <1>11, <2>1
  <2>4. calls[m].hour = d /\ calls[m].who = ZoneSeq[Z]
    <3>1. 1 + Z \in 1 .. CallsPerHour /\ Z \in 1 .. Z
      BY <1>2
    <3>2. Block(CallsPerHour, d * CallsPerHour + (1 + Z)) = d
          /\ Place(CallsPerHour, d * CallsPerHour + (1 + Z)) = 1 + Z
      <4> DEFINE k == 1 + Z
      <4>1. d \in Nat /\ CallsPerHour \in Nat \ {0} /\ k \in 1 .. CallsPerHour
        BY <1>1, <1>2, <3>1
      <4> HIDE DEF k
      <4>2. Block(CallsPerHour, d * CallsPerHour + k) = d
            /\ Place(CallsPerHour, d * CallsPerHour + k) = k
        BY <4>1, Positions
      <4> QED
        BY <4>2 DEF k
    <3>3. m = d * CallsPerHour + (1 + Z)
      BY <1>2, <1>10, <1>15
    <3>4. Caller(1 + Z) = ZoneSeq[Z]
      BY <3>1, CallerIs
    <3> QED
      BY <1>3, <1>4, <1>9, <3>2, <3>3, <3>4 DEF CallPlaced
  <2>5. OfHour(run.updates, d) = << >>
    <3> DEFINE rows == run.updates
               x == d * Z
    <3>1. \A i \in DOMAIN rows : rows[i].hour = Block(Z, i)
      BY <1>18 DEF UpdatesShape
    <3>2. x \in Nat /\ Len(rows) = x /\ rows \in Seq(UpdateRows)
      BY <1>1, <1>2, <1>3, <1>15, Multiples
    <3> HIDE DEF rows, x
    <3>3. Len(rows) <= x
      BY <3>2
    <3>4. OfHour(rows, d) = << >>
      BY <1>1, <1>2, <3>1, <3>2, <3>3, OfHourIs DEF x
    <3> QED
      BY <3>4 DEF rows
  <2> QED
    BY <1>7, <1>8, <1>9, <1>13, <1>15, <2>2, <2>3, <2>4, <2>5 DEF calls
<1> QED
  BY <1>7, <1>14, <1>15 DEF calls, m, d

-----------------------------------------------------------------------------
(* The steps together, and the properties the runs check. *)

LEMMA HourlyInit == Init => HourlyInv
<1> SUFFICES ASSUME Init  PROVE HourlyInv
  OBVIOUS
<1>1. runs = << >> /\ proc = Idle
  BY DEF Init
<1>2. HourlyTypes
  BY <1>1, IdleIs DEF HourlyTypes
<1>3. RunsInv
  BY <1>1 DEF RunsInv
<1>4. ProcInv
  BY <1>1, IdleIs DEF ProcInv
<1> QED
  BY <1>2, <1>3, <1>4 DEF HourlyInv

LEMMA HourlySame ==
    ASSUME HourlyInv, runs' = runs, proc' = proc
    PROVE  HourlyInv'
  BY DEF HourlyInv, HourlyTypes, RunsInv, ProcInv, Me

LEMMA HourlyNext == HourlyInv /\ [Next]_vars => HourlyInv'
<1> SUFFICES ASSUME HourlyInv, [Next]_vars  PROVE HourlyInv'
  OBVIOUS
<1>1. CASE StartFresh \/ StartResume
  BY <1>1, StartStep
<1>2. CASE Select
  BY <1>2, SelectStep
<1>3. CASE Initialize
  BY <1>3, InitializeStep
<1>4. CASE StartEvaluation
  BY <1>4, StartEvaluationStep
<1>5. CASE Orchestrate
  BY <1>5, OrchestrateStep
<1>6. CASE ExecutorBatch
  BY <1>6, ExecutorBatchStep
<1>7. CASE ReplayHour
  BY <1>7, ReplayHourStep
<1>8. CASE Advance
  BY <1>8, AdvanceStep
<1>9. CASE Reflect
  BY <1>9, ReflectStep
<1>10. CASE ReplayHourEnd
  BY <1>10, ReplayHourEndStep
<1>11. CASE StopTest
  BY <1>11, StopTestStep
<1>12. CASE Publish
  BY <1>12, PublishStep
<1>13. CASE Fail
  BY <1>13, FailStep
<1>14. CASE SetupFails
  BY <1>14, SetupFailsStep
<1>15. CASE Kill
  BY <1>15, KillStep
<1>16. CASE RemoveStaleLock
  BY <1>16, HourlySame DEF RemoveStaleLock
<1>17. CASE UNCHANGED vars
  BY <1>17, HourlySame DEF vars
<1> QED
  BY <1>1, <1>2, <1>3, <1>4, <1>5, <1>6, <1>7, <1>8, <1>9, <1>10, <1>11, <1>12, <1>13, <1>14,
     <1>15, <1>16, <1>17 DEF Next, RunStep

(* The streams of every run directory, at every moment, are those of a       *)
(* number of closed hours and of one open hour, and what the process holds   *)
(* in memory is what they say: the invariant the properties follow from      *)
(* (the runner and the streams of a run of the historical source).           *)
THEOREM HourlyAlways == Spec => []HourlyInv
  BY HourlyInit, HourlyNext, PTL DEF Spec

LEMMA AcceptedUnlessDiffers == HourlyInv => FinishedRunAccepted
<1> SUFFICES ASSUME HourlyInv, NEW r \in DOMAIN runs, runs[r].end = "verification_failed"
             PROVE  \E s \in 1 .. runs[r].cut :
                        runs[r].steps[s].num # runs[runs[r].src].steps[s].num
  BY DEF FinishedRunAccepted
<1>1. Differs(runs[r], Origin(runs, r)) /\ runs[r].cut \in Nat
  BY Sources, Streams DEF DirectoryInv, Ended
<1>2. PICK s \in 1 .. runs[r].cut : runs[r].steps[s].num # Origin(runs, r).steps[s].num
  BY <1>1 DEF Differs
<1>3. runs[r].cut # 0
  BY <1>1, <1>2
<1>4. Origin(runs, r) = runs[runs[r].src]
  BY <1>3, Sources
<1> QED
  BY <1>2, <1>4

LEMMA ResumableAfterTransport == HourlyInv => TransportFailureResumes
<1> SUFFICES ASSUME HourlyInv, NEW r \in DOMAIN runs,
                    runs[r].end = "terminal_transport_error",
                    Len(runs[r].decisions) \in 1 .. Hours - 1
             PROVE  Loadable(runs[r]) /\ FailedCallsAccounted(runs[r])
  BY DEF TransportFailureResumes
<1>1. Eligible(runs[r])
  BY TransportEligible
<1>2. PrefixWhole(runs[r]) /\ ProgramsReplay(runs[r])
  BY TransportPrefixWhole, TransportProgramsReplay
<1>3. FailedCallsAccounted(runs[r])
  BY FailedHold
<1> QED
  BY <1>1, <1>2, <1>3 DEF Loadable

LEMMA NoHourAskedTwice == HourlyInv => HoursAskedOnce
<1> SUFFICES ASSUME HourlyInv, NEW r \in DOMAIN runs
             PROVE  LET run == runs[r]
                    IN  /\ \A c \in Range(run.calls) : c.by = r => c.hour >= HourOf(run.cut)
                        /\ run.end \in {"release_pass", "degraded"} =>
                              /\ IsInjective([i \in DOMAIN run.calls |-> run.calls[i].ord])
                              /\ run.cut > 0 => PrefixIdentity(run, run.cut)
                                                    = PrefixIdentity(runs[run.src], run.cut)
  BY DEF HoursAskedOnce
<1> DEFINE run == runs[r]
           source == Origin(runs, r)
           n == Imported(run, source)
           m == n * CallsPerHour
<1>1. /\ run \in Directories /\ DirectoryInv(run, r, source) /\ n \in Nat /\ r \in Nat
      /\ run.cut > 0 => source = runs[run.src]
  BY Sources
<1>2. /\ Shape(run, r) /\ run.cut = n * StepsPerHour
      /\ CallsOwned(run.calls, r, source.calls, m) /\ Ended(run, source)
  BY <1>1 DEF DirectoryInv, Started, PrefixShape
<1>3. /\ CallsPerHour \in Nat \ {0} /\ StepsPerHour \in Nat \ {0}
      /\ run.calls \in Seq(CallRows) /\ DOMAIN run.calls = 1 .. Len(run.calls)
      /\ Len(run.calls) \in Nat
  BY <1>1, ZoneCount, Streams
<1> HIDE DEF n, source
<1>4. HourOf(run.cut) = n
  <2>1. 0 \in 0 .. StepsPerHour - 1 /\ n * StepsPerHour + 0 = n * StepsPerHour
    BY <1>1, <1>3
  <2>2. HourOf(n * StepsPerHour + 0) = n
    BY <1>1, <2>1, HourAt
  <2> QED
    BY <1>2, <2>1, <2>2
<1>5. ASSUME NEW c \in Range(run.calls), c.by = r
      PROVE  c.hour >= HourOf(run.cut)
  <2>1. PICK i \in DOMAIN run.calls : c = run.calls[i]
    BY DEF Range
  <2>2. i \in Nat \ {0}
    BY <1>3
  <2>3. ~(i <= m)
    <3>1. i <= m => run.calls[i].by < r
      BY <1>2, <2>1 DEF CallsOwned
    <3> QED
      BY <1>1, <1>5, <2>1, <3>1
  <2>4. ~(Block(CallsPerHour, i) < n) /\ Block(CallsPerHour, i) \in Nat
    BY <1>1, <1>3, <2>2, <2>3, Blocks, Divided
  <2>5. c.hour = Block(CallsPerHour, i)
    BY <1>2, <2>1 DEF Shape, CallsShape, CallPlaced
  <2> QED
    BY <1>1, <1>4, <2>4, <2>5
<1>6. ASSUME run.end \in {"release_pass", "degraded"}
      PROVE  /\ IsInjective([i \in DOMAIN run.calls |-> run.calls[i].ord])
             /\ run.cut > 0 => PrefixIdentity(run, run.cut)
                                   = PrefixIdentity(runs[run.src], run.cut)
  BY <1>1, <1>2, <1>6 DEF Ended, Kept
<1> QED
  BY <1>5, <1>6

(* A run whose evaluation finished and whose test was stopped is refused by  *)
(* the verifier only when a step of its replayed prefix has other digits     *)
(* than the source's, in every run and after any faults (verify_run).        *)
THEOREM FinishedRunsAccepted == Spec => []FinishedRunAccepted
  BY HourlyAlways, AcceptedUnlessDiffers, PTL

(* Every run a transport failure ended after a completed hour, and before    *)
(* the last, can be resumed, and its failed calls are those its verifier     *)
(* accounts for (load_resume_prefix and the checks of failed runs).          *)
THEOREM TransportFailuresResume == Spec => []TransportFailureResumes
  BY HourlyAlways, ResumableAfterTransport, PTL

(* A resumed run asks no hour its source completed, and a published run      *)
(* holds one answer a call and its source's prefix to the digit (the runner  *)
(* and the resume prefix).                                                   *)
THEOREM NoHourPaidTwice == Spec => []HoursAskedOnce
  BY HourlyAlways, NoHourAskedTwice, PTL

-----------------------------------------------------------------------------
(***************************************************************************)
(* What is left at the service.                                            *)
(***************************************************************************)
\* A run that may leave its test: dead, or one whose stop failed.
Leaves(run) ==
    \/ run.end \in {"killed", "stop_raised"}
    \/ run.end = "terminal_transport_error" /\ run.ckpt.next = Total

\* A stop is tried once; when it fails after the last step the clean-up knows, by
\* stopTried, that it was.
TestsInv ==
    /\ live \subseteq DOMAIN runs
    /\ \A t \in live : t = proc.run \/ Leaves(runs[t])
    /\ proc.pc = "idle" => proc = Idle
    /\ proc.pc \notin {"verify", "failing"} => ~proc.stopTried
    /\ proc.pc = "verify" => proc.stopTried /\ proc.run \notin live
    /\ proc.pc = "failing" /\ proc.stopTried /\ proc.run \in live =>
          proc.error = "terminal_transport_error" /\ Me.ckpt.next = Total

\* A step of the process writes to its own directory, and keeps its test.
Aside ==
    DOMAIN runs' = DOMAIN runs /\ \A t \in DOMAIN runs : t # proc.run => runs'[t] = runs[t]
Goes ==
    /\ Aside /\ live' = live
    /\ proc'.run = proc.run /\ proc'.stopTried = proc.stopTried
    /\ proc'.pc \notin {"idle", "verify"}

LEMMA GoesKeeps ==
    ASSUME HourlyInv, TestsInv, proc.pc \notin {"idle", "verify", "failing"}, Goes
    PROVE  TestsInv'
<1>1. ~proc'.stopTried
  BY DEF TestsInv, Goes
<1>2. live' \subseteq DOMAIN runs'
  BY DEF TestsInv, Goes, Aside
<1>3. \A t \in live' : t = proc'.run \/ Leaves(runs'[t])
  BY DEF TestsInv, Goes, Aside
<1> QED
  BY <1>1, <1>2, <1>3 DEF TestsInv, Goes

LEMMA BrokenGoes ==
    ASSUME HourlyInv, NEW calls, NEW error, Broken(calls, error), live' = live
    PROVE  Goes
<1>1. proc \in Processes
  BY DEF HourlyInv, HourlyTypes
<1>2. proc' = [proc EXCEPT !.pc = "failing", !.error = error]
  BY DEF Broken
<1>3. proc'.run = proc.run /\ proc'.stopTried = proc.stopTried /\ proc'.pc = "failing"
  BY <1>1, <1>2 DEF Processes
<1>4. Aside
  BY DEF Broken, Aside
<1> QED
  BY <1>3, <1>4 DEF Goes

LEMMA EvaluationGoes ==
    ASSUME HourlyInv,
           \/ Initialize \/ StartEvaluation \/ Orchestrate \/ ExecutorBatch \/ ReplayHour
           \/ Advance \/ Reflect \/ ReplayHourEnd \/ SetupFails
    PROVE  Goes /\ proc.pc \notin {"idle", "verify", "failing"}
<1>1. proc \in Processes
  BY DEF HourlyInv, HourlyTypes
<1>2. CASE Initialize
  BY <1>1, <1>2 DEF Initialize, Goes, Aside, Processes
<1>3. CASE StartEvaluation
  BY <1>1, <1>3 DEF StartEvaluation, Goes, Aside, Processes
<1>4. CASE Orchestrate
  <2>1. proc.pc = "hour" /\ live' = live
    BY <1>4 DEF Orchestrate
  <2>2. PICK a \in Answers :
           IF a.ok
           THEN /\ runs' = [runs EXCEPT ![proc.run].calls =
                       Append(@, Call(Hour, "orchestrator", a.tries, a.ok, a.good))]
                /\ proc' = [proc EXCEPT
                       !.pc = "executors", !.fell = ~a.good,
                       !.prev = IF a.good THEN <<proc.run, Hour>> ELSE @,
                       !.fallbacks = IF a.good THEN @ ELSE @ + 1]
           ELSE Broken(<<Call(Hour, "orchestrator", a.tries, a.ok, a.good)>>,
                       "terminal_transport_error")
    BY <1>4 DEF Orchestrate
  <2>3. CASE a.ok
    BY <1>1, <2>1, <2>2, <2>3 DEF Goes, Aside, Processes
  <2>4. CASE ~a.ok
    BY <2>1, <2>2, <2>4, BrokenGoes
  <2> QED
    BY <2>3, <2>4
<1>5. CASE ExecutorBatch
  <2>1. proc.pc = "executors" /\ live' = live
    BY <1>5 DEF ExecutorBatch
  <2>2. \/ \E calls, updates, versions :
              /\ runs' = [runs EXCEPT ![proc.run].calls = @ \o calls,
                                      ![proc.run].updates = @ \o updates]
              /\ proc' = [proc EXCEPT !.pc = "step", !.versions = versions]
        \/ \E calls : Broken(calls, "terminal_transport_error")
    BY <1>5 DEF ExecutorBatch
  <2>3. CASE \E calls : Broken(calls, "terminal_transport_error")
    BY <2>1, <2>3, BrokenGoes
  <2>4. CASE \E calls, updates, versions :
              /\ runs' = [runs EXCEPT ![proc.run].calls = @ \o calls,
                                      ![proc.run].updates = @ \o updates]
              /\ proc' = [proc EXCEPT !.pc = "step", !.versions = versions]
    BY <1>1, <2>1, <2>4 DEF Goes, Aside, Processes
  <2> QED
    BY <2>2, <2>3, <2>4
<1>6. CASE ReplayHour
  <2>1. /\ proc.pc = "hour" /\ live' = live
        /\ \E updates : runs' = [runs EXCEPT ![proc.run].updates = @ \o updates]
        /\ \E versions, prev, fallbacks :
              proc' = [proc EXCEPT !.pc = "step", !.versions = versions, !.prev = prev,
                                   !.fallbacks = fallbacks]
    BY <1>6 DEF ReplayHour
  <2> QED
    BY <1>1, <2>1 DEF Goes, Aside, Processes
<1>7. CASE Advance
  <2>1. proc.pc = "step" /\ live' = live
    BY <1>7 DEF Advance
  <2>2. \/ \E row : /\ runs' = [runs EXCEPT ![proc.run].steps = Append(@, row)]
                    /\ proc' = [proc EXCEPT !.step = @ + 1,
                          !.pc = IF (proc.step + 1) % StepsPerHour = 0 THEN "hour_end" ELSE "step"]
        \/ \E error : Broken(<< >>, error)
    BY <1>7 DEF Advance
  <2>3. CASE \E error : Broken(<< >>, error)
    BY <2>1, <2>3, BrokenGoes
  <2>4. CASE \E row : /\ runs' = [runs EXCEPT ![proc.run].steps = Append(@, row)]
                      /\ proc' = [proc EXCEPT !.step = @ + 1,
                            !.pc = IF (proc.step + 1) % StepsPerHour = 0 THEN "hour_end" ELSE "step"]
    BY <1>1, <2>1, <2>4 DEF Goes, Aside, Processes
  <2> QED
    BY <2>2, <2>3, <2>4
<1>8. CASE Reflect \/ ReplayHourEnd
  <2>1. proc.pc = "hour_end" /\ live' = live
    BY <1>8 DEF Reflect, ReplayHourEnd
  <2>2. \/ /\ \E new : runs' = [runs EXCEPT ![proc.run] = new]
           /\ proc' = [proc EXCEPT !.pc = AfterHour]
        \/ \E calls, error : Broken(calls, error)
    BY <1>8 DEF Reflect, ReplayHourEnd
  <2>3. CASE \E calls, error : Broken(calls, error)
    BY <2>1, <2>3, BrokenGoes
  <2>4. CASE /\ \E new : runs' = [runs EXCEPT ![proc.run] = new]
             /\ proc' = [proc EXCEPT !.pc = AfterHour]
    <3>1. AfterHour \in {"stop", "hour"}
      BY DEF AfterHour
    <3> QED
      BY <1>1, <2>1, <2>4, <3>1 DEF Goes, Aside, Processes
  <2> QED
    BY <2>2, <2>3, <2>4
<1>9. CASE SetupFails
  <2>1. /\ proc.pc \in {"select", "queued", "import"} /\ live' = live
        /\ Broken(<< >>, "terminal_transport_error")
    BY <1>9 DEF SetupFails
  <2> QED
    BY <2>1, BrokenGoes
<1> QED
  BY <1>2, <1>3, <1>4, <1>5, <1>6, <1>7, <1>8, <1>9

LEMMA StopTestLeaves ==
    ASSUME HourlyInv, TestsInv, StopTest
    PROVE  TestsInv'
<1> DEFINE source == Origin(runs, proc.run)
<1>1. /\ proc.pc = "stop" /\ proc \in Processes /\ proc.run \in DOMAIN runs
      /\ ProcShape(proc, Me, source) /\ Me \in Directories /\ CheckpointShape(Me, proc.run)
  <2>1. proc.pc = "stop"
    BY DEF StopTest
  <2>2. /\ proc \in Processes /\ proc.run \in DOMAIN runs /\ ProcShape(proc, Me, source)
    BY <2>1, Running
  <2>3. Me \in Directories /\ Shape(Me, proc.run)
    BY <2>2 DEF HourlyInv, HourlyTypes, RunsInv, DirectoryInv, Me
  <2> QED
    BY <2>1, <2>2, <2>3 DEF Shape
<1>2. Me.ckpt.next = Total
  <2>1. Len(Me.decisions) = Hours /\ Hours # 0
    BY <1>1, HourlyAssumption DEF ProcShape, Over
  <2> QED
    BY <1>1, <2>1 DEF CheckpointShape, Total
<1>3. ~proc.stopTried
  BY <1>1 DEF TestsInv
<1>4. CASE /\ live' = live \ {proc.run}
           /\ runs' = [runs EXCEPT ![proc.run].lifecycle =
                             @ \o <<"evaluation_completed", "stopped">>,
                         ![proc.run].dispatch = "stopped",
                         ![proc.run].fallbacks = proc.fallbacks,
                         ![proc.run].retries = RecordedRetries(Me.calls),
                         ![proc.run].scanned = TRUE]
           /\ proc' = [proc EXCEPT !.pc = "verify", !.stopTried = TRUE]
  <2>1. proc'.pc = "verify" /\ proc'.run = proc.run /\ proc'.stopTried
    BY <1>1, <1>4 DEF Processes
  <2>2. Aside
    BY <1>4 DEF Aside
  <2> QED
    BY <1>4, <2>1, <2>2 DEF TestsInv, Aside
<1>5. CASE /\ runs' = [runs EXCEPT ![proc.run].lifecycle = Append(@, "evaluation_completed"),
                                  ![proc.run].retries = RecordedRetries(Me.calls)]
           /\ proc' = [proc EXCEPT !.pc = "failing", !.stopTried = TRUE,
                                  !.error = "terminal_transport_error"]
           /\ live' = live
  <2>1. /\ proc'.pc = "failing" /\ proc'.run = proc.run /\ proc'.stopTried
        /\ proc'.error = "terminal_transport_error"
    BY <1>1, <1>5 DEF Processes
  <2>2. Aside
    BY <1>5 DEF Aside
  <2>3. runs'[proc.run].ckpt = Me.ckpt
    BY <1>1, <1>5 DEF Directories, Me
  <2>4. Me'.ckpt.next = Total
    BY <1>2, <2>1, <2>3 DEF Me
  <2> QED
    BY <1>5, <2>1, <2>2, <2>4 DEF TestsInv, Aside
<1> QED
  BY <1>4, <1>5 DEF StopTest

\* The process ends: its test is gone, or its directory says why it may be left.
LEMMA EndLeaves ==
    ASSUME HourlyInv, TestsInv, Publish \/ Fail \/ Kill
    PROVE  TestsInv'
<1>1. /\ proc.pc # "idle" /\ proc \in Processes /\ proc.run \in DOMAIN runs /\ Me.end = "open"
      /\ Me \in Directories
  <2>1. proc.pc # "idle"
    BY DEF Publish, Fail, Kill
  <2>2. proc \in Processes /\ proc.run \in DOMAIN runs /\ Me.end = "open"
    BY <2>1, Running
  <2>3. Me \in Directories
    BY <2>2 DEF HourlyInv, HourlyTypes, Me
  <2> QED
    BY <2>1, <2>2, <2>3
<1>2. ~Idle.stopTried /\ Idle.pc = "idle"
  BY DEF Idle
<1>3. ASSUME Aside, proc' = Idle, live' \subseteq live,
             proc.run \in live' => Leaves(runs'[proc.run])
      PROVE  TestsInv'
  <2>1. \A t \in live' : Leaves(runs'[t])
    BY <1>3 DEF TestsInv, Aside
  <2> QED
    BY <1>2, <1>3, <2>1 DEF TestsInv, Aside
<1>4. CASE Kill
  <2>1. /\ runs' = [runs EXCEPT ![proc.run].end = IF @ = "open" THEN "killed" ELSE @]
        /\ proc' = Idle /\ live' = live
    BY <1>4 DEF Kill
  <2>2. runs'[proc.run].end = "killed"
    BY <1>1, <2>1 DEF Directories, Me
  <2>3. Aside
    BY <2>1 DEF Aside
  <2> QED
    BY <1>3, <2>1, <2>2, <2>3 DEF Leaves
<1>5. CASE Publish
  <2>1. proc.pc = "verify" /\ live' = live /\ proc.stopTried /\ proc.run \notin live
    BY <1>5 DEF Publish, TestsInv
  <2>2. CASE CompletionEligible(Me)
    <3>1. proc' = Idle /\ Aside
      BY <1>5, <2>2 DEF Publish, Aside
    <3> QED
      BY <1>3, <2>1, <3>1
  <2>3. CASE ~CompletionEligible(Me)
    <3>1. proc' = [proc EXCEPT !.pc = "failing", !.error = "verification_failed"] /\ runs' = runs
      BY <1>5, <2>3 DEF Publish
    <3>2. proc'.pc = "failing" /\ proc'.run = proc.run
      BY <1>1, <3>1 DEF Processes
    <3> QED
      BY <2>1, <3>1, <3>2 DEF TestsInv
  <2> QED
    BY <2>2, <2>3
<1>6. CASE Fail
  <2>1. proc.pc = "failing" /\ proc' = Idle
    BY <1>6 DEF Fail
  <2>2. CASE /\ live' = live \ (IF NeedsStop THEN {proc.run} ELSE {})
             /\ runs' = [runs EXCEPT ![proc.run].scanned = TRUE, ![proc.run].end = proc.error]
    <3>1. Aside
      BY <2>2 DEF Aside
    <3>2. runs'[proc.run].end = proc.error /\ runs'[proc.run].ckpt = Me.ckpt
      BY <1>1, <2>2 DEF Directories, Me
    <3>3. ASSUME proc.run \in live'  PROVE Leaves(runs'[proc.run])
      <4>1. proc.run \in live /\ proc.stopTried
        BY <2>2, <3>3 DEF NeedsStop
      <4>2. proc.error = "terminal_transport_error" /\ Me.ckpt.next = Total
        BY <2>1, <4>1 DEF TestsInv
      <4> QED
        BY <3>2, <4>2 DEF Leaves
    <3>4. live' \subseteq live
      BY <2>2
    <3> QED
      BY <1>3, <2>1, <3>1, <3>3, <3>4
  <2>3. CASE runs' = [runs EXCEPT ![proc.run].scanned = TRUE, ![proc.run].end = "stop_raised"]
             /\ live' = live
    <3>1. Aside
      BY <2>3 DEF Aside
    <3>2. runs'[proc.run].end = "stop_raised"
      BY <1>1, <2>3 DEF Directories, Me
    <3> QED
      BY <1>3, <2>1, <2>3, <3>1, <3>2 DEF Leaves
  <2> QED
    BY <1>6, <2>2, <2>3 DEF Fail
<1> QED
  BY <1>4, <1>5, <1>6

LEMMA TestsNext == HourlyInv /\ TestsInv /\ [Next]_vars => TestsInv'
<1> SUFFICES ASSUME HourlyInv, TestsInv, [Next]_vars
             PROVE  TestsInv'
  OBVIOUS
<1>1. proc \in Processes /\ runs \in Seq(Directories)
  BY DEF HourlyInv, HourlyTypes
<1>2. CASE StartFresh \/ StartResume
  <2>1. PICK src, cut : Begin(src, cut)
    BY <1>2 DEF StartFresh, StartResume
  <2>2. /\ proc.pc = "idle" /\ runs' = Append(runs, NewRun(src, cut)) /\ live' = live
        /\ proc' = [Idle EXCEPT !.pc = "select", !.run = Len(runs) + 1]
    BY <2>1 DEF Begin
  <2>3. proc'.pc = "select" /\ ~proc'.stopTried
    BY <2>2 DEF Idle
  <2>4. /\ DOMAIN runs \subseteq DOMAIN runs'
        /\ \A t \in DOMAIN runs : runs'[t] = runs[t]
    BY <1>1, <2>2
  <2>5. proc.run \notin live
    <3>1. proc.run = 0
      BY <2>2 DEF TestsInv, Idle
    <3>2. 0 \notin DOMAIN runs
      BY <1>1
    <3> QED
      BY <3>1, <3>2 DEF TestsInv
  <2> QED
    BY <2>2, <2>3, <2>4, <2>5 DEF TestsInv
<1>3. CASE Select
  <2>1. /\ proc.pc = "select" /\ live' = live \cup {proc.run}
        /\ proc' = [proc EXCEPT !.pc = "queued"]
    BY <1>3 DEF Select
  <2>2. proc.run \in DOMAIN runs
    BY <2>1, Running
  <2>3. proc'.pc = "queued" /\ proc'.run = proc.run /\ proc'.stopTried = proc.stopTried
    BY <1>1, <2>1 DEF Processes
  <2>4. Aside
    BY <1>3 DEF Select, Aside
  <2> QED
    BY <2>1, <2>2, <2>3, <2>4 DEF TestsInv, Aside
<1>4. CASE \/ Initialize \/ StartEvaluation \/ Orchestrate \/ ExecutorBatch \/ ReplayHour
           \/ Advance \/ Reflect \/ ReplayHourEnd \/ SetupFails
  BY <1>4, EvaluationGoes, GoesKeeps
<1>5. CASE StopTest
  BY <1>5, StopTestLeaves
<1>6. CASE Publish \/ Fail \/ Kill
  BY <1>6, EndLeaves
<1>7. CASE RemoveStaleLock \/ UNCHANGED vars
  <2>1. UNCHANGED <<runs, proc, live>>
    BY <1>7 DEF RemoveStaleLock, vars
  <2> QED
    BY <2>1 DEF TestsInv, Me
<1> QED
  BY <1>2, <1>3, <1>4, <1>5, <1>6, <1>7 DEF Next, RunStep

\* A test is left at the service only by a process that died, or by a stop that failed
\* (dispatch, the end of the evaluation and the clean-up of the runner).
THEOREM NoTestIsLeft == Spec => []NoTestLeft
<1>1. Init => TestsInv
  BY DEF Init, TestsInv, Idle
<1>2. TestsInv => NoTestLeft
  BY DEF TestsInv, NoTestLeft, Leaves
<1> QED
  BY <1>1, <1>2, TestsNext, HourlyInit, HourlyNext, PTL DEF Spec

-----------------------------------------------------------------------------
(***************************************************************************)
(* What the process remembers is what its directory says.                  *)
(***************************************************************************)
Fell(rows) == {h \in DOMAIN rows : rows[h].fallback}

\* The open hour fell back: as its orchestrator's answer told, or as the source's did.
OpenFell(p, run, source) ==
    IF Asked(run, source) THEN p.fell
    ELSE source.decisions[Len(run.decisions) + 1].fallback

\* The fallbacks counted are those of the closed hours and, in an hour, of the open one.
Remembers(p, run, source) ==
    /\ p.pc \in {"select", "queued", "import"} => p.fallbacks = 0
    /\ p.pc = "hour" => p.fallbacks = Cardinality(Fell(run.decisions))
    /\ p.pc \in {"executors", "step", "hour_end"} =>
          p.fallbacks = Cardinality(Fell(run.decisions))
                            + (IF OpenFell(p, run, source) THEN 1 ELSE 0)
    /\ p.pc = "stop" => p.versions = LastVersions(run)
MemoryInv == proc.pc # "idle" => Remembers(proc, Me, Origin(runs, proc.run))

LEMMA FellMore ==
    ASSUME NEW rows \in Seq(DecisionRows), NEW row \in DecisionRows
    PROVE  /\ Cardinality(Fell(rows)) \in Nat
           /\ Cardinality(Fell(Append(rows, row)))
                  = Cardinality(Fell(rows)) + (IF row.fallback THEN 1 ELSE 0)
<1> DEFINE n == Len(rows) + 1
           more == Append(rows, row)
<1>1. /\ DOMAIN rows = 1 .. Len(rows) /\ Len(rows) \in Nat /\ DOMAIN more = 1 .. n
      /\ \A h \in DOMAIN rows : h \in DOMAIN more /\ more[h] = rows[h] /\ h # n
      /\ more[n] = row /\ n \in DOMAIN more
      /\ \A h \in DOMAIN more : h = n \/ h \in DOMAIN rows
  OBVIOUS
<1> HIDE DEF more, n
<1>2. IsFiniteSet(Fell(rows)) /\ n \notin Fell(rows)
  <2>1. IsFiniteSet(DOMAIN rows)
    BY <1>1, FS_Interval
  <2>2. Fell(rows) \subseteq DOMAIN rows
    BY DEF Fell
  <2> QED
    BY <1>1, <2>1, <2>2, FS_Subset
<1>3. Fell(more) = IF row.fallback THEN Fell(rows) \cup {n} ELSE Fell(rows)
  BY <1>1 DEF Fell
<1>4. /\ Cardinality(Fell(rows)) \in Nat
      /\ Cardinality(Fell(rows) \cup {n}) = Cardinality(Fell(rows)) + 1
  BY <1>2, FS_CardinalityType, FS_AddElement
<1> QED
  BY <1>3, <1>4 DEF more

\* A step that writes to the directory of its run leaves that of the source.
LEMMA OriginKept ==
    ASSUME HourlyInv, proc.pc # "idle", Aside, proc'.run = proc.run,
           runs'[proc.run].src = Me.src
    PROVE  Origin(runs', proc'.run) = Origin(runs, proc.run)
<1>1. /\ proc.run \in DOMAIN runs
      /\ Me.src # 0 => Me.src \in DOMAIN runs /\ Me.src # proc.run
  BY Running, Sources DEF Me
<1> QED
  BY <1>1 DEF Origin, Aside, Me

\* A step that keeps the source and the decisions keeps the count.
LEMMA RemembersKept ==
    ASSUME HourlyInv, MemoryInv, proc.pc # "idle", Aside, proc'.run = proc.run,
           Me'.src = Me.src, Me'.decisions = Me.decisions, proc'.fallbacks = proc.fallbacks,
           proc'.fell = proc.fell,
           \/ proc'.pc \in {"select", "queued", "import"} /\ proc.pc \in {"select", "queued"}
           \/ proc'.pc \in {"step", "hour_end"} /\ proc.pc \in {"executors", "step"}
           \/ proc'.pc = "hour" /\ proc.pc = "import"
    PROVE  MemoryInv'
<1> DEFINE source == Origin(runs, proc.run)
<1>1. Origin(runs', proc'.run) = source
  BY OriginKept DEF Me
<1>2. Remembers(proc, Me, source)
  BY DEF MemoryInv
<1>3. Asked(Me', source) <=> Asked(Me, source)
  BY DEF Asked, Imported
<1>4. OpenFell(proc', Me', source) <=> OpenFell(proc, Me, source)
  BY <1>3 DEF OpenFell
<1>5. proc.pc = "import" => Cardinality(Fell(Me.decisions)) = 0
  <2> SUFFICES ASSUME proc.pc = "import"  PROVE Cardinality(Fell(Me.decisions)) = 0
    OBVIOUS
  <2>1. ProcShape(proc, Me, source) /\ Me \in Directories
    BY Running, Sources DEF Me
  <2>2. Len(Me.decisions) = 0 /\ Me.decisions \in Seq(DecisionRows)
    BY <2>1, Streams DEF ProcShape, Preparing
  <2>3. Fell(Me.decisions) = {}
    BY <2>2 DEF Fell
  <2> QED
    BY <2>3, FS_EmptySet
<1> HIDE DEF source
<1>6. Remembers(proc', Me', source)
  BY <1>2, <1>4, <1>5 DEF Remembers
<1> QED
  BY <1>1, <1>6 DEF MemoryInv

LEMMA NotRemembering ==
    ASSUME proc'.pc \in {"idle", "verify", "failing"}
    PROVE  MemoryInv'
  BY DEF MemoryInv, Remembers

LEMMA BrokenForgets ==
    ASSUME HourlyInv, NEW calls, NEW error, Broken(calls, error)
    PROVE  MemoryInv'
<1>1. proc'.pc = "failing"
  BY DEF Broken, HourlyInv, HourlyTypes, Processes
<1> QED
  BY <1>1, NotRemembering

LEMMA OrchestrateRemembers ==
    ASSUME HourlyInv, MemoryInv, Orchestrate
    PROVE  MemoryInv'
<1> DEFINE source == Origin(runs, proc.run)
<1>1. proc.pc = "hour" /\ ~Replaying
  BY DEF Orchestrate
<1>2. /\ Me \in Directories /\ proc \in Processes /\ proc.run \in DOMAIN runs
      /\ Asked(Me, source) /\ Len(Me.decisions) \in Nat
  <2>1. /\ Me \in Directories /\ proc \in Processes /\ proc.run \in DOMAIN runs
        /\ Imported(Me, source) \in Nat /\ Len(Me.decisions) \in Nat
        /\ Replaying <=> Len(Me.decisions) < Imported(Me, source)
        /\ Asked(Me, source) <=> Imported(Me, source) <= Len(Me.decisions)
    BY <1>1, HourOpened
  <2> QED
    BY <1>1, <2>1
<1>3. PICK a \in Answers :
         IF a.ok
         THEN /\ runs' = [runs EXCEPT ![proc.run].calls =
                     Append(@, Call(Hour, "orchestrator", a.tries, a.ok, a.good))]
              /\ proc' = [proc EXCEPT
                     !.pc = "executors", !.fell = ~a.good,
                     !.prev = IF a.good THEN <<proc.run, Hour>> ELSE @,
                     !.fallbacks = IF a.good THEN @ ELSE @ + 1]
         ELSE Broken(<<Call(Hour, "orchestrator", a.tries, a.ok, a.good)>>,
                     "terminal_transport_error")
  BY DEF Orchestrate
<1>4. CASE ~a.ok
  BY <1>3, <1>4, BrokenForgets
<1>5. CASE a.ok
  <2>1. /\ proc'.pc = "executors" /\ proc'.run = proc.run /\ proc'.fell = ~a.good
        /\ proc'.fallbacks = (IF a.good THEN proc.fallbacks ELSE proc.fallbacks + 1)
    BY <1>2, <1>3, <1>5 DEF Processes
  <2>2. Aside
    BY <1>3, <1>5 DEF Aside
  <2>3. Me'.src = Me.src /\ Me'.decisions = Me.decisions
    BY <1>2, <1>3, <1>5, <2>1 DEF Me, Directories
  <2>4. Origin(runs', proc'.run) = source
    BY <1>1, <2>1, <2>2, <2>3, OriginKept DEF Me
  <2>5. proc.fallbacks = Cardinality(Fell(Me.decisions))
    BY <1>1 DEF MemoryInv, Remembers
  <2>6. OpenFell(proc', Me', source) <=> ~a.good
    <3>1. Asked(Me', source)
      BY <1>2, <2>3 DEF Asked, Imported
    <3> QED
      BY <2>1, <3>1 DEF OpenFell
  <2> HIDE DEF source
  <2>7. proc'.fallbacks = Cardinality(Fell(Me'.decisions))
                              + (IF OpenFell(proc', Me', source) THEN 1 ELSE 0)
    <3>1. Cardinality(Fell(Me.decisions)) \in Nat
      BY <1>2, <2>5 DEF Processes
    <3> QED
      BY <2>1, <2>3, <2>5, <2>6, <3>1
  <2> QED
    BY <2>1, <2>4, <2>7 DEF MemoryInv, Remembers
<1> QED
  BY <1>4, <1>5

LEMMA ReplayHourRemembers ==
    ASSUME HourlyInv, MemoryInv, ReplayHour
    PROVE  MemoryInv'
<1> DEFINE source == Origin(runs, proc.run)
           decision == source.decisions[Len(Me.decisions) + 1]
<1>1. proc.pc = "hour" /\ Replaying
  BY DEF ReplayHour
<1>2. /\ Me \in Directories /\ proc \in Processes /\ proc.run \in DOMAIN runs
      /\ ~Asked(Me, source) /\ Source = source /\ Hour = Len(Me.decisions)
  <2>1. /\ Me \in Directories /\ proc \in Processes /\ proc.run \in DOMAIN runs
        /\ Imported(Me, source) \in Nat /\ Len(Me.decisions) \in Nat /\ Hour = Len(Me.decisions)
        /\ Replaying <=> Len(Me.decisions) < Imported(Me, source)
        /\ Asked(Me, source) <=> Imported(Me, source) <= Len(Me.decisions)
    BY <1>1, HourOpened
  <2>2. Len(Me.decisions) < Imported(Me, source)
    BY <1>1, <2>1
  <2>3. Source = source
    BY <1>1, <2>1, <2>2, SourceHour
  <2> QED
    BY <2>1, <2>2, <2>3
<1>3. /\ \E updates : runs' = [runs EXCEPT ![proc.run].updates = @ \o updates]
      /\ \E versions, prev :
            proc' = [proc EXCEPT !.pc = "step", !.versions = versions, !.prev = prev,
                        !.fallbacks = IF decision.fallback THEN @ + 1 ELSE @]
  BY <1>2 DEF ReplayHour
<1>4. /\ proc'.pc = "step" /\ proc'.run = proc.run
      /\ proc'.fallbacks = (IF decision.fallback THEN proc.fallbacks + 1 ELSE proc.fallbacks)
  BY <1>2, <1>3 DEF Processes
<1>5. Aside
  BY <1>3 DEF Aside
<1>6. Me'.src = Me.src /\ Me'.decisions = Me.decisions
  BY <1>2, <1>3, <1>4 DEF Me, Directories
<1>7. Origin(runs', proc'.run) = source
  BY <1>1, <1>4, <1>5, <1>6, OriginKept DEF Me
<1>8. proc.fallbacks = Cardinality(Fell(Me.decisions)) /\ proc.fallbacks \in Nat
  BY <1>1, <1>2 DEF MemoryInv, Remembers, Processes
<1>9. OpenFell(proc', Me', source) <=> decision.fallback
  BY <1>2, <1>6 DEF OpenFell, Asked, Imported
<1> HIDE DEF source, decision
<1>10. proc'.fallbacks = Cardinality(Fell(Me'.decisions))
                             + (IF OpenFell(proc', Me', source) THEN 1 ELSE 0)
  BY <1>4, <1>6, <1>8, <1>9
<1> QED
  BY <1>4, <1>7, <1>10 DEF MemoryInv, Remembers

\* The decision that closes an hour tells whether the hour fell back, and its programs.
LEMMA ClosingRemembers ==
    ASSUME HourlyInv, MemoryInv, proc.pc = "hour_end", NEW decision \in DecisionRows,
           decision.fallback = OpenFell(proc, Me, Origin(runs, proc.run)),
           decision.versions = proc.versions, Aside,
           Me'.decisions = Append(Me.decisions, decision), proc' = [proc EXCEPT !.pc = AfterHour]
    PROVE  MemoryInv'
<1>1. proc \in Processes /\ Me.decisions \in Seq(DecisionRows)
  <2>1. proc \in Processes /\ Me \in Directories
    BY HourEntered
  <2> QED
    BY <2>1, Streams
<1>2. /\ proc'.pc \in {"hour", "stop"} /\ proc'.fallbacks = proc.fallbacks
      /\ proc'.versions = proc.versions
  <2>1. AfterHour \in {"hour", "stop"}
    BY DEF AfterHour
  <2> QED
    BY <1>1, <2>1 DEF Processes
<1>3. proc.fallbacks = Cardinality(Fell(Me.decisions)) + (IF decision.fallback THEN 1 ELSE 0)
  BY DEF MemoryInv, Remembers
<1>4. proc'.fallbacks = Cardinality(Fell(Me'.decisions))
  BY <1>1, <1>2, <1>3, FellMore
<1>5. proc'.versions = LastVersions(Me')
  <2> DEFINE rows == Me.decisions
             more == Append(rows, decision)
  <2>1. Len(more) = Len(rows) + 1 /\ Len(rows) \in Nat /\ more[Len(rows) + 1] = decision
    BY <1>1
  <2>2. more # << >> /\ more[Len(more)] = decision
    BY <1>1, <2>1
  <2> QED
    BY <1>2, <2>2 DEF LastVersions
<1> QED
  BY <1>2, <1>4, <1>5 DEF MemoryInv, Remembers

LEMMA ClosedAppends ==
    ASSUME Me \in Directories, proc.run \in DOMAIN runs, proc'.run = proc.run,
           NEW hour, NEW rows, NEW decision,
           \/ \E call : runs' = [runs EXCEPT ![proc.run] =
                            [Closed(hour, rows, decision) EXCEPT !.calls = Append(@, call)]]
           \/ \E resume : runs' = [runs EXCEPT ![proc.run] =
                              [Closed(hour, rows, decision) EXCEPT !.resume = resume]]
    PROVE  Me'.decisions = Append(Me.decisions, decision)
<1> DEFINE closed == Closed(hour, rows, decision)
<1>1. /\ closed.decisions = Append(Me.decisions, decision)
      /\ {"decisions", "calls", "resume"} \subseteq DOMAIN closed
  BY DEF Closed, Directories
<1> HIDE DEF closed
<1>2. Me' = runs'[proc.run]
  BY DEF Me
<1>3. runs'[proc.run].decisions = closed.decisions
  BY <1>1 DEF closed
<1> QED
  BY <1>1, <1>2, <1>3

LEMMA ReflectRemembers ==
    ASSUME HourlyInv, MemoryInv, Reflect
    PROVE  MemoryInv'
<1> DEFINE source == Origin(runs, proc.run)
<1>1. /\ proc.pc = "hour_end" /\ proc.step > Me.cut /\ Me \in Directories /\ proc \in Processes
      /\ proc.run \in DOMAIN runs
  BY HourEntered DEF Reflect
<1>2. Asked(Me, source) /\ HourOf(proc.step - 1) \in Nat
  <2> DEFINE n == Imported(Me, source)
             d == Len(Me.decisions)
  <2>1. /\ proc.step = (d + 1) * StepsPerHour /\ proc.step \in Nat /\ n \in Nat /\ d \in Nat
        /\ Me.cut = n * StepsPerHour
        /\ Asked(Me, source) <=> n <= d
    <3>1. ProcShape(proc, Me, source)
      BY <1>1, Running
    <3> QED
      BY <1>1, <3>1, HourEntered DEF ProcShape, Processes
  <2> HIDE DEF n, d
  <2>2. HourOf(proc.step - 1) = d /\ (proc.step > n * StepsPerHour <=> n <= d)
    BY <2>1, HourIs
  <2> QED
    BY <1>1, <2>1, <2>2
<1> DEFINE hour == HourOf(proc.step - 1)
           decision == [hour |-> hour, alloc |-> proc.prev, fallback |-> proc.fell,
                        versions |-> proc.versions]
<1>3. \/ \E memory, call :
            /\ runs' = [runs EXCEPT ![proc.run] =
                    [Closed(hour, memory, decision) EXCEPT !.calls = Append(@, call)]]
            /\ proc' = [proc EXCEPT !.pc = AfterHour]
      \/ \E calls : Broken(calls, "terminal_transport_error")
  BY DEF Reflect
<1> HIDE DEF hour, source
<1>4. CASE \E calls : Broken(calls, "terminal_transport_error")
  BY <1>4, BrokenForgets
<1>5. ASSUME NEW memory, NEW call,
             runs' = [runs EXCEPT ![proc.run] =
                 [Closed(hour, memory, decision) EXCEPT !.calls = Append(@, call)]],
             proc' = [proc EXCEPT !.pc = AfterHour]
      PROVE  MemoryInv'
  <2>1. decision \in DecisionRows /\ decision.versions = proc.versions
    BY <1>1, <1>2 DEF DecisionRows, Processes, hour
  <2>2. decision.fallback = OpenFell(proc, Me, source)
    BY <1>2 DEF OpenFell
  <2> HIDE DEF decision
  <2>3. Aside /\ proc'.run = proc.run
    BY <1>1, <1>5 DEF Aside, Processes
  <2>4. Me'.decisions = Append(Me.decisions, decision)
    BY <1>1, <1>5, <2>3, ClosedAppends
  <2> QED
    BY <1>1, <1>5, <2>1, <2>2, <2>3, <2>4, ClosingRemembers DEF source
<1> QED
  BY <1>3, <1>4, <1>5

LEMMA ReplayHourEndRemembers ==
    ASSUME HourlyInv, MemoryInv, ReplayHourEnd
    PROVE  MemoryInv'
<1> DEFINE source == Origin(runs, proc.run)
           hour == HourOf(proc.step - 1)
           decision == Source.decisions[hour + 1]
<1>1. /\ proc.pc = "hour_end" /\ proc.step <= Me.cut /\ Me \in Directories /\ proc \in Processes
      /\ proc.run \in DOMAIN runs
  BY HourEntered DEF ReplayHourEnd
<1>2. /\ hour = Len(Me.decisions) /\ ~Asked(Me, source) /\ decision \in DecisionRows
      /\ decision.versions = proc.versions /\ Len(Me.decisions) < Imported(Me, source)
  BY <1>1, SourceCloses
<1>3. \/ Broken(<< >>, "terminal_runtime_error")
      \/ /\ \E rows, resume : runs' = [runs EXCEPT ![proc.run] =
                                 [Closed(hour, rows, decision) EXCEPT !.resume = resume]]
         /\ proc' = [proc EXCEPT !.pc = AfterHour]
  BY DEF ReplayHourEnd
<1>4. CASE Broken(<< >>, "terminal_runtime_error")
  BY <1>4, BrokenForgets
<1>5. ASSUME NEW rows, NEW resume,
             runs' = [runs EXCEPT ![proc.run] =
                 [Closed(hour, rows, decision) EXCEPT !.resume = resume]],
             proc' = [proc EXCEPT !.pc = AfterHour]
      PROVE  MemoryInv'
  <2>1. decision.fallback = OpenFell(proc, Me, source)
    <3>1. Source = source
      <4>1. Len(Me.decisions) \in Nat
        BY <1>1, Streams
      <4> QED
        BY <1>1, <1>2, <4>1, SourceHour
    <3> QED
      BY <1>2, <3>1 DEF OpenFell
  <2> HIDE DEF decision, hour
  <2>2. Aside /\ proc'.run = proc.run
    BY <1>1, <1>5 DEF Aside, Processes
  <2>3. Me'.decisions = Append(Me.decisions, decision)
    BY <1>1, <1>5, <2>2, ClosedAppends
  <2> QED
    BY <1>1, <1>2, <1>5, <2>1, <2>2, <2>3, ClosingRemembers
<1> QED
  BY <1>3, <1>4, <1>5

LEMMA MemoryNext == HourlyInv /\ MemoryInv /\ [Next]_vars => MemoryInv'
<1> SUFFICES ASSUME HourlyInv, MemoryInv, [Next]_vars
             PROVE  MemoryInv'
  OBVIOUS
<1>1. proc \in Processes /\ runs \in Seq(Directories)
  BY DEF HourlyInv, HourlyTypes
<1>2. CASE StartFresh \/ StartResume
  <2>1. proc' = [Idle EXCEPT !.pc = "select", !.run = Len(runs) + 1]
    BY <1>2 DEF StartFresh, StartResume, Begin
  <2>2. proc'.pc = "select" /\ proc'.fallbacks = 0
    BY <2>1 DEF Idle
  <2> QED
    BY <2>2 DEF MemoryInv, Remembers
<1>3. ASSUME proc.pc # "idle", proc.run \in DOMAIN runs
      PROVE  Me \in Directories
  BY <1>1, <1>3 DEF Me
<1>4. CASE Select
  <2>1. proc.pc = "select" /\ proc.run \in DOMAIN runs
    BY <1>4, Running DEF Select
  <2>2. /\ proc'.pc = "queued" /\ proc'.run = proc.run /\ proc'.fallbacks = proc.fallbacks
        /\ proc'.fell = proc.fell
    BY <1>1, <1>4 DEF Select, Processes
  <2>3. Aside /\ Me'.src = Me.src /\ Me'.decisions = Me.decisions
    BY <1>3, <1>4, <2>1, <2>2 DEF Select, Aside, Me, Directories
  <2> QED
    BY <2>1, <2>2, <2>3, RemembersKept
<1>5. CASE Initialize
  <2>1. proc.pc = "queued" /\ proc.run \in DOMAIN runs
    BY <1>5, Running DEF Initialize
  <2>2. /\ proc'.pc = "import" /\ proc'.run = proc.run /\ proc'.fallbacks = proc.fallbacks
        /\ proc'.fell = proc.fell
    BY <1>1, <1>5 DEF Initialize, Processes
  <2>3. Aside /\ Me'.src = Me.src /\ Me'.decisions = Me.decisions
    BY <1>3, <1>5, <2>1, <2>2 DEF Initialize, Aside, Me, Directories
  <2> QED
    BY <2>1, <2>2, <2>3, RemembersKept
<1>6. CASE StartEvaluation
  <2>1. proc.pc = "import" /\ proc.run \in DOMAIN runs
    BY <1>6, Running DEF StartEvaluation
  <2>2. /\ proc'.pc = "hour" /\ proc'.run = proc.run /\ proc'.fallbacks = proc.fallbacks
        /\ proc'.fell = proc.fell
    BY <1>1, <1>6 DEF StartEvaluation, Processes
  <2>3. \/ runs' = runs
        \/ \E calls : runs' = [runs EXCEPT ![proc.run].calls = calls,
                                           ![proc.run].resume = <<"started">>]
    BY <1>6 DEF StartEvaluation
  <2>4. Aside
    BY <2>3 DEF Aside
  <2>5. Me' = Me \/ \E calls : Me' = [Me EXCEPT !.calls = calls, !.resume = <<"started">>]
    BY <2>1, <2>2, <2>3 DEF Me
  <2>6. Me'.src = Me.src /\ Me'.decisions = Me.decisions
    BY <1>3, <2>1, <2>5 DEF Directories
  <2> QED
    BY <2>1, <2>2, <2>4, <2>6, RemembersKept
<1>7. CASE Orchestrate
  BY <1>7, OrchestrateRemembers
<1>8. CASE ExecutorBatch
  <2>1. proc.pc = "executors" /\ proc.run \in DOMAIN runs
    BY <1>8, Running DEF ExecutorBatch
  <2>2. \/ \E calls, updates, versions :
              /\ runs' = [runs EXCEPT ![proc.run].calls = @ \o calls,
                                      ![proc.run].updates = @ \o updates]
              /\ proc' = [proc EXCEPT !.pc = "step", !.versions = versions]
        \/ \E calls : Broken(calls, "terminal_transport_error")
    BY <1>8 DEF ExecutorBatch
  <2>3. CASE \E calls : Broken(calls, "terminal_transport_error")
    BY <2>3, BrokenForgets
  <2>4. CASE \E calls, updates, versions :
              /\ runs' = [runs EXCEPT ![proc.run].calls = @ \o calls,
                                      ![proc.run].updates = @ \o updates]
              /\ proc' = [proc EXCEPT !.pc = "step", !.versions = versions]
    <3>1. /\ proc'.pc = "step" /\ proc'.run = proc.run /\ proc'.fallbacks = proc.fallbacks
          /\ proc'.fell = proc.fell
      BY <1>1, <2>4 DEF Processes
    <3>2. Aside
      BY <2>4 DEF Aside
    <3>3. \E calls, updates : Me' = [Me EXCEPT !.calls = calls, !.updates = updates]
      <4>1. PICK calls, updates :
               runs' = [runs EXCEPT ![proc.run].calls = @ \o calls,
                                    ![proc.run].updates = @ \o updates]
        BY <2>4
      <4>2. runs'[proc.run] = [Me EXCEPT !.calls = @ \o calls, !.updates = @ \o updates]
        BY <2>1, <4>1 DEF Me
      <4>3. Me' = [Me EXCEPT !.calls = Me.calls \o calls, !.updates = Me.updates \o updates]
        BY <3>1, <4>2 DEF Me
      <4> QED
        BY <4>3
    <3>4. Me'.src = Me.src /\ Me'.decisions = Me.decisions
      BY <1>3, <2>1, <3>3 DEF Directories
    <3> QED
      BY <2>1, <3>1, <3>2, <3>4, RemembersKept
  <2> QED
    BY <2>2, <2>3, <2>4
<1>9. CASE ReplayHour
  BY <1>9, ReplayHourRemembers
<1>10. CASE Advance
  <2>1. proc.pc = "step" /\ proc.run \in DOMAIN runs
    BY <1>10, Running DEF Advance
  <2>2. \/ \E row : /\ runs' = [runs EXCEPT ![proc.run].steps = Append(@, row)]
                    /\ proc' = [proc EXCEPT !.step = @ + 1,
                          !.pc = IF (proc.step + 1) % StepsPerHour = 0 THEN "hour_end" ELSE "step"]
        \/ \E error : Broken(<< >>, error)
    BY <1>10 DEF Advance
  <2>3. CASE \E error : Broken(<< >>, error)
    BY <2>3, BrokenForgets
  <2>4. CASE \E row : /\ runs' = [runs EXCEPT ![proc.run].steps = Append(@, row)]
                      /\ proc' = [proc EXCEPT !.step = @ + 1,
                            !.pc = IF (proc.step + 1) % StepsPerHour = 0 THEN "hour_end" ELSE "step"]
    <3>1. /\ proc'.pc \in {"step", "hour_end"} /\ proc'.run = proc.run
          /\ proc'.fallbacks = proc.fallbacks /\ proc'.fell = proc.fell
      BY <1>1, <2>4 DEF Processes
    <3>2. Aside
      BY <2>4 DEF Aside
    <3>3. \E steps : Me' = [Me EXCEPT !.steps = steps]
      BY <2>1, <2>4, <3>1 DEF Me
    <3>4. Me'.src = Me.src /\ Me'.decisions = Me.decisions
      BY <1>3, <2>1, <3>3 DEF Directories
    <3> QED
      BY <2>1, <3>1, <3>2, <3>4, RemembersKept
  <2> QED
    BY <2>2, <2>3, <2>4
<1>11. CASE Reflect
  BY <1>11, ReflectRemembers
<1>12. CASE ReplayHourEnd
  BY <1>12, ReplayHourEndRemembers
<1>13. CASE StopTest
  <2>1. \/ \E tried, error : proc' = [proc EXCEPT !.pc = "failing", !.stopTried = tried, !.error = error]
        \/ \E tried : proc' = [proc EXCEPT !.pc = "verify", !.stopTried = tried]
    BY <1>13 DEF StopTest
  <2>2. proc'.pc \in {"verify", "failing"}
    BY <1>1, <2>1 DEF Processes
  <2> QED
    BY <2>2, NotRemembering
<1>14. CASE Publish \/ Fail \/ Kill
  <2>1. proc' = Idle \/ proc' = [proc EXCEPT !.pc = "failing", !.error = "verification_failed"]
    BY <1>14 DEF Publish, Fail, Kill
  <2>2. Idle.pc = "idle"
    BY DEF Idle
  <2>3. [proc EXCEPT !.pc = "failing", !.error = "verification_failed"].pc = "failing"
    BY <1>1 DEF Processes
  <2> QED
    BY <2>1, <2>2, <2>3, NotRemembering
<1>15. CASE SetupFails
  <2>1. Broken(<< >>, "terminal_transport_error")
    BY <1>15 DEF SetupFails
  <2> QED
    BY <2>1, BrokenForgets
<1>16. CASE RemoveStaleLock \/ UNCHANGED vars
  <2>1. UNCHANGED <<runs, proc>>
    BY <1>16 DEF RemoveStaleLock, vars
  <2> QED
    BY <2>1 DEF MemoryInv, Me
<1> QED
  BY <1>2, <1>4, <1>5, <1>6, <1>7, <1>8, <1>9, <1>10, <1>11, <1>12, <1>13, <1>14, <1>15, <1>16
     DEF Next, RunStep

\* The programs after the updates of all hours but an open one, and after those of all.
LEMMA ProgramsAreUpdates ==
    ASSUME NEW run \in Directories, UpdatesShape(run), NEW versions \in Programs,
           NEW d \in Nat, Len(run.updates) = d * Z,
           \/ d = Len(run.decisions) /\ versions = LastVersions(run)
           \/ d = Len(run.decisions) + 1 /\ \A k \in 1 .. Z :
                 versions[ZoneSeq[k]] = run.updates[(d - 1) * Z + k].after
    PROVE  EndsAt(run.updates, versions)
<1> DEFINE us == run.updates
<1>1. /\ us \in Seq(UpdateRows) /\ DOMAIN us = 1 .. Len(us) /\ Len(us) \in Nat
      /\ Len(run.decisions) \in Nat /\ Z \in Nat \ {0}
      /\ run.decisions = << >> <=> Len(run.decisions) = 0
  <2>1. Z \in Nat \ {0}
    BY ZoneCount
  <2> QED
    BY <2>1, Streams
<1>2. \A i \in DOMAIN us :
         /\ us[i].zone = ZoneSeq[Place(Z, i)]
         /\ us[i].before = IF i <= Z THEN 0 ELSE us[i - Z].after
         /\ Block(Z, i) < Len(run.decisions) =>
               us[i].after = run.decisions[Block(Z, i) + 1].versions[ZoneSeq[Place(Z, i)]]
  BY DEF UpdatesShape
<1>3. Zoned(us)
  BY <1>2 DEF Zoned
<1>4. d = 0 => versions = Unchanged
  BY <1>1 DEF LastVersions
<1>5. ASSUME NEW k \in 1 .. Z, d # 0
      PROVE  us[(d - 1) * Z + k].after = versions[ZoneSeq[k]]
  <2>1. CASE d = Len(run.decisions) + 1
    BY <1>1, <1>5, <2>1
  <2>2. CASE d = Len(run.decisions) /\ versions = LastVersions(run)
    <3> DEFINE e == d - 1
               i == e * Z + k
    <3>1. e \in Nat /\ d = e + 1 /\ e < d
      BY <1>5
    <3> HIDE DEF e
    <3>2. Block(Z, i) = e /\ Place(Z, i) = k
      BY <1>1, <3>1, Positions
    <3>3. i \in DOMAIN us
      <4> DEFINE x == e * Z
      <4>1. x \in Nat /\ Len(us) = x + Z
        BY <1>1, <3>1, Multiples
      <4> HIDE DEF x, us
      <4>2. x + k \in 1 .. Len(us)
        BY <1>1, <4>1
      <4> QED
        BY <1>1, <4>2 DEF x
    <3> HIDE DEF i, us
    <3>4. us[i].after = run.decisions[d].versions[ZoneSeq[k]]
      BY <1>2, <2>2, <3>1, <3>2, <3>3
    <3>5. versions = run.decisions[d].versions
      BY <1>1, <1>5, <2>2 DEF LastVersions
    <3> QED
      BY <3>1, <3>4, <3>5 DEF i, e
  <2> QED
    BY <2>1, <2>2
<1>6. \A i \in DOMAIN us : us[i].before = IF i <= Z THEN 0 ELSE us[i - Z].after
  BY <1>2
<1> HIDE DEF us
<1> QED
  BY <1>1, <1>3, <1>4, <1>5, <1>6, EndsAtLast DEF us

\* The programs, fallbacks and allocation the process holds are those its streams tell
\* (the evaluation loop of the runner, and what a resume would read).
THEOREM MemoryAlwaysMatches == Spec => []MemoryMatchesDisk
<1>1. Init => MemoryInv
  BY DEF Init, MemoryInv, Idle
<1>2. HourlyInv /\ MemoryInv => MemoryMatchesDisk
  <2> SUFFICES ASSUME HourlyInv, MemoryInv,
                      proc.pc \in {"hour", "executors", "step", "hour_end", "stop"}
               PROVE  /\ EndsAt(Me.updates, proc.versions)
                      /\ proc.pc = "hour" => proc.fallbacks =
                            Cardinality({ h \in DOMAIN Me.decisions : Me.decisions[h].fallback })
                      /\ proc.pc = "hour" /\ Me.decisions # << >> =>
                            proc.prev = Last(Me.decisions).alloc
    BY DEF MemoryMatchesDisk
  <2> DEFINE source == Origin(runs, proc.run)
             d == Len(Me.decisions)
  <2>1. /\ Me \in Directories /\ UpdatesShape(Me) /\ proc.versions \in Programs /\ d \in Nat
        /\ ProcShape(proc, Me, source) /\ Remembers(proc, Me, source)
    <3>1. /\ Me \in Directories /\ proc \in Processes /\ Shape(Me, proc.run)
          /\ ProcShape(proc, Me, source)
      BY Running, Sources DEF Me, DirectoryInv
    <3> QED
      BY <3>1, Streams DEF Shape, Processes, MemoryInv
  <2>2. CASE proc.pc \in {"hour", "executors"}
    <3>1. Len(Me.updates) = d * Z /\ proc.versions = LastVersions(Me)
      BY <2>1, <2>2 DEF ProcShape, HourOpen, BetweenHours
    <3>2. EndsAt(Me.updates, proc.versions)
      BY <2>1, <3>1, ProgramsAreUpdates
    <3>3. proc.pc = "hour" => proc.fallbacks = Cardinality(Fell(Me.decisions))
      BY <2>1 DEF Remembers
    <3>4. proc.pc = "hour" => proc.prev = LastAllocation(Me)
      BY <2>1 DEF ProcShape, HourOpen
    <3> QED
      BY <3>2, <3>3, <3>4 DEF Fell, LastAllocation, Last
  <2>3. CASE proc.pc \in {"step", "hour_end"}
    <3>1. /\ Len(Me.updates) = (d + 1) * Z
          /\ \A k \in 1 .. Z : proc.versions[ZoneSeq[k]] = Me.updates[d * Z + k].after
      BY <2>1, <2>3 DEF ProcShape, InHour
    <3> DEFINE e == d + 1
    <3>2. e \in Nat /\ e = d + 1 /\ e - 1 = d
      BY <2>1
    <3> HIDE DEF e
    <3>3. EndsAt(Me.updates, proc.versions)
      BY <2>1, <3>1, <3>2, ProgramsAreUpdates
    <3> QED
      BY <2>3, <3>3
  <2>4. CASE proc.pc = "stop"
    <3>1. d = Hours /\ Len(Me.updates) = d * Z /\ proc.versions = LastVersions(Me)
      BY <2>1, <2>4 DEF ProcShape, Over, Remembers
    <3> QED
      BY <2>1, <2>4, <3>1, ProgramsAreUpdates
  <2> QED
    BY <2>2, <2>3, <2>4
<1> QED
  BY <1>1, <1>2, MemoryNext, HourlyInit, HourlyNext, PTL DEF Spec
=============================================================================
