-------------------------- MODULE TrainingRunProofs --------------------------
(***************************************************************************)
(* Proofs about TrainingRun, for any forecasts, environments, caps and any  *)
(* number of commands, exceptions and kills.  The invariant says how the    *)
(* memory of a command relates to the checkpoint at each stage of an epoch: *)
(* it is the checkpoint it restored, or that and the epoch being trained.   *)
(***************************************************************************)
EXTENDS TrainingRun, TLAPS

Rows == [epoch : Nat, by : Nat, forecast : Forecasts \cup {None}]
EvaluationRows == [epoch : Nat, by : Nat]
Checkpoints == [rows : Seq(Rows), updates : Seq(Rows), evals : Seq(EvaluationRows),
                stopped : BOOLEAN, forecast : Forecasts \cup {None}]

Files == {"rows", "updates", "evals"}
Training == {"evaluate", "evaluating", "save"}
Working == Training \cup Files \cup {"opening", "loop", "update", "closing", "report"}

TypeInv ==
    /\ mode \in {"smoke", "full"}
    /\ ck \in Checkpoints /\ mem \in Checkpoints
    /\ csv \in [rows : Seq(Rows), updates : Seq(Rows), evals : Seq(EvaluationRows)]
    /\ pc \in Working \cup Idle \cup {"failing"}
    /\ cmd \in [number : Nat, continue : BOOLEAN, forecast : Forecasts \cup {None}]
    /\ extended \in BOOLEAN /\ troubles \in Nat

WithinCap(k) ==
    /\ mode = "smoke" => Epoch(k) <= 2
    /\ mode = "full" /\ ~extended => Epoch(k) <= Cap

\* No row names a command later than the present one.
ByInv(k) == \A i \in 1 .. Epoch(k) : k.rows[i].by <= cmd.number

CheckpointInv ==
    /\ Exact(ck, Epoch(ck)) /\ ByInv(ck) /\ WithinCap(ck)
    /\ ck.rows = <<>> => ck = NoCheckpoint

\* The epochs whose evaluation, if due, is in memory.
Judged == IF pc \in {"evaluate", "evaluating"} THEN Epoch(mem) - 1 ELSE Epoch(mem)

\* Between two epochs the memory is the checkpoint.
Loaded ==
    /\ mem = [ck EXCEPT !.forecast = cmd.forecast]
    /\ ck.rows # <<>> => ck.forecast = cmd.forecast

\* During one it is one epoch ahead.
Ahead ==
    /\ Exact(mem, Judged) /\ ByInv(mem) /\ WithinCap(mem)
    /\ mem.forecast = cmd.forecast
    /\ Epoch(mem) = Epoch(ck) + 1
    /\ Prefix(ck.rows, mem.rows) /\ Prefix(ck.evals, mem.evals)
    /\ pc # "save" => Due(Epoch(mem))

MemoryInv ==
    /\ pc \in Working \ Training => Loaded
    /\ pc \in Training => Ahead
    /\ pc \in Working /\ cmd.continue => extended
    /\ cmd.continue => mode = "full"

StageInv ==
    /\ pc = "update" => More(mem)
    /\ pc \in {"closing", "report"} => ~More(mem) /\ ck.rows # <<>>
    /\ pc \in Files => ck.rows # <<>>
    /\ pc \in {"report", "raised", "ended"} => open = {}
    /\ pc = "ended" =>
          /\ ck.rows # <<>> /\ (cmd.continue => extended)
          /\ manifest = [status |-> Status, epoch |-> Epoch(ck)] /\ ~More(ck)

\* The last epoch committed is one of the present command.
Mine == ck.rows # <<>> /\ ck.rows[Epoch(ck)].by = cmd.number

FilesInv ==
    /\ Prefix(csv.rows, ck.rows) /\ Prefix(csv.updates, ck.updates) /\ Prefix(csv.evals, ck.evals)
    /\ Len(csv.rows) + troubles + (IF pc = "rows" THEN 1 ELSE 0) >= Epoch(ck)
    /\ pc \in Working \cup {"ended"} /\ Mine =>
          /\ pc # "rows" => csv.rows = ck.rows
          /\ pc \notin {"rows", "updates"} => csv.updates = ck.updates
          /\ pc \notin Files => csv.evals = ck.evals

Inv == TypeInv /\ CheckpointInv /\ MemoryInv /\ StageInv /\ FilesInv

-----------------------------------------------------------------------------
(* Sequences *)

LEMMA PrefixOfItself ==
    ASSUME NEW S, NEW s \in Seq(S)
    PROVE  Prefix(s, s)
BY DEF Prefix

LEMMA PrefixOfPrefix ==
    ASSUME NEW S, NEW s \in Seq(S), NEW t \in Seq(S), NEW u \in Seq(S), Prefix(s, t), Prefix(t, u)
    PROVE  Prefix(s, u)
BY DEF Prefix

LEMMA PrefixOfAppended ==
    ASSUME NEW S, NEW s \in Seq(S), NEW x \in S, NEW t \in Seq(S), Prefix(t, s)
    PROVE  Prefix(t, Append(s, x))
BY DEF Prefix

-----------------------------------------------------------------------------
(* What is exact stays so while it and the mode of the run stay *)

LEMMA ExactStays ==
    ASSUME Exact(ck, Epoch(ck)), Epoch(ck) \in Nat, ck' = ck, mode' = mode
    PROVE  Exact(ck, Epoch(ck))'
<1>1. \A d : Due(d)' <=> Due(d)
  BY DEF Due
<1>2. { d \in 1 .. Epoch(ck) : Due(d)' } = { d \in 1 .. Epoch(ck) : Due(d) }
  BY <1>1
<1> QED
  BY <1>2 DEF Exact, Epoch

LEMMA CheckpointStays ==
    ASSUME Inv, ck' = ck, mode' = mode, cmd' = cmd, extended' = extended
    PROVE  CheckpointInv'
<1>1. Exact(ck, Epoch(ck))'
  BY ExactStays DEF Inv, CheckpointInv, TypeInv, Checkpoints, Epoch
<1>2. ByInv(ck)' /\ WithinCap(ck)'
  BY DEF Inv, CheckpointInv, ByInv, WithinCap, Epoch
<1> QED
  BY <1>1, <1>2 DEF Inv, CheckpointInv

-----------------------------------------------------------------------------
(* Steps that move only the command: memory, checkpoint and files stay *)

Still == UNCHANGED <<mode, ck, csv, mem, cmd, extended>> /\ troubles' \in Nat /\ troubles' >= troubles

LEMMA StillCheckpoint ==
    ASSUME Inv, Still
    PROVE  CheckpointInv'
BY CheckpointStays DEF Still

LEMMA StillMemory ==
    ASSUME Inv, Still,
           pc' \in Working \ Training => Loaded,
           pc' \in Training => pc = "evaluate" /\ pc' = "evaluating",
           pc' \in Working => pc \in Working
    PROVE  MemoryInv'
<1>1. pc' \in Working \ Training => Loaded'
  BY DEF Still, Loaded
<1>2. pc' \in Training => Ahead'
  <2> SUFFICES ASSUME pc' \in Training
               PROVE  Ahead'
    OBVIOUS
  <2>1. Ahead /\ Judged' = Judged
    BY DEF Inv, MemoryInv, Training, Judged, Still, Epoch
  <2>2. Exact(mem, Judged)'
    <3>1. \A d : Due(d)' <=> Due(d)
      BY DEF Still, Due
    <3>2. { d \in 1 .. Judged' : Due(d)' } = { d \in 1 .. Judged : Due(d) }
      BY <2>1, <3>1
    <3>3. Exact(mem, Judged) /\ mem' = mem
      BY <2>1 DEF Ahead, Still
    <3> QED
      BY <2>1, <3>2, <3>3 DEF Exact, Epoch
  <2>3. ByInv(mem)' /\ WithinCap(mem)' /\ (mem.forecast = cmd.forecast)'
    BY <2>1 DEF Ahead, Still, ByInv, WithinCap, Epoch
  <2>4. (Epoch(mem) = Epoch(ck) + 1)' /\ Prefix(ck.rows, mem.rows)' /\ Prefix(ck.evals, mem.evals)'
    BY <2>1 DEF Ahead, Still, Prefix, Epoch
  <2>5. Due(Epoch(mem))'
    BY <2>1 DEF Ahead, Still, Due, Epoch
  <2> QED
    BY <2>2, <2>3, <2>4, <2>5 DEF Ahead
<1> QED
  BY <1>1, <1>2 DEF Inv, Still, MemoryInv

LEMMA StillFiles ==
    ASSUME Inv, Still,
           pc = "rows" => pc' = "rows" \/ troubles' = troubles + 1,
           pc' \in Working \cup {"ended"} => pc \in Working \ Files,
           pc' \notin Files
    PROVE  FilesInv'
<1>1. Mine' <=> Mine
  BY DEF Still, Mine, Epoch
<1>2. /\ Prefix(csv.rows, ck.rows)' /\ Prefix(csv.updates, ck.updates)'
      /\ Prefix(csv.evals, ck.evals)'
  BY DEF Inv, FilesInv, Still, Prefix
<1>3. (Len(csv.rows) + troubles + (IF pc = "rows" THEN 1 ELSE 0) >= Epoch(ck))'
  <2>1. Len(csv.rows) \in Nat /\ Epoch(ck) \in Nat /\ troubles \in Nat
    BY DEF Inv, TypeInv, Epoch, Checkpoints
  <2>2. Len(csv.rows) + troubles + (IF pc = "rows" THEN 1 ELSE 0) >= Epoch(ck)
    BY DEF Inv, FilesInv
  <2>3. pc' # "rows"
    BY DEF Files
  <2>4. csv' = csv /\ ck' = ck /\ troubles' \in Nat /\ troubles' >= troubles
    BY DEF Still
  <2>5. Len(csv.rows) + troubles' >= Epoch(ck)
    <3>1. CASE pc = "rows"
      BY <2>1, <2>2, <2>3, <3>1
    <3>2. CASE pc # "rows"
      BY <2>1, <2>2, <2>4, <3>2
    <3> QED
      BY <3>1, <3>2
  <2> QED
    BY <2>3, <2>4, <2>5 DEF Epoch
<1>4. ASSUME pc' \in Working \cup {"ended"}, Mine'
      PROVE  csv'.rows = ck'.rows /\ csv'.updates = ck'.updates /\ csv'.evals = ck'.evals
  BY <1>1, <1>4 DEF Inv, FilesInv, Still, Files
<1> QED
  BY <1>2, <1>3, <1>4 DEF FilesInv, Files

LEMMA StillTypes ==
    ASSUME Inv, Still, pc' \in Working \cup Idle \cup {"failing"}
    PROVE  TypeInv'
BY DEF Inv, TypeInv, Still

LEMMA OpenStep ==
    ASSUME Inv, Open
    PROVE  Inv'
<1>1. Still /\ pc = "opening" /\ pc' \in {"opening", "loop"}
  BY DEF Open, Still, Inv, TypeInv
<1>2. TypeInv'
  BY <1>1, StillTypes DEF Working
<1>3. MemoryInv'
  BY <1>1, StillMemory DEF Inv, MemoryInv, Working, Training, Files
<1>4. FilesInv'
  BY <1>1, StillFiles DEF Working, Training, Files
<1>5. StageInv'
  BY <1>1 DEF StageInv, Files
<1> QED
  BY <1>1, <1>2, <1>3, <1>4, <1>5, StillCheckpoint DEF Inv

LEMMA RolloutStep ==
    ASSUME Inv, Rollout
    PROVE  Inv'
<1>1. Still /\ pc = "loop" /\ pc' = "update" /\ More(mem)
  BY DEF Rollout, Still, Inv, TypeInv
<1>2. TypeInv'
  BY <1>1, StillTypes DEF Working
<1>3. MemoryInv'
  BY <1>1, StillMemory DEF Inv, MemoryInv, Working, Training, Files
<1>4. FilesInv'
  BY <1>1, StillFiles DEF Working, Training, Files
<1>5. StageInv'
  BY <1>1 DEF StageInv, Files, Still, More, Epoch
<1> QED
  BY <1>1, <1>2, <1>3, <1>4, <1>5, StillCheckpoint DEF Inv

LEMMA OpenEvaluationStep ==
    ASSUME Inv, OpenEvaluation
    PROVE  Inv'
<1>1. Still /\ pc = "evaluate" /\ pc' = "evaluating"
  BY DEF OpenEvaluation, Still, Inv, TypeInv
<1>2. TypeInv'
  BY <1>1, StillTypes DEF Working, Training
<1>3. MemoryInv'
  BY <1>1, StillMemory DEF Working, Training, Files
<1>4. FilesInv'
  BY <1>1, StillFiles DEF Working, Training, Files
<1>5. StageInv'
  BY <1>1 DEF StageInv, Files
<1> QED
  BY <1>1, <1>2, <1>3, <1>4, <1>5, StillCheckpoint DEF Inv

\* With nothing committed there is an epoch to train.
LEMMA LoadedMore ==
    ASSUME Inv, Loaded, ~More(mem)
    PROVE  ck.rows # <<>> /\ ~More(ck)
<1>1. ck \in Checkpoints /\ mem = [ck EXCEPT !.forecast = cmd.forecast] /\ mode \in {"smoke", "full"}
  BY DEF Inv, TypeInv, Loaded
<1>2. mem.rows = ck.rows /\ mem.stopped = ck.stopped
  BY <1>1 DEF Checkpoints
<1>3. ~More(ck)
  BY <1>2 DEF More, Epoch
<1>4. ASSUME ck.rows = <<>>
      PROVE  FALSE
  <2>1. ~ck.stopped /\ Epoch(ck) = 0
    BY <1>4 DEF Inv, CheckpointInv, NoCheckpoint, Epoch
  <2> QED
    BY <1>3, <2>1, TrainingAssumption DEF More
<1> QED
  BY <1>3, <1>4

LEMMA LoopEndsStep ==
    ASSUME Inv, LoopEnds
    PROVE  Inv'
<1>1. Still /\ pc = "loop" /\ pc' = "closing" /\ ~More(mem)
  BY DEF LoopEnds, Still, Inv, TypeInv
<1>2. TypeInv'
  BY <1>1, StillTypes DEF Working
<1>3. MemoryInv'
  BY <1>1, StillMemory DEF Inv, MemoryInv, Working, Training, Files
<1>4. FilesInv'
  BY <1>1, StillFiles DEF Working, Training, Files
<1>5. StageInv'
  <2>1. Loaded
    BY <1>1 DEF Inv, MemoryInv, Working, Training
  <2>2. ck.rows # <<>>
    BY <1>1, <2>1, LoadedMore
  <2> QED
    BY <1>1, <2>2 DEF StageInv, Files, Still, More, Epoch
<1> QED
  BY <1>1, <1>2, <1>3, <1>4, <1>5, StillCheckpoint DEF Inv

LEMMA CloseStep ==
    ASSUME Inv, Close
    PROVE  Inv'
<1>1. /\ Still /\ open' = {}
      /\ \/ pc = "closing" /\ pc' = "report"
         \/ pc = "failing" /\ pc' = "raised"
  BY DEF Close, Closed, Still, Inv, TypeInv
<1>2. TypeInv'
  BY <1>1, StillTypes DEF Working, Idle
<1>3. MemoryInv'
  BY <1>1, StillMemory DEF Inv, MemoryInv, Working, Training, Files
<1>4. FilesInv'
  BY <1>1, StillFiles DEF Working, Training, Files
<1>5. StageInv'
  BY <1>1 DEF Inv, StageInv, Files, Still, More, Epoch
<1> QED
  BY <1>1, <1>2, <1>3, <1>4, <1>5, StillCheckpoint DEF Inv

LEMMA WriteManifestStep ==
    ASSUME Inv, WriteManifest
    PROVE  Inv'
<1>1. Loaded /\ ~More(mem) /\ ck.rows # <<>> /\ open = {} /\ (cmd.continue => extended)
  BY DEF WriteManifest, Inv, MemoryInv, StageInv, Working, Training, Files
<1>2. ck # NoCheckpoint
  BY <1>1 DEF NoCheckpoint
<1>3. /\ Still /\ open' = {} /\ pc = "report" /\ pc' = "ended"
      /\ manifest' = [status |-> Status, epoch |-> Epoch(ck)]
  BY <1>1, <1>2 DEF WriteManifest, Still, Inv, TypeInv
<1>4. TypeInv'
  BY <1>3, StillTypes DEF Working, Idle
<1>5. MemoryInv'
  BY <1>3, StillMemory DEF Inv, MemoryInv, Working, Training, Files
<1>6. FilesInv'
  BY <1>3, StillFiles DEF Working, Training, Files
<1>7. StageInv'
  <2>1. ~More(ck)
    BY <1>1, LoadedMore
  <2> QED
    BY <1>1, <1>3, <2>1 DEF StageInv, Files, Still, More, Epoch, Status
<1> QED
  BY <1>3, <1>4, <1>5, <1>6, <1>7, StillCheckpoint DEF Inv

LEMMA TroubleStep ==
    ASSUME Inv, Fails \/ Kill
    PROVE  Inv'
<1>1. Still /\ troubles' = troubles + 1 /\ pc' \in {"failing", "killed"}
  BY DEF Fails, Kill, Trouble, Still, Inv, TypeInv
<1>2. TypeInv'
  BY <1>1, StillTypes DEF Idle
<1>3. MemoryInv'
  BY <1>1, StillMemory DEF Working, Training, Files
<1>4. FilesInv'
  BY <1>1, StillFiles DEF Working, Training, Files
<1>5. StageInv'
  BY <1>1 DEF StageInv, Files
<1> QED
  BY <1>1, <1>2, <1>3, <1>4, <1>5, StillCheckpoint DEF Inv

-----------------------------------------------------------------------------
(* A command starts *)

LEMMA StartStep ==
    ASSUME Inv, NEW continue \in BOOLEAN, NEW resume \in BOOLEAN, NEW forecast \in Forecasts,
           Start(continue, resume, forecast)
    PROVE  Inv'
<1>1. /\ pc \in Idle /\ (continue => mode = "full") /\ open' = {}
      /\ cmd' = [number |-> cmd.number + 1, continue |-> continue, forecast |-> forecast]
      /\ UNCHANGED <<mode, ck, csv, manifest, troubles>>
  BY DEF Start
<1>2. \/ pc' = "refused" /\ mem' = mem /\ extended' = extended
      \/ /\ pc' = "opening" /\ ~Refused(resume, forecast)
         /\ mem' = [ck EXCEPT !.forecast = forecast]
         /\ extended' = (extended \/ continue)
  BY DEF Start, Restore
<1>3. TypeInv'
  <2>1. mem' \in Checkpoints
    BY <1>2 DEF Inv, TypeInv, Checkpoints
  <2>2. cmd' \in [number : Nat, continue : BOOLEAN, forecast : Forecasts \cup {None}]
    BY <1>1 DEF Inv, TypeInv
  <2>3. extended' \in BOOLEAN /\ pc' \in Working \cup Idle
    BY <1>2 DEF Inv, TypeInv, Working, Idle
  <2> QED
    BY <1>1, <2>1, <2>2, <2>3 DEF Inv, TypeInv
<1>4. \A i \in 1 .. Epoch(ck) : ck.rows[i].by <= cmd.number /\ ck.rows[i].by \in Nat
  <2>1. ck.rows \in Seq(Rows)
    BY DEF Inv, TypeInv, Checkpoints
  <2>2. \A i \in 1 .. Epoch(ck) : ck.rows[i] \in Rows
    BY <2>1 DEF Epoch
  <2> QED
    BY <2>2 DEF Inv, CheckpointInv, ByInv, Rows
<1>5. CheckpointInv'
  <2>1. Exact(ck, Epoch(ck))'
    BY <1>1, ExactStays DEF Inv, CheckpointInv, TypeInv, Checkpoints, Epoch
  <2>2. ByInv(ck)'
    BY <1>1, <1>4 DEF ByInv, Epoch, Inv, TypeInv
  <2>3. WithinCap(ck)'
    BY <1>1, <1>2 DEF Inv, CheckpointInv, WithinCap, Epoch
  <2> QED
    BY <1>1, <2>1, <2>2, <2>3 DEF Inv, CheckpointInv
<1>6. MemoryInv'
  <2>1. CASE pc' = "refused"
    BY <1>1, <2>1 DEF MemoryInv, Working, Training, Files
  <2>2. CASE pc' = "opening"
    <3>1. ck.rows # <<>> => ck.forecast = forecast
      BY <1>2, <2>2 DEF Refused, NoCheckpoint
    <3>2. Loaded'
      BY <1>1, <1>2, <2>2, <3>1 DEF Loaded
    <3>3. cmd'.continue => extended'
      BY <1>1, <1>2, <2>2
    <3> QED
      BY <1>1, <2>2, <3>2, <3>3 DEF MemoryInv, Working, Training, Files
  <2> QED
    BY <1>2, <2>1, <2>2
<1>7. StageInv'
  BY <1>2 DEF StageInv, Files
<1>8. ~Mine'
  <2>1. Epoch(ck) \in Nat /\ (ck.rows # <<>> => Epoch(ck) >= 1) /\ cmd.number \in Nat
    BY DEF Inv, TypeInv, Checkpoints, Epoch
  <2> QED
    BY <1>1, <1>4, <2>1 DEF Mine, Epoch
<1>9. FilesInv'
  <2>1. pc # "rows" /\ pc' # "rows"
    BY <1>1, <1>2 DEF Idle
  <2> QED
    BY <1>1, <1>8, <2>1 DEF Inv, FilesInv, Prefix, Epoch
<1> QED
  BY <1>3, <1>5, <1>6, <1>7, <1>9 DEF Inv

-----------------------------------------------------------------------------
(* An epoch *)

LEMMA SaveStep ==
    ASSUME Inv, Save
    PROVE  Inv'
<1>1. /\ pc = "save" /\ ck' = mem /\ pc' = "rows"
      /\ UNCHANGED <<mode, csv, manifest, mem, cmd, open, extended, troubles>>
  BY DEF Save, After
<1>2. Ahead /\ (cmd.continue => extended) /\ (cmd.continue => mode = "full")
  BY <1>1 DEF Inv, MemoryInv, Training, Working
<1>3. ck \in Checkpoints /\ mem \in Checkpoints /\ Epoch(ck) \in Nat /\ mem.rows # <<>>
  BY <1>2 DEF Inv, TypeInv, Checkpoints, Epoch, Ahead
<1>4. TypeInv'
  BY <1>1 DEF Inv, TypeInv, Working, Files
<1>5. CheckpointInv'
  <2>1. Exact(mem, Epoch(mem)) /\ ByInv(mem) /\ WithinCap(mem)
    BY <1>1, <1>2 DEF Ahead, Judged
  <2>2. Exact(ck, Epoch(ck))'
    <3>1. \A d : Due(d)' <=> Due(d)
      BY <1>1 DEF Due
    <3>2. { d \in 1 .. Epoch(mem) : Due(d)' } = { d \in 1 .. Epoch(mem) : Due(d) }
      BY <3>1
    <3> QED
      BY <1>1, <2>1, <3>2 DEF Exact, Epoch
  <2>3. ByInv(ck)' /\ WithinCap(ck)'
    BY <1>1, <2>1 DEF ByInv, WithinCap, Epoch
  <2> QED
    BY <1>1, <1>3, <2>2, <2>3 DEF CheckpointInv
<1>6. MemoryInv'
  <2>1. mem = [mem EXCEPT !.forecast = cmd.forecast] /\ mem.forecast = cmd.forecast
    BY <1>2, <1>3 DEF Ahead, Checkpoints
  <2>2. Loaded'
    BY <1>1, <2>1 DEF Loaded
  <2> QED
    BY <1>1, <1>2, <2>2 DEF MemoryInv, Working, Training, Files
<1>7. StageInv'
  BY <1>1, <1>3 DEF StageInv
<1>8. FilesInv'
  <2>1. Prefix(csv.rows, mem.rows)
    BY <1>2, <1>3, PrefixOfPrefix DEF Ahead, Inv, FilesInv, TypeInv, Checkpoints
  <2>2. Prefix(csv.updates, mem.updates)
    <3>1. mem.updates = mem.rows /\ ck.updates = ck.rows
      BY <1>2 DEF Ahead, Exact, Inv, CheckpointInv
    <3> QED
      BY <1>2, <1>3, <3>1, PrefixOfPrefix DEF Ahead, Inv, FilesInv, TypeInv, Checkpoints
  <2>3. Prefix(csv.evals, mem.evals)
    BY <1>2, <1>3, PrefixOfPrefix DEF Ahead, Inv, FilesInv, TypeInv, Checkpoints
  <2>4. Len(csv.rows) + troubles + 1 >= Epoch(mem)
    <3>1. Len(csv.rows) + troubles >= Epoch(ck) /\ Epoch(mem) = Epoch(ck) + 1
      BY <1>1, <1>2 DEF Inv, FilesInv, Ahead, TypeInv
    <3>2. Len(csv.rows) \in Nat /\ troubles \in Nat
      BY DEF Inv, TypeInv
    <3> QED
      BY <1>3, <3>1, <3>2
  <2> QED
    BY <1>1, <2>1, <2>2, <2>3, <2>4 DEF FilesInv, Prefix, Epoch, Files
<1> QED
  BY <1>4, <1>5, <1>6, <1>7, <1>8 DEF Inv

LEMMA WriteRowsStep ==
    ASSUME Inv, WriteRows
    PROVE  Inv'
<1> DEFINE csvs == [rows : Seq(Rows), updates : Seq(Rows), evals : Seq(EvaluationRows)]
<1>1. /\ csv \in csvs /\ ck \in Checkpoints /\ mem \in Checkpoints
      /\ pc \in DOMAIN csv /\ csv' = [csv EXCEPT ![pc] = mem[pc]] /\ pc' = After(pc)
      /\ UNCHANGED <<mode, ck, manifest, mem, cmd, open, extended, troubles>>
  BY DEF WriteRows, Inv, TypeInv
<1>2. pc \in Files
  BY <1>1 DEF Files
<1>3. Loaded /\ ck.rows # <<>> /\ (cmd.continue => extended) /\ (cmd.continue => mode = "full")
  BY <1>2 DEF Inv, MemoryInv, StageInv, Working, Training, Files
<1>4. mem.rows = ck.rows /\ mem.updates = ck.updates /\ mem.evals = ck.evals
  BY <1>1, <1>3 DEF Loaded, Checkpoints
<1>5. \/ pc = "rows" /\ pc' = "updates" /\ csv' = [csv EXCEPT !.rows = ck.rows]
      \/ pc = "updates" /\ pc' = "evals" /\ csv' = [csv EXCEPT !.updates = ck.updates]
      \/ pc = "evals" /\ pc' = "loop" /\ csv' = [csv EXCEPT !.evals = ck.evals]
  BY <1>1, <1>2, <1>4 DEF After, Files
<1>6. csv' \in csvs
  BY <1>1, <1>5 DEF Checkpoints
<1>7. TypeInv'
  BY <1>1, <1>5, <1>6 DEF Inv, TypeInv, Working, Files
<1>8. CheckpointInv'
  BY <1>1, CheckpointStays
<1>9. MemoryInv'
  <2>1. Loaded'
    BY <1>1, <1>3 DEF Loaded
  <2> QED
    BY <1>1, <1>3, <1>5, <2>1 DEF MemoryInv, Working, Training, Files
<1>10. StageInv'
  BY <1>1, <1>3, <1>5 DEF StageInv
<1>11. FilesInv'
  <2>1. /\ Prefix(csv'.rows, ck.rows) /\ Prefix(csv'.updates, ck.updates)
        /\ Prefix(csv'.evals, ck.evals)
    BY <1>1, <1>5, PrefixOfItself DEF Inv, FilesInv, Checkpoints
  <2>2. Len(csv'.rows) + troubles >= Epoch(ck)
    <3>1. CASE pc = "rows"
      BY <1>1, <1>5, <3>1 DEF Inv, TypeInv, Epoch, Checkpoints
    <3>2. CASE pc # "rows"
      BY <1>1, <1>5, <3>2 DEF Inv, FilesInv, TypeInv
    <3> QED
      BY <3>1, <3>2
  <2>3. Mine' <=> Mine
    BY <1>1 DEF Mine, Epoch
  <2>4. ASSUME Mine
        PROVE  /\ csv'.rows = ck.rows
               /\ pc' # "updates" => csv'.updates = ck.updates
               /\ pc' = "loop" => csv'.evals = ck.evals
    BY <1>1, <1>5, <2>4 DEF Inv, FilesInv, Working, Files
  <2> QED
    <3>1. /\ Prefix(csv.rows, ck.rows)' /\ Prefix(csv.updates, ck.updates)'
          /\ Prefix(csv.evals, ck.evals)'
      BY <1>1, <2>1 DEF Prefix
    <3>2. (Len(csv.rows) + troubles + (IF pc = "rows" THEN 1 ELSE 0) >= Epoch(ck))'
      <4>1. Len(csv'.rows) \in Nat /\ troubles' = troubles /\ troubles \in Nat /\ ck' = ck
        BY <1>1, <1>6 DEF Inv, TypeInv
      <4>2. pc' # "rows"
        BY <1>5
      <4> QED
        BY <2>2, <4>1, <4>2 DEF Epoch
    <3>3. pc' \in {"updates", "evals", "loop"}
      BY <1>5
    <3> QED
      BY <1>1, <2>3, <2>4, <3>1, <3>2, <3>3 DEF FilesInv, Files
<1> QED
  BY <1>7, <1>8, <1>9, <1>10, <1>11 DEF Inv

LEMMA TrainStep ==
    ASSUME Inv, Train
    PROVE  Inv'
<1> DEFINE n == Epoch(mem)
<1>1. /\ pc = "update"
      /\ mem' = [mem EXCEPT !.rows = Append(mem.rows, Row), !.updates = Append(mem.updates, Row)]
      /\ pc' = IF Due(Epoch(mem')) THEN "evaluate" ELSE "save"
      /\ UNCHANGED <<mode, ck, csv, manifest, cmd, open, extended, troubles>>
  BY DEF Train
<1>2. Loaded /\ More(mem) /\ (cmd.continue => extended) /\ (cmd.continue => mode = "full")
  BY <1>1 DEF Inv, MemoryInv, StageInv, Working, Training, Files
<1>3. ck \in Checkpoints /\ mem \in Checkpoints /\ n \in Nat /\ n = Len(mem.rows)
  BY DEF Inv, TypeInv, Checkpoints, Epoch
<1>4. Row \in Rows /\ Row.epoch = n + 1 /\ Row.by = cmd.number /\ Row.forecast = cmd.forecast
  BY <1>3 DEF Row, Rows, Inv, TypeInv
<1>5. /\ mem.rows = ck.rows /\ mem.updates = ck.rows /\ mem.evals = ck.evals
      /\ mem.forecast = cmd.forecast /\ n = Epoch(ck)
  BY <1>2, <1>3 DEF Loaded, Checkpoints, Inv, CheckpointInv, Exact, Epoch
<1>6. /\ mem' \in Checkpoints
      /\ mem'.rows = Append(ck.rows, Row) /\ mem'.updates = Append(ck.rows, Row)
      /\ mem'.evals = ck.evals /\ mem'.forecast = cmd.forecast
  <2>1. Append(ck.rows, Row) \in Seq(Rows)
    BY <1>3, <1>4 DEF Checkpoints
  <2>2. mem' = [mem EXCEPT !.rows = Append(ck.rows, Row), !.updates = Append(ck.rows, Row)]
    BY <1>1, <1>5
  <2> QED
    BY <1>3, <1>5, <2>1, <2>2 DEF Checkpoints
<1>7. /\ ck.rows \in Seq(Rows) /\ Len(ck.rows) = n /\ Epoch(mem') = n + 1
      /\ \A i \in 1 .. n : mem'.rows[i] = ck.rows[i]
      /\ mem'.rows[n + 1] = Row
  BY <1>3, <1>4, <1>5, <1>6 DEF Checkpoints, Epoch
<1>8. pc' \in {"evaluate", "save"} /\ (pc' # "save" <=> Due(n + 1))
  BY <1>1, <1>7
<1>9. TypeInv'
  BY <1>1, <1>6, <1>8 DEF Inv, TypeInv, Working, Training
<1>10. CheckpointInv'
  BY <1>1, CheckpointStays
<1>11. \A i \in 1 .. n : /\ ck.rows[i].epoch = i /\ ck.rows[i].forecast = cmd.forecast
                         /\ ck.rows[i].by <= cmd.number
  <2>1. n > 0 => ck.rows # <<>>
    BY <1>7
  <2> QED
    BY <1>2, <1>3, <1>5, <2>1 DEF Loaded, Inv, CheckpointInv, Exact, ByInv
<1>12. /\ \A i \in 1 .. n + 1 : /\ mem'.rows[i].epoch = i /\ mem'.rows[i].forecast = cmd.forecast
                                /\ mem'.rows[i].by <= cmd.number
       /\ \A i \in 2 .. n + 1 : mem'.rows[i - 1].by <= mem'.rows[i].by
  <2>1. \A i \in 1 .. n + 1 : i \in 1 .. n \/ i = n + 1
    BY <1>3
  <2>2. \A i \in 1 .. n + 1 : /\ mem'.rows[i].epoch = i /\ mem'.rows[i].forecast = cmd.forecast
                              /\ mem'.rows[i].by <= cmd.number
    <3>1. ASSUME NEW i \in 1 .. n
          PROVE  /\ mem'.rows[i].epoch = i /\ mem'.rows[i].forecast = cmd.forecast
                 /\ mem'.rows[i].by <= cmd.number
      BY <1>7, <1>11
    <3>2. /\ mem'.rows[n + 1].epoch = n + 1 /\ mem'.rows[n + 1].forecast = cmd.forecast
          /\ mem'.rows[n + 1].by <= cmd.number
      BY <1>4, <1>7 DEF Inv, TypeInv
    <3> QED
      BY <2>1, <3>1, <3>2
  <2>3. ASSUME NEW i \in 2 .. n + 1
        PROVE  mem'.rows[i - 1].by <= mem'.rows[i].by
    <3>1. CASE i = n + 1
      <4>1. i - 1 \in 1 .. n + 1 /\ mem'.rows[i].by = cmd.number
        BY <1>3, <1>4, <1>7, <3>1
      <4> QED
        BY <2>2, <4>1
    <3>2. CASE i # n + 1
      <4>1. i \in 2 .. n /\ i \in 1 .. n /\ i - 1 \in 1 .. n
        BY <1>3, <3>2
      <4>2. ck.rows[i - 1].by <= ck.rows[i].by
        BY <1>5, <4>1 DEF Inv, CheckpointInv, Exact
      <4> QED
        BY <1>7, <4>1, <4>2
    <3> QED
      BY <3>1, <3>2
  <2> QED
    BY <2>2, <2>3
<1>13. Judged' = IF Due(n + 1) THEN n ELSE n + 1
  BY <1>3, <1>7, <1>8 DEF Judged
<1>14. { d \in 1 .. Judged' : Due(d) } = { d \in 1 .. n : Due(d) }
  BY <1>3, <1>13
<1>15. Exact(mem, Judged)'
  <2>1. /\ { ck.evals[i].epoch : i \in 1 .. Len(ck.evals) } = { d \in 1 .. n : Due(d) }
        /\ \A i \in 2 .. Len(ck.evals) : ck.evals[i - 1].epoch < ck.evals[i].epoch
    BY <1>5 DEF Inv, CheckpointInv, Exact
  <2>2. \A d : Due(d)' <=> Due(d)
    BY <1>1 DEF Due
  <2>3. { d \in 1 .. Judged' : Due(d)' } = { d \in 1 .. n : Due(d) }
    BY <1>14, <2>2
  <2>4. /\ \A i \in 1 .. Epoch(mem') : mem'.rows[i].epoch = i /\ mem'.rows[i].forecast = mem'.forecast
        /\ \A i \in 2 .. Epoch(mem') : mem'.rows[i - 1].by <= mem'.rows[i].by
        /\ mem'.updates = mem'.rows
    BY <1>6, <1>7, <1>12
  <2> QED
    BY <1>6, <2>1, <2>3, <2>4 DEF Exact, Epoch
<1>16. WithinCap(mem)'
  <2>1. /\ mode = "smoke" => n + 1 <= 2
        /\ mode = "full" /\ ~extended => n < Cap
    BY <1>2, <1>3 DEF More
  <2>2. mode = "full" /\ ~extended => n + 1 <= Cap
    BY <1>3, <2>1, TrainingAssumption
  <2> QED
    BY <1>1, <1>7, <2>1, <2>2 DEF WithinCap, Epoch
<1>17. ByInv(mem)'
  BY <1>1, <1>7, <1>12 DEF ByInv, Epoch
<1>18. Ahead'
  <2>1. Prefix(ck.rows, mem.rows)' /\ Prefix(ck.evals, mem.evals)'
    BY <1>1, <1>3, <1>6, <1>7 DEF Prefix, Checkpoints
  <2>2. (Epoch(mem) = Epoch(ck) + 1)' /\ (mem.forecast = cmd.forecast)'
    BY <1>1, <1>5, <1>6, <1>7 DEF Epoch
  <2>3. pc' # "save" => Due(Epoch(mem))'
    BY <1>1, <1>7, <1>8 DEF Due, Epoch
  <2> QED
    BY <1>15, <1>16, <1>17, <2>1, <2>2, <2>3 DEF Ahead
<1>19. MemoryInv'
  BY <1>1, <1>2, <1>8, <1>18 DEF MemoryInv, Working, Training, Files
<1>20. StageInv'
  BY <1>8 DEF StageInv, Files
<1>21. FilesInv'
  BY <1>1, <1>8 DEF Inv, FilesInv, Mine, Prefix, Epoch, Working, Training, Files
<1> QED
  BY <1>9, <1>10, <1>19, <1>20, <1>21 DEF Inv

\* The evaluation of the last epoch, which was due.
LEMMA EvaluatedStep ==
    ASSUME Inv, Evaluated
    PROVE  Inv'
<1> DEFINE n == Epoch(mem)
           k == Len(mem.evals)
<1>1. /\ pc = "evaluating" /\ pc' = "save"
      /\ UNCHANGED <<mode, ck, csv, manifest, cmd, extended, troubles>>
  BY DEF Evaluated
<1>2. PICK stop \in BOOLEAN :
         mem' = [mem EXCEPT !.evals = Append(mem.evals, EvaluationRow), !.stopped = stop]
  BY DEF Evaluated
<1>3. Ahead /\ (cmd.continue => extended) /\ (cmd.continue => mode = "full")
  BY <1>1 DEF Inv, MemoryInv, Training, Working
<1>4. /\ ck \in Checkpoints /\ mem \in Checkpoints /\ n \in Nat \ {0} /\ k \in Nat
      /\ mem.evals \in Seq(EvaluationRows)
  BY <1>3 DEF Inv, TypeInv, Checkpoints, Epoch, Ahead
<1>5. EvaluationRow \in EvaluationRows /\ EvaluationRow.epoch = n
  BY <1>4 DEF EvaluationRow, EvaluationRows, Inv, TypeInv
<1>6. /\ mem' \in Checkpoints
      /\ mem'.rows = mem.rows /\ mem'.updates = mem.updates /\ mem'.forecast = mem.forecast
      /\ mem'.evals = Append(mem.evals, EvaluationRow)
  <2>1. Append(mem.evals, EvaluationRow) \in Seq(EvaluationRows)
    BY <1>4, <1>5
  <2> QED
    BY <1>2, <1>4, <2>1 DEF Checkpoints
<1>7. /\ Len(mem'.evals) = k + 1 /\ mem'.evals[k + 1].epoch = n
      /\ \A i \in 1 .. k : mem'.evals[i] = mem.evals[i]
  BY <1>4, <1>5, <1>6
<1>8. TypeInv'
  BY <1>1, <1>6 DEF Inv, TypeInv, Working, Training
<1>9. CheckpointInv'
  BY <1>1, CheckpointStays
<1>10. Exact(mem, Judged)'
  <2>1. Due(n) /\ Exact(mem, n - 1)
    BY <1>1, <1>3 DEF Ahead, Judged
  <2>2. \A d : Due(d)' <=> Due(d)
    BY <1>1 DEF Due
  <2>3. Judged' = n
    BY <1>1, <1>6 DEF Judged, Epoch
  <2>4. { mem'.evals[i].epoch : i \in 1 .. k + 1 } = { mem.evals[i].epoch : i \in 1 .. k } \cup {n}
    <3>1. \A i \in 1 .. k + 1 : i \in 1 .. k \/ i = k + 1
      BY <1>4
    <3>2. 1 .. k \subseteq 1 .. k + 1 /\ k + 1 \in 1 .. k + 1
      BY <1>4
    <3>3. { mem'.evals[i].epoch : i \in 1 .. k } = { mem.evals[i].epoch : i \in 1 .. k }
      BY <1>7
    <3> QED
      BY <1>7, <3>1, <3>2, <3>3
  <2>5. { d \in 1 .. n : Due(d) } = { d \in 1 .. n - 1 : Due(d) } \cup {n}
    BY <1>4, <2>1
  <2>6. { mem'.evals[i].epoch : i \in 1 .. Len(mem'.evals) } = { d \in 1 .. n : Due(d)' }
    BY <1>7, <2>1, <2>2, <2>4, <2>5 DEF Exact
  <2>7. ASSUME NEW i \in 2 .. k + 1
        PROVE  mem'.evals[i - 1].epoch < mem'.evals[i].epoch
    <3>1. CASE i = k + 1
      <4>1. k \in 1 .. k /\ mem'.evals[i - 1].epoch = mem.evals[k].epoch
        BY <1>4, <1>7, <3>1
      <4>2. mem.evals[k].epoch \in 1 .. n - 1
        BY <2>1, <4>1 DEF Exact
      <4> QED
        BY SMTT(30), <1>4, <1>7, <3>1, <4>1, <4>2
    <3>2. CASE i # k + 1
      <4>1. i \in 2 .. k /\ i \in 1 .. k /\ i - 1 \in 1 .. k
        BY <1>4, <3>2
      <4>2. mem.evals[i - 1].epoch < mem.evals[i].epoch
        BY <2>1, <4>1 DEF Exact
      <4> QED
        BY <1>7, <4>1, <4>2
    <3> QED
      BY <3>1, <3>2
  <2>8. /\ \A i \in 1 .. n : mem.rows[i].epoch = i /\ mem.rows[i].forecast = mem.forecast
        /\ \A i \in 2 .. n : mem.rows[i - 1].by <= mem.rows[i].by
        /\ mem.updates = mem.rows
    BY <2>1 DEF Exact
  <2> QED
    BY <1>6, <1>7, <2>3, <2>6, <2>7, <2>8 DEF Exact, Epoch
<1>11. Ahead'
  <2>1. ByInv(mem)' /\ WithinCap(mem)'
    BY <1>1, <1>3, <1>6 DEF Ahead, ByInv, WithinCap, Epoch
  <2>2. Prefix(ck.rows, mem.rows)' /\ Prefix(ck.evals, mem.evals)'
    <3>1. Prefix(ck.evals, Append(mem.evals, EvaluationRow))
      BY <1>3, <1>4, <1>5, PrefixOfAppended DEF Ahead, Checkpoints
    <3> QED
      BY <1>1, <1>3, <1>6, <3>1 DEF Ahead, Prefix
  <2>3. (Epoch(mem) = Epoch(ck) + 1)' /\ (mem.forecast = cmd.forecast)' /\ pc' = "save"
    BY <1>1, <1>3, <1>6 DEF Ahead, Epoch
  <2> QED
    BY <1>10, <2>1, <2>2, <2>3 DEF Ahead
<1>12. MemoryInv'
  BY <1>1, <1>3, <1>11 DEF MemoryInv, Working, Training, Files
<1>13. StageInv'
  BY <1>1 DEF StageInv, Files
<1>14. FilesInv'
  BY <1>1 DEF Inv, FilesInv, Mine, Prefix, Epoch, Working, Training, Files
<1> QED
  BY <1>8, <1>9, <1>12, <1>13, <1>14 DEF Inv

-----------------------------------------------------------------------------
(* The invariant and what follows from it *)

LEMMA InitInv == Init => Inv
<1> SUFFICES ASSUME Init
             PROVE  Inv
  OBVIOUS
<1>1. TypeInv
  <2>1. /\ <<>> \in Seq(Rows) /\ <<>> \in Seq(EvaluationRows)
        /\ NoCheckpoint \in Checkpoints
    BY DEF NoCheckpoint, Checkpoints
  <2> QED
    BY <2>1 DEF Init, TypeInv, Idle
<1>2. Epoch(ck) = 0 /\ Len(ck.evals) = 0 /\ pc = "idle"
  BY DEF Init, NoCheckpoint, Epoch
<1>3. CheckpointInv
  <2>1. { ck.evals[i].epoch : i \in 1 .. Len(ck.evals) } = { d \in 1 .. Epoch(ck) : Due(d) }
    BY <1>2
  <2> QED
    <3>1. ck = NoCheckpoint /\ ck.updates = ck.rows
      BY DEF Init, NoCheckpoint
    <3>2. Exact(ck, Epoch(ck))
      BY <1>2, <2>1, <3>1 DEF Exact
    <3>3. ByInv(ck) /\ WithinCap(ck)
      BY <1>2, TrainingAssumption DEF ByInv, WithinCap
    <3> QED
      BY <3>1, <3>2, <3>3 DEF CheckpointInv
<1>4. MemoryInv /\ StageInv
  BY <1>2 DEF Init, MemoryInv, StageInv, Working, Training, Files
<1>5. FilesInv
  BY <1>2 DEF Init, NoCheckpoint, FilesInv, Prefix, Mine
<1> QED
  BY <1>1, <1>3, <1>4, <1>5 DEF Inv

LEMMA NextInv == Inv /\ [Next]_vars => Inv'
<1> SUFFICES ASSUME Inv, [Next]_vars
             PROVE  Inv'
  OBVIOUS
<1>1. CASE \E continue, resume \in BOOLEAN, forecast \in Forecasts : Start(continue, resume, forecast)
  BY <1>1, StartStep
<1>2. CASE Open \/ Rollout \/ Train \/ OpenEvaluation \/ Evaluated
  BY <1>2, OpenStep, RolloutStep, TrainStep, OpenEvaluationStep, EvaluatedStep
<1>3. CASE Save \/ WriteRows \/ LoopEnds \/ Close \/ WriteManifest
  BY <1>3, SaveStep, WriteRowsStep, LoopEndsStep, CloseStep, WriteManifestStep
<1>4. CASE Fails \/ Kill
  BY <1>4, TroubleStep
<1>5. CASE UNCHANGED vars
  <2>1. UNCHANGED <<mode, ck, csv, manifest, pc, mem, cmd, open, extended, troubles>>
    BY <1>5 DEF vars
  <2>2. TypeInv' /\ CheckpointInv'
    BY <2>1, CheckpointStays DEF Inv, TypeInv
  <2>3. MemoryInv'
    <3>1. Loaded' <=> Loaded
      BY <2>1 DEF Loaded
    <3>2. Ahead' <=> Ahead
      BY <2>1 DEF Ahead, Judged, Exact, Due, ByInv, WithinCap, Epoch, Prefix
    <3> QED
      BY <2>1, <3>1, <3>2 DEF Inv, MemoryInv
  <2>4. StageInv' /\ FilesInv'
    BY <2>1 DEF Inv, StageInv, FilesInv, Mine, More, Status, Epoch, Prefix
  <2> QED
    BY <2>2, <2>3, <2>4 DEF Inv
<1> QED
  BY <1>1, <1>2, <1>3, <1>4, <1>5 DEF Next

LEMMA InvAlways == Spec => []Inv
<1>1. Init => Inv
  BY InitInv
<1>2. Inv /\ [Next]_vars => Inv'
  BY NextInv
<1> QED
  BY <1>1, <1>2, PTL DEF Spec

(* A checkpoint holds one row for each epoch up to its own and one           *)
(* evaluation for each that was due, in order and of one environment,        *)
(* whatever commands were killed, failed or repeated (the training loops).   *)
THEOREM RowsAlwaysExact == Spec => []RowsExact
<1>1. Inv => RowsExact
  BY DEF Inv, CheckpointInv, RowsExact
<1> QED
  BY <1>1, InvAlways, PTL

(* The CSV files never show an epoch that is not committed, and lack one     *)
(* only for each kill or exception between a commit and its rows.            *)
THEOREM CsvAlwaysProjection == Spec => []CsvProjection
<1>1. ASSUME Inv
      PROVE  CsvProjection
  <2>1. csv \in [rows : Seq(Rows), updates : Seq(Rows), evals : Seq(EvaluationRows)]
    BY <1>1 DEF Inv, TypeInv
  <2>2. DOMAIN csv = Files
    BY <2>1 DEF Files
  <2>3. \A f \in Files : Prefix(csv[f], ck[f])
    BY <1>1 DEF Inv, FilesInv, Files
  <2>4. Len(csv.rows) + troubles + (IF pc \in DOMAIN csv THEN 1 ELSE 0) >= Epoch(ck)
    <3>1. Len(csv.rows) \in Nat /\ troubles \in Nat /\ Epoch(ck) \in Nat
      BY <1>1, <2>1 DEF Inv, TypeInv, Checkpoints, Epoch
    <3>2. CASE pc = "rows"
      BY <1>1, <2>2, <3>2 DEF Inv, FilesInv, Files
    <3>3. CASE pc # "rows"
      <4>1. Len(csv.rows) + troubles >= Epoch(ck)
        BY <1>1, <3>1, <3>3 DEF Inv, FilesInv
      <4>2. CASE pc \in DOMAIN csv
        BY <3>1, <4>1, <4>2
      <4>3. CASE pc \notin DOMAIN csv
        BY <3>1, <4>1, <4>3
      <4> QED
        BY <4>2, <4>3
    <3> QED
      BY <3>2, <3>3
  <2>5. ASSUME pc = "ended", ck # NoCheckpoint, ck.rows[Epoch(ck)].by = cmd.number
        PROVE  csv = [rows |-> ck.rows, updates |-> ck.updates, evals |-> ck.evals]
    <3>1. Mine
      BY <1>1, <2>5 DEF Mine, Inv, CheckpointInv
    <3>2. csv.rows = ck.rows /\ csv.updates = ck.updates /\ csv.evals = ck.evals
      BY <1>1, <2>5, <3>1 DEF Inv, FilesInv, Files
    <3> QED
      BY <2>1, <3>2
  <2> QED
    BY <2>2, <2>3, <2>4, <2>5 DEF CsvProjection
<1> QED
  BY <1>1, InvAlways, PTL

(* A command that ends says in run_manifest.json what the checkpoint says,   *)
(* and ended for a reason; the cap is passed only when told to; nothing      *)
(* stays open (the training loops).                                          *)
THEOREM EndAlwaysTruthful == Spec => []EndTruthful
<1>1. ASSUME Inv
      PROVE  EndTruthful
  <2>1. ck \in Checkpoints /\ Epoch(ck) \in Nat /\ mode \in {"smoke", "full"}
    BY <1>1 DEF Inv, TypeInv, Checkpoints, Epoch
  <2>2. pc \in {"raised", "ended"} => open = {}
    BY <1>1 DEF Inv, StageInv
  <2>3. WithinCap(ck)
    BY <1>1 DEF Inv, CheckpointInv
  <2>4. ASSUME pc = "ended"
        PROVE  /\ manifest = [status |-> Status, epoch |-> Epoch(ck)]
               /\ mode = "full" => manifest.status # "incomplete"
               /\ cmd.continue => manifest.status = "early_stopped"
               /\ mode = "smoke" => ck.stopped \/ Epoch(ck) = 2
    <3>1. manifest = [status |-> Status, epoch |-> Epoch(ck)] /\ ~More(ck)
      BY <1>1, <2>4 DEF Inv, StageInv
    <3>2. manifest.status = Status
      BY <3>1
    <3>3. cmd.continue => mode = "full"
      BY <1>1 DEF Inv, MemoryInv
    <3>4. Cap \in Nat
      BY <1>1, TrainingAssumption
    <3>5. ck.stopped \/ (mode = "smoke" /\ Epoch(ck) >= 2)
                     \/ (mode = "full" /\ ~cmd.continue /\ Epoch(ck) >= Cap)
      BY <2>1, <3>1, <3>4 DEF More
    <3> QED
      BY <2>1, <2>3, <3>1, <3>2, <3>3, <3>5 DEF Status, WithinCap
  <2> QED
    BY <2>2, <2>3, <2>4 DEF EndTruthful, WithinCap
<1> QED
  BY <1>1, InvAlways, PTL
=============================================================================
