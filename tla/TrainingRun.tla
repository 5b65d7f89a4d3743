----------------------------- MODULE TrainingRun ------------------------------
(***************************************************************************)
(* The training loops of ppo_training.py and mappo_training.py over the     *)
(* directory of one run: commands start, restore the latest checkpoint,     *)
(* open the environments, train epoch after epoch, commit each and project   *)
(* it to the CSV files, close everything and write run_manifest.json.  The   *)
(* two loops take the same decisions.  A save is atomic here (EpochCheckpoint*)
(* shows that it is), the plateau rule is one outcome (EarlyStop has it),    *)
(* the leaked environments are those of TestIds.                             *)
(***************************************************************************)
EXTENDS Naturals, Sequences

CONSTANTS
    Forecasts,      \* forecasts the service may hand out: the environment
    EvalInterval,   \* epochs between evaluations in full mode: 25
    Cap,            \* the registered number of epochs: 700
    Envs,           \* training environments: 4
    MaxEpochs,      \* bound: no run trains further
    MaxRuns,        \* bound: commands
    MaxTroubles     \* bound: exceptions and kills

VARIABLES
    mode,       \* of the run: smoke or full
    ck,         \* the latest checkpoint
    csv,        \* training_metrics.csv, updates.csv, train_window_eval.csv
    manifest,   \* run_manifest.json
    pc,         \* where the command is
    mem,        \* its memory of what a checkpoint holds
    cmd,        \* its number, --continue-until-converged, forecast, rank to open
    open,       \* environments that are open
    extended,   \* ghost: a command was ever told to continue past the cap
    troubles

ASSUME TrainingAssumption ==
    /\ EvalInterval \in Nat \ {0} /\ Cap \in Nat \ {0} /\ MaxEpochs \in Nat
    /\ MaxRuns \in Nat /\ MaxTroubles \in Nat

vars == <<mode, ck, csv, manifest, pc, mem, cmd, open, extended, troubles>>

None == "none"
(* A row names its epoch, the command that trained it and its environment.  *)
NoCheckpoint == [rows |-> <<>>, updates |-> <<>>, evals |-> <<>>, stopped |-> FALSE,
                 forecast |-> None]
Epoch(m) == Len(m.rows)

Init ==
    /\ mode \in {"smoke", "full"}
    /\ ck = NoCheckpoint /\ mem = NoCheckpoint
    /\ csv = [rows |-> <<>>, updates |-> <<>>, evals |-> <<>>]
    /\ manifest = [status |-> None, epoch |-> 0]
    /\ pc = "idle"
    /\ cmd = [number |-> 0, continue |-> FALSE, forecast |-> None]
    /\ open = {} /\ extended = FALSE /\ troubles = 0

Idle == {"idle", "refused", "raised", "killed", "ended"}
Trouble == troubles < MaxTroubles /\ troubles' = troubles + 1

(* A resume takes the rows of the checkpoint, not those of the CSV files.   *)
RestoreFromCsv ==                                                   \* mutant
    [ck EXCEPT !.rows = csv.rows, !.updates = csv.updates, !.evals = csv.evals]
Restore == ck

(* A checkpoint needs --resume and the forecast it was trained with.        *)
Refused(resume, forecast) == ck # NoCheckpoint /\ (~resume \/ ck.forecast # forecast)

(* What a former command left open is stopped first.                        *)
Start(continue, resume, forecast) ==
    /\ pc \in Idle /\ cmd.number < MaxRuns
    /\ continue => mode = "full"
    /\ open' = {}
    /\ cmd' = [number |-> cmd.number + 1, continue |-> continue, forecast |-> forecast]
    /\ IF Refused(resume, forecast)
       THEN pc' = "refused" /\ UNCHANGED <<mem, extended>>
       ELSE /\ pc' = "opening"
            /\ mem' = [Restore EXCEPT !.forecast = forecast]
            /\ extended' = (extended \/ continue)
    /\ UNCHANGED <<mode, ck, csv, manifest, troubles>>

(* The environments take their TestIDs in any order when the fleet is reset. *)
(* MAPPO's contract probe is never reset and takes none.                     *)
Open ==
    /\ pc = "opening"
    /\ IF open = Envs THEN pc' = "loop" /\ UNCHANGED open
       ELSE (\E e \in Envs \ open : open' = open \cup {e}) /\ UNCHANGED pc
    /\ UNCHANGED <<mode, ck, csv, manifest, mem, cmd, extended, troubles>>

(* Whether there is an epoch to train.                                      *)
MoreThanCap(m) ==                                                   \* mutant
    ~m.stopped /\ (mode = "smoke" => Epoch(m) < 2)
               /\ (mode = "full" /\ ~cmd.continue => Epoch(m) <= Cap)
More(m) ==
    ~m.stopped /\ (mode = "smoke" => Epoch(m) < 2)
               /\ (mode = "full" /\ ~cmd.continue => Epoch(m) < Cap)

Due(e) == mode = "smoke" \/ e % EvalInterval = 0

(* A rollout steps the environments through an epoch.                       *)
Rollout ==
    /\ pc = "loop" /\ More(mem) /\ Epoch(mem) < MaxEpochs
    /\ pc' = "update"
    /\ UNCHANGED <<mode, ck, csv, manifest, mem, cmd, open, extended, troubles>>

Row == [epoch |-> Epoch(mem) + 1, by |-> cmd.number, forecast |-> cmd.forecast]

(* The update of the networks, and the rows of the epoch.                   *)
Train ==
    /\ pc = "update"
    /\ mem' = [mem EXCEPT !.rows = Append(@, Row), !.updates = Append(@, Row)]
    /\ pc' = IF Due(Epoch(mem')) THEN "evaluate" ELSE "save"
    /\ UNCHANGED <<mode, ck, csv, manifest, cmd, open, extended, troubles>>

OpenEvaluation ==
    /\ pc = "evaluate"
    /\ open' = open \cup {"eval"} /\ pc' = "evaluating"
    /\ UNCHANGED <<mode, ck, csv, manifest, mem, cmd, extended, troubles>>

EvaluationRow == [epoch |-> Epoch(mem), by |-> cmd.number]

Evaluated ==
    /\ pc = "evaluating"
    /\ \E stop \in BOOLEAN :
          mem' = [mem EXCEPT !.evals = Append(@, EvaluationRow),
                             !.stopped = stop]
    /\ open' = open \ {"eval"} /\ pc' = "save"
    /\ UNCHANGED <<mode, ck, csv, manifest, cmd, extended, troubles>>

(* save and mark_best, then the three files.                                *)
AfterFilesFirst(at) ==                                              \* mutant
    CASE at = "save" -> "loop" [] at = "rows" -> "updates" [] at = "updates" -> "evals"
      [] at = "evals" -> "save"
After(at) ==
    CASE at = "save" -> "rows" [] at = "rows" -> "updates" [] at = "updates" -> "evals"
      [] at = "evals" -> "loop"

Save ==
    /\ pc = "save"
    /\ ck' = mem /\ pc' = After("save")
    /\ UNCHANGED <<mode, csv, manifest, mem, cmd, open, extended, troubles>>

WriteRows ==
    /\ pc \in DOMAIN csv
    /\ csv' = [csv EXCEPT ![pc] = mem[pc]] /\ pc' = After(pc)
    /\ UNCHANGED <<mode, ck, manifest, mem, cmd, open, extended, troubles>>

LoopEnds ==
    /\ pc = "loop" /\ ~More(mem)
    /\ pc' = "closing"
    /\ UNCHANGED <<mode, ck, csv, manifest, mem, cmd, open, extended, troubles>>

(* The finally clauses, after an exception too; TestIDs are swept in any    *)
(* case.                                                                    *)
Closed == open

Close ==
    /\ pc \in {"closing", "failing"}
    /\ open' = open \ Closed
    /\ pc' = IF pc = "closing" THEN "report" ELSE "raised"
    /\ UNCHANGED <<mode, ck, csv, manifest, mem, cmd, extended, troubles>>

Status == IF ck.stopped THEN "early_stopped" ELSE IF Epoch(ck) >= Cap THEN "cap_reached"
          ELSE "incomplete"

WriteManifest ==
    /\ pc = "report"
    /\ IF ck = NoCheckpoint THEN pc' = "raised" /\ UNCHANGED manifest
       ELSE manifest' = [status |-> Status, epoch |-> Epoch(ck)] /\ pc' = "ended"
    /\ UNCHANGED <<mode, ck, csv, mem, cmd, open, extended, troubles>>

(* A request, an evaluation, a save or a file fails and raises.             *)
Fails ==
    /\ pc \in {"opening", "loop", "update", "evaluate", "evaluating", "save"} \cup DOMAIN csv
    /\ Trouble /\ pc' = "failing"
    /\ UNCHANGED <<mode, ck, csv, manifest, mem, cmd, open, extended>>

Kill ==
    /\ pc \notin Idle /\ Trouble /\ pc' = "killed"
    /\ UNCHANGED <<mode, ck, csv, manifest, mem, cmd, open, extended>>

Next ==
    \/ \E continue, resume \in BOOLEAN, forecast \in Forecasts : Start(continue, resume, forecast)
    \/ Open \/ Rollout \/ Train \/ OpenEvaluation \/ Evaluated \/ Save \/ WriteRows \/ LoopEnds
    \/ Close \/ WriteManifest \/ Fails \/ Kill

Spec == Init /\ [][Next]_vars

-----------------------------------------------------------------------------
\* One row for each epoch, in order, and one evaluation for each that was due by epoch e.
Exact(k, e) ==
    /\ \A i \in 1 .. Epoch(k) : k.rows[i].epoch = i /\ k.rows[i].forecast = k.forecast
    /\ \A i \in 2 .. Epoch(k) : k.rows[i - 1].by <= k.rows[i].by
    /\ k.updates = k.rows
    /\ { k.evals[i].epoch : i \in 1 .. Len(k.evals) } = { d \in 1 .. e : Due(d) }
    /\ \A i \in 2 .. Len(k.evals) : k.evals[i - 1].epoch < k.evals[i].epoch

(* A checkpoint holds one row for each epoch up to its own and one           *)
(* evaluation for each that was due, trained in the order of the commands    *)
(* and in one environment, however often epochs were lost and repeated.      *)
RowsExact == Exact(ck, Epoch(ck))

Prefix(s, t) == Len(s) <= Len(t) /\ \A i \in 1 .. Len(s) : s[i] = t[i]

(* "The checkpoint transaction owns progress.  CSV/W&B are projections of    *)
(* this state": a file never shows an epoch that is not committed, lacks     *)
(* an epoch only if the command that committed it was killed or raised, and  *)
(* lacks none that was trained by a command that ended.                      *)
CsvProjection ==
    /\ \A f \in DOMAIN csv : Prefix(csv[f], ck[f])
    /\ Len(csv.rows) + troubles + (IF pc \in DOMAIN csv THEN 1 ELSE 0) >= Epoch(ck)
    /\ pc = "ended" /\ ck # NoCheckpoint /\ ck.rows[Epoch(ck)].by = cmd.number =>
          csv = [rows |-> ck.rows, updates |-> ck.updates, evals |-> ck.evals]

(* A command that ends says what the checkpoint says, and ended for a reason: *)
(* a full run at the plateau or the cap, a continued one at the plateau, a    *)
(* smoke run after two epochs; none goes past the cap unless told to.  No     *)
(* environment stays open after a command that was not killed.                *)
EndTruthful ==
    /\ pc = "ended" =>
          /\ manifest = [status |-> Status, epoch |-> Epoch(ck)]
          /\ mode = "full" => manifest.status # "incomplete"
          /\ cmd.continue => manifest.status = "early_stopped"
          /\ mode = "smoke" => ck.stopped \/ Epoch(ck) = 2
    /\ mode = "full" /\ ~extended => Epoch(ck) <= Cap
    /\ pc \in {"raised", "ended"} => open = {}
=============================================================================
