--------------------------- MODULE CapacityLeases ---------------------------
(***************************************************************************)
(* Worker capacity shared by processes on one or more hosts (leases.py).    *)
(*                                                                         *)
(* Every operation reads, prunes and rewrites worker_leases.json under one   *)
(* file lock, so an operation is one step; a process may die between any two *)
(* and an operation may raise.  A process stands for its pid: when it is     *)
(* down, an unrelated program may get the pid.  Time passes in ticks (of     *)
(* 30 s), and each host has a clock offset.                                  *)
(***************************************************************************)
EXTENDS Integers, FiniteSets, Functions

CONSTANTS
    Procs,          \* processes, each with its pid and its host
    LeaseIds,       \* lease identifiers (uuid4)
    NoLease,        \* no lease held
    Host,           \* [Procs -> hosts]
    Clock,          \* [hosts -> Nat]: how far the clock of a host is ahead
    Trainer,        \* the processes that train; the others evaluate
    TrainSlots,     \* slots of a training lease (5)
    EvaluateSlots,  \* slots of an evaluation lease (1)
    Declared,       \* [Procs -> Nat \ {0}]: --worker-capacity of a process
    StaleAfter,     \* heartbeat_timeout in ticks
    MaxBeatGap,     \* most ticks between two beats of a healthy thread
    BeatsFail,      \* a heartbeat may raise, which ends its thread
    Unreadable      \* a read of worker_leases.json may fail

Hosts == {Host[p] : p \in Procs}

ASSUME LeaseAssumption ==
    /\ NoLease \notin LeaseIds
    /\ IsFiniteSet(Procs)
    /\ IsFiniteSet(LeaseIds)
    /\ Trainer \subseteq Procs
    /\ TrainSlots \in Nat
    /\ EvaluateSlots \in Nat
    /\ Declared \in [Procs -> Nat \ {0}]
    /\ StaleAfter \in Nat
    /\ MaxBeatGap \in Nat
    /\ Clock \in [Hosts -> Nat]
    /\ BeatsFail \in BOOLEAN
    /\ Unreadable \in BOOLEAN

\* Without it a healthy owner on another host may look stale.
ASSUME ClockAssumption ==
    \A g, h \in Hosts : MaxBeatGap + Clock[g] - Clock[h] <= StaleAfter

VARIABLES
    table,      \* worker_leases.json: its leases by identifier
    capacity,   \* and its capacity; 0: there is no file
    status,     \* what each process is doing
    held,       \* the lease a process believes it holds
    beating     \* the heartbeat thread of a process is alive

vars == <<table, capacity, status, held, beating>>

\* owner stands for the pid, the hostname and the task of a record; age is the
\* time since its heartbeat_epoch.
Record == [owner : Procs, age : Nat]

NoLeases == [l \in {} |-> l]

\* down: no process has the pid; unrelated: another program has it.
Statuses == {"down", "unrelated", "starting", "waiting", "holding", "ending"}

Init ==
    /\ table = NoLeases
    /\ capacity = 0
    /\ status = [p \in Procs |-> "down"]
    /\ held = [p \in Procs |-> NoLease]
    /\ beating = [p \in Procs |-> FALSE]

SlotsOf(p) == IF p \in Trainer THEN TrainSlots ELSE EvaluateSlots

\* The slots the leases ids of table t take.
Used(t, ids) ==
      TrainSlots * Cardinality({l \in ids : t[l].owner \in Trainer})
    + EvaluateSlots * Cardinality({l \in ids : t[l].owner \notin Trainer})

PidAlive(p) == status[p] # "down"

\* now - heartbeat_epoch, by the clock of p and by that of the owner.
AgeSeen(p, r) == r.age + Clock[Host[p]] - Clock[Host[r.owner]]

\* Mutant: every owner is judged by its heartbeat.
StaleByAge(p, r) == AgeSeen(p, r) > StaleAfter

\* Process p takes an owner on its own host for gone when its pid is free, one
\* on another host when its heartbeat is old.
Stale(p, r) ==
    IF Host[r.owner] = Host[p] THEN ~PidAlive(r.owner)
    ELSE AgeSeen(p, r) > StaleAfter

Pruned(p, t) == Restrict(t, {l \in DOMAIN t : ~Stale(p, t[l])})

CapacityAgrees(p) == capacity \in {0, Declared[p]}

\* What _read may return to p: nothing when it raises, and an empty table when
\* the file cannot be read or parsed.
Read(p) ==
    {t \in {table} : CapacityAgrees(p)} \cup {t \in {NoLeases} : Unreadable}

\* A new identifier is none that a record or a process refers to.
FreshIds == {l \in LeaseIds \ DOMAIN table : \A p \in Procs : held[p] # l}

-----------------------------------------------------------------------------

\* A command starts; before anything else it calls cleanup_stale.
Start(p) ==
    /\ status[p] = "down"
    /\ status' = [status EXCEPT ![p] = "starting"]
    /\ UNCHANGED <<table, capacity, held, beating>>

CleanupStale(p) ==
    /\ status[p] = "starting"
    /\ \E seen \in Read(p) : table' = Pruned(p, seen)
    /\ capacity' = Declared[p]
    /\ status' = [status EXCEPT ![p] = "waiting"]
    /\ UNCHANGED <<held, beating>>

\* Mutant: the slots asked for are not counted.
FitsBefore(p, t) == Used(t, DOMAIN t) <= Declared[p]

Fits(p, t) == Used(t, DOMAIN t) + SlotsOf(p) <= Declared[p]

Added(t, l, p) ==
    [k \in DOMAIN t \cup {l} |-> IF k = l THEN [owner |-> p, age |-> 0] ELSE t[k]]

\* acquire writes a record for p under identifier l.  The audit line after the
\* write may fail: acquire then raises although the record is in the file.
Acquire(p, l) ==
    /\ status[p] = "waiting"
    /\ l \in FreshIds
    /\ \E seen \in Read(p) :
          /\ Fits(p, Pruned(p, seen))
          /\ table' = Added(Pruned(p, seen), l, p)
    /\ capacity' = Declared[p]
    /\ \/ /\ status' = [status EXCEPT ![p] = "holding"]
          /\ held' = [held EXCEPT ![p] = l]
          /\ beating' = [beating EXCEPT ![p] = TRUE]
       \/ /\ status' = [status EXCEPT ![p] = "ending"]
          /\ UNCHANGED <<held, beating>>

\* No room: acquire tries again in 2 s or, past the deadline, raises.
AcquireFindsNoRoom(p) ==
    /\ status[p] = "waiting"
    /\ \E seen \in Read(p) :
          /\ ~Fits(p, Pruned(p, seen))
          /\ table' = Pruned(p, seen)
    /\ capacity' = Declared[p]
    /\ status' \in {status, [status EXCEPT ![p] = "ending"]}
    /\ UNCHANGED <<held, beating>>

\* "Worker capacity changed while leases exist"
CapacityDiffers(p) ==
    /\ status[p] \in {"starting", "waiting"}
    /\ ~CapacityAgrees(p)
    /\ status' = [status EXCEPT ![p] = "ending"]
    /\ UNCHANGED <<table, capacity, held, beating>>

\* cleanup_stale or acquire raises before it has written: the lock timed out or
\* the audit line of a stale lease failed.
RaisesBeforeWrite(p) ==
    /\ status[p] \in {"starting", "waiting"}
    /\ status' = [status EXCEPT ![p] = "ending"]
    /\ UNCHANGED <<table, capacity, held, beating>>

Heartbeat(p) ==
    /\ status[p] = "holding"
    /\ beating[p]
    /\ CapacityAgrees(p)
    /\ held[p] \in DOMAIN table
    /\ table' = [table EXCEPT ![held[p]].age = 0]
    /\ UNCHANGED <<capacity, status, held, beating>>

\* The first exception ends the thread, and nothing starts it again: the lock
\* timed out, or the record is not in what was read.
HeartbeatRaises(p) ==
    /\ status[p] = "holding"
    /\ beating[p]
    /\ \/ BeatsFail
       \/ ~CapacityAgrees(p)
       \/ \E seen \in Read(p) : held[p] \notin DOMAIN seen
    /\ beating' = [beating EXCEPT ![p] = FALSE]
    /\ UNCHANGED <<table, capacity, status, held>>

\* The end of hold: the thread is stopped and the lease popped.
Release(p) ==
    /\ status[p] = "holding"
    /\ \E seen \in Read(p) : table' = Restrict(seen, DOMAIN seen \ {held[p]})
    /\ capacity' = Declared[p]
    /\ status' = [status EXCEPT ![p] = "ending"]
    /\ held' = [held EXCEPT ![p] = NoLease]
    /\ beating' = [beating EXCEPT ![p] = FALSE]

\* release raises (the lock timed out, the capacity differs): its record stays.
ReleaseRaises(p) ==
    /\ status[p] = "holding"
    /\ status' = [status EXCEPT ![p] = "ending"]
    /\ held' = [held EXCEPT ![p] = NoLease]
    /\ beating' = [beating EXCEPT ![p] = FALSE]
    /\ UNCHANGED <<table, capacity>>

\* The process exits, or dies wherever it is.
Exit(p) ==
    /\ PidAlive(p)
    /\ status' = [status EXCEPT ![p] = "down"]
    /\ held' = [held EXCEPT ![p] = NoLease]
    /\ beating' = [beating EXCEPT ![p] = FALSE]
    /\ UNCHANGED <<table, capacity>>

\* An unrelated program gets the pid.
PidReused(p) ==
    /\ status[p] = "down"
    /\ status' = [status EXCEPT ![p] = "unrelated"]
    /\ UNCHANGED <<table, capacity, held, beating>>

\* An age beyond which every observer takes the record for stale.
Ancient(a) == \A g, h \in Hosts : a + Clock[g] - Clock[h] > StaleAfter

\* Time passes, never beyond the next beat of a thread that is alive.  Ages are
\* cut off once they are ancient.
Tick ==
    /\ \A p \in Procs : beating[p] /\ held[p] \in DOMAIN table
                            => table[held[p]].age < MaxBeatGap
    /\ table' = [l \in DOMAIN table |->
                    IF Ancient(table[l].age) THEN table[l]
                    ELSE [table[l] EXCEPT !.age = @ + 1]]
    /\ UNCHANGED <<capacity, status, held, beating>>

Step(p) ==
    \/ Start(p)
    \/ CleanupStale(p)
    \/ \E l \in LeaseIds : Acquire(p, l)
    \/ AcquireFindsNoRoom(p)
    \/ CapacityDiffers(p)
    \/ RaisesBeforeWrite(p)
    \/ Heartbeat(p)
    \/ HeartbeatRaises(p)
    \/ Release(p)
    \/ ReleaseRaises(p)
    \/ Exit(p)
    \/ PidReused(p)

Next == Tick \/ \E p \in Procs : Step(p)

Spec == Init /\ [][Next]_vars

-----------------------------------------------------------------------------

\* Only a process inside hold has a lease and a heartbeat thread.
TypeOK ==
    /\ DOMAIN table \subseteq LeaseIds
    /\ table \in [DOMAIN table -> Record]
    /\ capacity \in Nat
    /\ status \in [Procs -> Statuses]
    /\ held \in [Procs -> LeaseIds \cup {NoLease}]
    /\ beating \in [Procs -> BOOLEAN]
    /\ \A p \in Procs : status[p] = "holding" <=> held[p] # NoLease
    /\ \A p \in Procs : beating[p] => status[p] = "holding"

\* The table never promises more slots than its capacity, whatever fails.
WithinCapacity == Used(table, DOMAIN table) <= capacity

\* A training job reserves its slots for its whole lifetime: the record of a
\* process inside hold is in the table, under its own name.
HolderRecorded ==
    \A p \in Procs : status[p] = "holding" =>
        held[p] \in DOMAIN table /\ table[held[p]].owner = p

Holding == {p \in Procs : status[p] = "holding"}

\* What the processes inside hold really use never exceeds the capacity.
NoOvercommit ==
      TrainSlots * Cardinality(Holding \cap Trainer)
    + EvaluateSlots * Cardinality(Holding \ Trainer) <= capacity

=============================================================================
