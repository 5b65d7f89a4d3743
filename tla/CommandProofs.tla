---------------------------- MODULE CommandProofs ----------------------------
(***************************************************************************)
(* Proofs about the commands that run trainings and about what the runs    *)
(* they start share at the service.  The lease table, for any processes,   *)
(* hosts, capacities and slot counts, never promises more than its         *)
(* capacity, whatever fails; that its holders are the processes inside     *)
(* hold needs readable files and, across hosts, heartbeats that do not     *)
(* raise.  The TestIDs of a run, for any owners and identifiers, are       *)
(* recorded, swept only under its lock, and bounded through retries.  Then *)
(* the two commands: train, for any caps, intervals and numbers of retries *)
(* and any failures and deaths, and suite, for any tasks, cases and        *)
(* algorithms.                                                             *)
(***************************************************************************)
EXTENDS CapacityLeases, TestIds, RunSupervisor, SuiteScheduler,
        FiniteSetTheorems, TLAPS

\* Nobody who is inside hold shares a lease with another process.
HeldUnshared ==
    \A p, q \in Procs : held[p] # NoLease /\ held[p] = held[q] => p = q

Inv == TypeOK /\ HeldUnshared /\ WithinCapacity

\* A process inside hold uses the capacity of the file, and the record of a
\* process on another host was refreshed in time.
HolderFresh(p) ==
    /\ capacity = Declared[p]
    /\ BeatsFail \/ (beating[p] /\ table[held[p]].age <= MaxBeatGap)

HoldersFresh == \A p \in Procs : status[p] = "holding" => HolderFresh(p)

SafeInv == Inv /\ HolderRecorded /\ HoldersFresh

-----------------------------------------------------------------------------
(* Slots *)

\* Products of naturals, for the provers.
LEMMA ProductMonotone ==
    ASSUME NEW a \in Nat, NEW b \in Nat, NEW c \in Nat, b <= c
    PROVE  a * b \in Nat /\ a * c \in Nat /\ a * b <= a * c
BY Z3

LEMMA ProductSuccessor ==
    ASSUME NEW a \in Nat, NEW b \in Nat
    PROVE  a * (b + 1) = a * b + a
BY Z3

\* The slots of a finite set of leases are a natural number.
LEMMA UsedType ==
    ASSUME NEW t, NEW ids, IsFiniteSet(ids)
    PROVE  Used(t, ids) \in Nat
<1> DEFINE A == {l \in ids : t[l].owner \in Trainer}
           B == {l \in ids : t[l].owner \notin Trainer}
<1>1. Cardinality(A) \in Nat /\ Cardinality(B) \in Nat
  <2>1. IsFiniteSet(A) /\ IsFiniteSet(B)
    BY FS_Subset
  <2> QED
    BY <2>1, FS_CardinalityType
<1> HIDE DEF A, B
<1>2. TrainSlots * Cardinality(A) \in Nat /\ EvaluateSlots * Cardinality(B) \in Nat
  BY <1>1, ProductMonotone, LeaseAssumption
<1>3. Used(t, ids) = TrainSlots * Cardinality(A) + EvaluateSlots * Cardinality(B)
  BY DEF Used, A, B
<1> QED
  BY <1>2, <1>3

\* Fewer leases take no more slots.
LEMMA UsedMonotone ==
    ASSUME NEW t, NEW u, NEW T, IsFiniteSet(T), NEW S \in SUBSET T,
           \A l \in S : u[l].owner = t[l].owner
    PROVE  Used(u, S) <= Used(t, T)
<1> DEFINE A(v, ids) == {l \in ids : v[l].owner \in Trainer}
           B(v, ids) == {l \in ids : v[l].owner \notin Trainer}
<1>1. /\ A(t, T) \in SUBSET T /\ B(t, T) \in SUBSET T
      /\ A(u, S) \in SUBSET A(t, T) /\ B(u, S) \in SUBSET B(t, T)
  OBVIOUS
<1>2. Used(t, T) = TrainSlots * Cardinality(A(t, T))
                 + EvaluateSlots * Cardinality(B(t, T))
  BY DEF Used
<1>3. Used(u, S) = TrainSlots * Cardinality(A(u, S))
                 + EvaluateSlots * Cardinality(B(u, S))
  BY DEF Used
<1> HIDE DEF A, B
<1>4. IsFiniteSet(A(t, T)) /\ IsFiniteSet(B(t, T))
  BY <1>1, FS_Subset
<1>5. /\ IsFiniteSet(A(u, S)) /\ Cardinality(A(u, S)) <= Cardinality(A(t, T))
      /\ IsFiniteSet(B(u, S)) /\ Cardinality(B(u, S)) <= Cardinality(B(t, T))
  BY <1>1, <1>4, FS_Subset
<1>6. /\ Cardinality(A(t, T)) \in Nat /\ Cardinality(B(t, T)) \in Nat
      /\ Cardinality(A(u, S)) \in Nat /\ Cardinality(B(u, S)) \in Nat
  BY <1>4, <1>5, FS_CardinalityType
<1>7. /\ TrainSlots * Cardinality(A(t, T)) \in Nat
      /\ TrainSlots * Cardinality(A(u, S)) \in Nat
      /\ TrainSlots * Cardinality(A(u, S)) <= TrainSlots * Cardinality(A(t, T))
  BY <1>5, <1>6, ProductMonotone, LeaseAssumption
<1>8. /\ EvaluateSlots * Cardinality(B(t, T)) \in Nat
      /\ EvaluateSlots * Cardinality(B(u, S)) \in Nat
      /\ EvaluateSlots * Cardinality(B(u, S)) <= EvaluateSlots * Cardinality(B(t, T))
  BY <1>5, <1>6, ProductMonotone, LeaseAssumption
<1> QED
  BY <1>2, <1>3, <1>7, <1>8

LEMMA UsedEmpty == Used(NoLeases, DOMAIN NoLeases) = 0
<1>1. DOMAIN NoLeases = {}
  BY DEF NoLeases
<1>2. /\ {l \in {} : NoLeases[l].owner \in Trainer} = {}
      /\ {l \in {} : NoLeases[l].owner \notin Trainer} = {}
  OBVIOUS
<1>3. TrainSlots * 0 = 0 /\ EvaluateSlots * 0 = 0
  BY LeaseAssumption, Z3
<1> QED
  BY <1>1, <1>2, <1>3, FS_EmptySet DEF Used

\* A new lease of p takes the slots of p.
LEMMA UsedAdded ==
    ASSUME NEW t, IsFiniteSet(DOMAIN t), NEW l, l \notin DOMAIN t, NEW p \in Procs
    PROVE  Used(Added(t, l, p), DOMAIN Added(t, l, p))
             = Used(t, DOMAIN t) + SlotsOf(p)
<1> DEFINE u == Added(t, l, p)
           A == {k \in DOMAIN t : t[k].owner \in Trainer}
           B == {k \in DOMAIN t : t[k].owner \notin Trainer}
           C == {k \in DOMAIN u : u[k].owner \in Trainer}
           D == {k \in DOMAIN u : u[k].owner \notin Trainer}
<1>1. /\ DOMAIN u = DOMAIN t \cup {l}
      /\ u[l].owner = p
      /\ \A k \in DOMAIN t : u[k] = t[k]
  BY DEF Added
<1>2. IsFiniteSet(A) /\ IsFiniteSet(B)
  BY FS_Subset
<1>3. Cardinality(A) \in Nat /\ Cardinality(B) \in Nat
  BY <1>2, FS_CardinalityType
<1>4. /\ Used(t, DOMAIN t) = TrainSlots * Cardinality(A) + EvaluateSlots * Cardinality(B)
      /\ Used(u, DOMAIN u) = TrainSlots * Cardinality(C) + EvaluateSlots * Cardinality(D)
  BY DEF Used
<1>5. l \notin A /\ l \notin B
  OBVIOUS
<1>6. CASE p \in Trainer
  <2>1. C = A \cup {l} /\ D = B
    BY <1>1, <1>6
  <2> HIDE DEF A, B, C, D, u
  <2>2. Cardinality(C) = Cardinality(A) + 1 /\ Cardinality(D) = Cardinality(B)
    BY <1>2, <1>5, <2>1, FS_AddElement
  <2>3. TrainSlots * (Cardinality(A) + 1) = TrainSlots * Cardinality(A) + TrainSlots
    BY <1>3, ProductSuccessor, LeaseAssumption
  <2>4. /\ TrainSlots * Cardinality(A) \in Nat
        /\ EvaluateSlots * Cardinality(B) \in Nat
    BY <1>3, ProductMonotone, LeaseAssumption
  <2>5. Used(u, DOMAIN u) = Used(t, DOMAIN t) + SlotsOf(p)
    BY <1>4, <1>6, <2>2, <2>3, <2>4, LeaseAssumption DEF SlotsOf
  <2> QED
    BY <2>5 DEF u
<1>7. CASE p \notin Trainer
  <2>1. C = A /\ D = B \cup {l}
    BY <1>1, <1>7
  <2> HIDE DEF A, B, C, D, u
  <2>2. Cardinality(C) = Cardinality(A) /\ Cardinality(D) = Cardinality(B) + 1
    BY <1>2, <1>5, <2>1, FS_AddElement
  <2>3. EvaluateSlots * (Cardinality(B) + 1)
          = EvaluateSlots * Cardinality(B) + EvaluateSlots
    BY <1>3, ProductSuccessor, LeaseAssumption
  <2>4. /\ TrainSlots * Cardinality(A) \in Nat
        /\ EvaluateSlots * Cardinality(B) \in Nat
    BY <1>3, ProductMonotone, LeaseAssumption
  <2>5. Used(u, DOMAIN u) = Used(t, DOMAIN t) + SlotsOf(p)
    BY <1>4, <1>7, <2>2, <2>3, <2>4, LeaseAssumption DEF SlotsOf
  <2> QED
    BY <2>5 DEF u
<1> QED
  BY <1>6, <1>7

-----------------------------------------------------------------------------
(* The table and the processes *)

LEMMA TableFinite ==
    ASSUME TypeOK
    PROVE  IsFiniteSet(DOMAIN table)
<1>1. DOMAIN table \in SUBSET LeaseIds
  BY DEF TypeOK
<1> QED
  BY <1>1, FS_Subset, LeaseAssumption

\* Whatever part of what it read process p writes back, it is a table within the
\* capacity that p declared.
LEMMA WrittenBack ==
    ASSUME Inv, NEW p \in Procs, NEW seen \in Read(p),
           NEW S \in SUBSET DOMAIN seen, NEW u, u = Restrict(seen, S)
    PROVE  /\ DOMAIN u = S /\ S \subseteq LeaseIds /\ IsFiniteSet(S)
           /\ u \in [DOMAIN u -> Record]
           /\ Used(u, DOMAIN u) \in Nat
           /\ Used(u, DOMAIN u) <= Declared[p]
           /\ \A l \in S : l \in DOMAIN table /\ u[l] = table[l]
<1>1. DOMAIN u = S /\ \A l \in S : u[l] = seen[l]
  BY DEF Restrict
<1>2. Declared[p] \in Nat
  BY LeaseAssumption
<1>3. CASE seen = table /\ CapacityAgrees(p)
  <2>1. IsFiniteSet(DOMAIN table) /\ DOMAIN table \subseteq LeaseIds
        /\ table \in [DOMAIN table -> Record]
    BY TableFinite DEF Inv, TypeOK
  <2>2. IsFiniteSet(S) /\ S \subseteq LeaseIds
    BY <1>3, <2>1, FS_Subset
  <2>3. Used(u, S) <= Used(table, DOMAIN table)
    BY <1>1, <1>3, <2>1, UsedMonotone
  <2>4. Used(u, S) \in Nat /\ Used(table, DOMAIN table) \in Nat
    BY <2>1, <2>2, UsedType
  <2>5. Used(table, DOMAIN table) <= Declared[p]
    BY <1>2, <1>3, <2>4 DEF Inv, WithinCapacity, CapacityAgrees
  <2>6. u \in [S -> Record]
    BY <1>1, <1>3, <2>1 DEF Restrict
  <2> QED
    BY <1>1, <1>2, <1>3, <2>2, <2>3, <2>4, <2>5, <2>6
<1>4. CASE seen = NoLeases
  <2>1. S = {} /\ u = NoLeases
    BY <1>4 DEF NoLeases, Restrict
  <2>2. u \in [S -> Record]
    BY <2>1 DEF NoLeases
  <2> QED
    BY <1>1, <1>2, <2>1, <2>2, UsedEmpty, FS_EmptySet
<1> QED
  BY <1>3, <1>4 DEF Read

LEMMA PrunedBack ==
    ASSUME Inv, NEW p \in Procs, NEW seen \in Read(p)
    PROVE  \E S \in SUBSET DOMAIN seen :
              Pruned(p, seen) = Restrict(seen, S)
BY DEF Pruned

\* The type and capacity invariants depend on the table and on the capacity only
\* through what a step writes.
LEMMA InvStep ==
    ASSUME Inv, [Next]_vars
    PROVE  Inv'
<1> USE DEF Inv
<1>0. ASSUME NEW t, t \in [DOMAIN t -> Record], NEW l, NEW p \in Procs
      PROVE  Added(t, l, p) \in [DOMAIN t \cup {l} -> Record]
  BY <1>0 DEF Added, Record
<1>1. ASSUME NEW p \in Procs, CleanupStale(p)
      PROVE  Inv'
  <2>1. PICK seen \in Read(p) : table' = Pruned(p, seen)
    BY <1>1 DEF CleanupStale
  <2>2. PICK S \in SUBSET DOMAIN seen : table' = Restrict(seen, S)
    BY <2>1, PrunedBack
  <2>3. /\ DOMAIN table' \subseteq LeaseIds
        /\ table' \in [DOMAIN table' -> Record]
        /\ Used(table', DOMAIN table') <= Declared[p]
    BY <2>2, WrittenBack
  <2>4. WithinCapacity'
    BY <1>1, <2>3 DEF CleanupStale, WithinCapacity, Used
  <2>5. TypeOK'
    BY <1>1, <2>3, LeaseAssumption DEF CleanupStale, TypeOK, Statuses
  <2>6. HeldUnshared'
    BY <1>1 DEF CleanupStale, HeldUnshared
  <2> QED
    BY <2>4, <2>5, <2>6
<1>2. ASSUME NEW p \in Procs, NEW l \in LeaseIds, Acquire(p, l)
      PROVE  Inv'
  <2>1. PICK seen \in Read(p) :
          /\ Fits(p, Pruned(p, seen))
          /\ table' = Added(Pruned(p, seen), l, p)
    BY <1>2 DEF Acquire
  <2>2. PICK S \in SUBSET DOMAIN seen : Pruned(p, seen) = Restrict(seen, S)
    BY PrunedBack
  <2> DEFINE t == Pruned(p, seen)
  <2>3. /\ DOMAIN t = S /\ S \subseteq LeaseIds /\ IsFiniteSet(S)
        /\ t \in [DOMAIN t -> Record]
        /\ \A k \in S : k \in DOMAIN table
    BY <2>2, WrittenBack
  <2>4. l \notin DOMAIN t /\ \A q \in Procs : held[q] # l
    BY <1>2, <2>3 DEF Acquire, FreshIds
  <2> HIDE DEF t
  <2>5. Used(table', DOMAIN table') = Used(t, DOMAIN t) + SlotsOf(p)
    BY <2>1, <2>3, <2>4, UsedAdded DEF t
  <2>6. WithinCapacity'
    <3>1. Used(table', DOMAIN table') <= Declared[p]
      BY <2>1, <2>5 DEF Fits, t
    <3> QED
      BY <1>2, <3>1 DEF Acquire, WithinCapacity, Used
  <2>7. table' \in [DOMAIN t \cup {l} -> Record] /\ DOMAIN table' = DOMAIN t \cup {l}
    BY <1>0, <2>1, <2>3 DEF t, Added
  <2>8. TypeOK'
    <3>1. DOMAIN table' \subseteq LeaseIds /\ table' \in [DOMAIN table' -> Record]
      BY <2>3, <2>7
    <3>2. capacity' \in Nat
      BY <1>2, LeaseAssumption DEF Acquire
    <3>3. CASE /\ status' = [status EXCEPT ![p] = "holding"]
               /\ held' = [held EXCEPT ![p] = l]
               /\ beating' = [beating EXCEPT ![p] = TRUE]
      BY <3>1, <3>2, <3>3, LeaseAssumption DEF TypeOK, Statuses
    <3>4. CASE status' = [status EXCEPT ![p] = "ending"] /\ UNCHANGED <<held, beating>>
      <4>1. status[p] = "waiting"
        BY <1>2 DEF Acquire
      <4> QED
        BY <3>1, <3>2, <3>4, <4>1 DEF TypeOK, Statuses
    <3> QED
      BY <1>2, <3>3, <3>4 DEF Acquire
  <2>9. HeldUnshared'
    BY <1>2, <2>4 DEF Acquire, HeldUnshared, TypeOK
  <2> QED
    BY <2>6, <2>8, <2>9
<1>3. ASSUME NEW p \in Procs, AcquireFindsNoRoom(p)
      PROVE  Inv'
  <2>1. PICK seen \in Read(p) : table' = Pruned(p, seen)
    BY <1>3 DEF AcquireFindsNoRoom
  <2>2. PICK S \in SUBSET DOMAIN seen : table' = Restrict(seen, S)
    BY <2>1, PrunedBack
  <2>3. /\ DOMAIN table' \subseteq LeaseIds
        /\ table' \in [DOMAIN table' -> Record]
        /\ Used(table', DOMAIN table') <= Declared[p]
    BY <2>2, WrittenBack
  <2>4. WithinCapacity'
    BY <1>3, <2>3 DEF AcquireFindsNoRoom, WithinCapacity, Used
  <2>5. TypeOK'
    BY <1>3, <2>3, LeaseAssumption DEF AcquireFindsNoRoom, TypeOK, Statuses
  <2>6. HeldUnshared'
    BY <1>3 DEF AcquireFindsNoRoom, HeldUnshared
  <2> QED
    BY <2>4, <2>5, <2>6
<1>4. ASSUME NEW p \in Procs, Release(p)
      PROVE  Inv'
  <2>1. PICK seen \in Read(p) :
          table' = Restrict(seen, DOMAIN seen \ {held[p]})
    BY <1>4 DEF Release
  <2>2. DOMAIN seen \ {held[p]} \in SUBSET DOMAIN seen
    OBVIOUS
  <2>3. /\ DOMAIN table' \subseteq LeaseIds
        /\ table' \in [DOMAIN table' -> Record]
        /\ Used(table', DOMAIN table') <= Declared[p]
    BY <2>1, <2>2, WrittenBack
  <2>4. WithinCapacity'
    BY <1>4, <2>3 DEF Release, WithinCapacity, Used
  <2>5. TypeOK'
    BY <1>4, <2>3, LeaseAssumption DEF Release, TypeOK, Statuses
  <2>6. HeldUnshared'
    BY <1>4 DEF Release, HeldUnshared, TypeOK
  <2> QED
    BY <2>4, <2>5, <2>6
<1>5. ASSUME DOMAIN table' = DOMAIN table,
             \A l \in DOMAIN table : table'[l].owner = table[l].owner,
             UNCHANGED capacity
      PROVE  WithinCapacity'
  <2>1. Used(table', DOMAIN table') <= Used(table, DOMAIN table)
    BY <1>5, TableFinite, UsedMonotone
  <2>2. Used(table', DOMAIN table') \in Nat /\ Used(table, DOMAIN table) \in Nat
    BY <1>5, TableFinite, UsedType
  <2>3. Used(table', DOMAIN table') <= capacity
    BY <2>1, <2>2 DEF WithinCapacity, TypeOK
  <2> QED
    BY <1>5, <2>3 DEF WithinCapacity, Used
<1>6. ASSUME NEW p \in Procs, Heartbeat(p)
      PROVE  Inv'
  <2>1. /\ DOMAIN table' = DOMAIN table
        /\ table' \in [DOMAIN table -> Record]
        /\ \A l \in DOMAIN table : table'[l].owner = table[l].owner
    BY <1>6 DEF Heartbeat, TypeOK, Record
  <2>2. TypeOK' /\ HeldUnshared'
    BY <1>6, <2>1 DEF Heartbeat, TypeOK, HeldUnshared
  <2> QED
    BY <1>5, <1>6, <2>1, <2>2 DEF Heartbeat
<1>7. CASE Tick
  <2>1. /\ DOMAIN table' = DOMAIN table
        /\ table' \in [DOMAIN table -> Record]
        /\ \A l \in DOMAIN table : table'[l].owner = table[l].owner
    BY <1>7 DEF Tick, TypeOK, Record
  <2>2. TypeOK' /\ HeldUnshared'
    BY <1>7, <2>1 DEF Tick, TypeOK, HeldUnshared
  <2> QED
    BY <1>5, <1>7, <2>1, <2>2 DEF Tick
<1>8. ASSUME UNCHANGED <<table, capacity>>
      PROVE  WithinCapacity'
  BY <1>8 DEF WithinCapacity, Used
<1>9. ASSUME NEW p \in Procs,
             \/ Start(p) \/ CapacityDiffers(p) \/ RaisesBeforeWrite(p)
             \/ PidReused(p)
      PROVE  Inv'
  <2>1. UNCHANGED <<table, capacity, held>>
    BY <1>9 DEF Start, CapacityDiffers, RaisesBeforeWrite, PidReused
  <2>2. TypeOK'
    BY <1>9 DEF Start, CapacityDiffers, RaisesBeforeWrite, PidReused, TypeOK,
                Statuses
  <2> QED
    BY <1>8, <2>1, <2>2 DEF HeldUnshared
<1>10. ASSUME NEW p \in Procs, HeartbeatRaises(p)
       PROVE  Inv'
  BY <1>8, <1>10 DEF HeartbeatRaises, TypeOK, HeldUnshared
<1>11. ASSUME NEW p \in Procs, ReleaseRaises(p) \/ Exit(p)
       PROVE  Inv'
  <2>1. /\ UNCHANGED <<table, capacity>>
        /\ held' = [held EXCEPT ![p] = NoLease]
        /\ beating' = [beating EXCEPT ![p] = FALSE]
        /\ \E s \in Statuses \ {"holding"} : status' = [status EXCEPT ![p] = s]
    BY <1>11 DEF ReleaseRaises, Exit, Statuses
  <2>2. TypeOK'
    BY <2>1 DEF TypeOK
  <2>3. HeldUnshared'
    BY <2>1 DEF TypeOK, HeldUnshared
  <2> QED
    BY <1>8, <2>1, <2>2, <2>3
<1>12. CASE UNCHANGED vars
  BY <1>8, <1>12 DEF vars, TypeOK, HeldUnshared
<1> QED
  BY <1>1, <1>2, <1>3, <1>4, <1>6, <1>7, <1>9, <1>10, <1>11, <1>12
     DEF Next, Step

THEOREM Invariance == Spec => []Inv
<1>1. Init => Inv
  <2>1. ASSUME Init PROVE TypeOK
    BY <2>1, LeaseAssumption DEF Init, TypeOK, NoLeases, Statuses
  <2>2. ASSUME Init PROVE HeldUnshared
    BY <2>2 DEF Init, HeldUnshared
  <2>3. ASSUME Init PROVE WithinCapacity
    BY <2>3, UsedEmpty DEF Init, WithinCapacity
  <2> QED
    BY <2>1, <2>2, <2>3 DEF Inv
<1>2. Inv /\ [Next]_vars => Inv'
  BY InvStep
<1> QED
  BY <1>1, <1>2, PTL DEF Spec

\* Only a process inside hold has a lease and a heartbeat thread.
THEOREM TypeCorrect == Spec => []TypeOK
<1>1. Inv => TypeOK
  BY DEF Inv
<1> QED
  BY <1>1, Invariance, PTL

\* The table never promises more slots than its capacity, whatever fails.
THEOREM TableWithinCapacity == Spec => []WithinCapacity
<1>1. Inv => WithinCapacity
  BY DEF Inv
<1> QED
  BY <1>1, Invariance, PTL

-----------------------------------------------------------------------------
(* The holders *)

OneHostOnly == \A p, q \in Procs : Host[p] = Host[q]

Benign == ~Unreadable /\ (~BeatsFail \/ OneHostOnly)

\* Nobody prunes the lease of a process inside hold.
LEMMA PrunedKeepsHolders ==
    ASSUME SafeInv, Benign, NEW q \in Procs, NEW seen \in Read(q),
           NEW p \in Procs, status[p] = "holding"
    PROVE  /\ seen = table
           /\ Declared[q] = capacity
           /\ held[p] \in DOMAIN Pruned(q, seen)
           /\ Pruned(q, seen)[held[p]] = table[held[p]]
<1> DEFINE r == table[held[p]]
<1>1. held[p] \in DOMAIN table /\ r.owner = p /\ r \in Record
  BY DEF SafeInv, HolderRecorded, Inv, TypeOK
<1>2. seen = table /\ CapacityAgrees(q)
  BY DEF Benign, Read
<1>3. Declared[q] = capacity
  BY <1>2, LeaseAssumption DEF SafeInv, HoldersFresh, HolderFresh, CapacityAgrees
<1>4. ~Stale(q, r)
  <2>1. CASE Host[p] = Host[q]
    BY <1>1, <2>1 DEF Stale, PidAlive
  <2>2. CASE Host[p] # Host[q]
    <3>1. r.age <= MaxBeatGap
      BY <2>2 DEF Benign, OneHostOnly, SafeInv, HoldersFresh, HolderFresh
    <3>2. Host[p] \in Hosts /\ Host[q] \in Hosts
      BY DEF Hosts
    <3>3. MaxBeatGap + Clock[Host[q]] - Clock[Host[p]] <= StaleAfter
      BY <3>2, ClockAssumption
    <3>4. Clock[Host[q]] \in Nat /\ Clock[Host[p]] \in Nat /\ r.age \in Nat
      BY <1>1, <3>2, LeaseAssumption DEF Record
    <3> DEFINE cq == Clock[Host[q]]
               cp == Clock[Host[p]]
    <3> HIDE DEF r, cq, cp
    <3>5. r.age + cq - cp <= StaleAfter
      BY <3>1, <3>3, <3>4, LeaseAssumption DEF cq, cp
    <3> QED
      <4>1. AgeSeen(q, r) = r.age + cq - cp /\ r.age + cq - cp \in Int
        BY <1>1, <3>4 DEF AgeSeen, cq, cp
      <4>2. ~(AgeSeen(q, r) > StaleAfter)
        BY <3>5, <4>1, LeaseAssumption
      <4> QED
        BY <1>1, <2>2, <4>2 DEF Stale
  <2> QED
    BY <2>1, <2>2
<1> QED
  BY <1>1, <1>2, <1>3, <1>4 DEF Pruned, Restrict

\* What is left to show of a step, for one process that holds after it.
Kept(p) ==
    /\ held[p] \in DOMAIN table /\ table[held[p]].owner = p
    /\ HolderFresh(p)

\* A process that was inside hold keeps its lease when another one writes back
\* the pruned table, changed at most under new identifiers.
LEMMA OthersKept ==
    ASSUME SafeInv, Benign, NEW q \in Procs, NEW seen \in Read(q),
           NEW p \in Procs, status[p] = "holding",
           held'[p] = held[p], beating'[p] = beating[p],
           capacity' = Declared[q],
           held[p] \in DOMAIN table',
           table'[held[p]] = Pruned(q, seen)[held[p]]
    PROVE  Kept(p)'
<1>1. Declared[q] = capacity /\ Pruned(q, seen)[held[p]] = table[held[p]]
  BY PrunedKeepsHolders
<1>2. capacity' = capacity /\ table'[held'[p]] = table[held[p]]
  BY <1>1
<1>3. Kept(p)
  BY DEF SafeInv, HolderRecorded, HoldersFresh, Kept
<1> QED
  BY <1>2, <1>3 DEF Kept, HolderFresh

LEMMA SafeStep ==
    ASSUME SafeInv, Benign, [Next]_vars, NEW p \in Procs, status'[p] = "holding"
    PROVE  Kept(p)'
<1> USE DEF SafeInv
<1>0. status[p] = "holding" => Kept(p)
  BY DEF HolderRecorded, HoldersFresh, Kept
<1>t. /\ status \in [Procs -> Statuses]
      /\ held \in [Procs -> LeaseIds \cup {NoLease}]
      /\ beating \in [Procs -> BOOLEAN]
  BY DEF Inv, TypeOK
<1>1. ASSUME NEW q \in Procs, CleanupStale(q) \/ AcquireFindsNoRoom(q)
      PROVE  Kept(p)'
  <2>1. PICK seen \in Read(q) : table' = Pruned(q, seen)
    BY <1>1 DEF CleanupStale, AcquireFindsNoRoom
  <2>2. status[p] = "holding"
    BY <1>1, <1>t DEF CleanupStale, AcquireFindsNoRoom
  <2>3. held'[p] = held[p] /\ beating'[p] = beating[p] /\ capacity' = Declared[q]
    BY <1>1 DEF CleanupStale, AcquireFindsNoRoom
  <2>4. held[p] \in DOMAIN table'
    BY <2>1, <2>2, PrunedKeepsHolders
  <2> QED
    BY <2>1, <2>2, <2>3, <2>4, OthersKept
<1>2. ASSUME NEW q \in Procs, NEW l \in LeaseIds, Acquire(q, l)
      PROVE  Kept(p)'
  <2>1. PICK seen \in Read(q) : table' = Added(Pruned(q, seen), l, q)
    BY <1>2 DEF Acquire
  <2>2. l # held[p] /\ capacity' = Declared[q] /\ status[q] = "waiting"
    BY <1>2 DEF Acquire, FreshIds
  <2>3. CASE p = q
    <3>1. held'[p] = l /\ beating'[p] = TRUE
      BY <1>2, <1>t, <2>3 DEF Acquire
    <3>2. l \in DOMAIN table' /\ table'[l] = [owner |-> p, age |-> 0]
      BY <2>1, <2>3 DEF Added
    <3>3. 0 <= MaxBeatGap
      BY LeaseAssumption
    <3>4. table'[held'[p]].age = 0 /\ table'[held'[p]].owner = p
      BY <3>1, <3>2
    <3>5. HolderFresh(p)'
      BY <2>2, <2>3, <3>1, <3>3, <3>4 DEF HolderFresh
    <3> QED
      BY <3>1, <3>2, <3>4, <3>5 DEF Kept
  <2>4. CASE p # q
    <3>1. status[p] = "holding" /\ held'[p] = held[p] /\ beating'[p] = beating[p]
      BY <1>2, <1>t, <2>4 DEF Acquire
    <3>2. held[p] \in DOMAIN Pruned(q, seen)
      BY <3>1, PrunedKeepsHolders
    <3>3. /\ held[p] \in DOMAIN table'
          /\ table'[held[p]] = Pruned(q, seen)[held[p]]
      BY <2>1, <2>2, <3>2 DEF Added
    <3> QED
      BY <2>2, <3>1, <3>3, OthersKept
  <2> QED
    BY <2>3, <2>4
<1>3. ASSUME NEW q \in Procs, Release(q)
      PROVE  Kept(p)'
  <2>1. PICK seen \in Read(q) :
          table' = Restrict(seen, DOMAIN seen \ {held[q]})
    BY <1>3 DEF Release
  <2>2. p # q
    BY <1>3, <1>t DEF Release
  <2>3. /\ status[p] = "holding" /\ held'[p] = held[p] /\ beating'[p] = beating[p]
        /\ capacity' = Declared[q]
    BY <1>3, <1>t, <2>2 DEF Release
  <2>4. held[p] # NoLease /\ held[p] # held[q]
    BY <2>2, <2>3 DEF Inv, TypeOK, HeldUnshared
  <2>5. seen = table /\ held[p] \in DOMAIN table
        /\ Pruned(q, seen)[held[p]] = table[held[p]]
    BY <2>3, <1>0, PrunedKeepsHolders DEF Kept
  <2>6. held[p] \in DOMAIN table' /\ table'[held[p]] = Pruned(q, seen)[held[p]]
    BY <2>1, <2>4, <2>5 DEF Restrict
  <2> QED
    BY <2>3, <2>6, OthersKept
<1>4. ASSUME NEW q \in Procs, Heartbeat(q)
      PROVE  Kept(p)'
  <2>1. Kept(p) /\ table \in [DOMAIN table -> Record]
    BY <1>0, <1>4 DEF Heartbeat, Inv, TypeOK
  <2>2. UNCHANGED <<capacity, held, beating>> /\ DOMAIN table' = DOMAIN table
    BY <1>4 DEF Heartbeat
  <2>3. table'[held[p]].owner = p
    BY <1>4, <2>1 DEF Heartbeat, Kept, Record
  <2>4. table'[held[p]].age \in {0, table[held[p]].age}
    BY <1>4, <2>1 DEF Heartbeat, Kept, Record
  <2>5. HolderFresh(p)'
    BY <2>1, <2>2, <2>4, LeaseAssumption DEF Kept, HolderFresh
  <2> QED
    BY <2>1, <2>2, <2>3, <2>5 DEF Kept
<1>5. CASE Tick
  <2>1. Kept(p) /\ table \in [DOMAIN table -> Record]
    BY <1>0, <1>5 DEF Tick, Inv, TypeOK
  <2>2. UNCHANGED <<capacity, held, beating>> /\ DOMAIN table' = DOMAIN table
    BY <1>5 DEF Tick
  <2>3. table'[held[p]].owner = p
    BY <1>5, <2>1 DEF Tick, Kept, Record
  <2>4. beating[p] => table'[held[p]].age <= MaxBeatGap
    <3>1. beating[p] => table[held[p]].age < MaxBeatGap
      BY <1>5, <2>1 DEF Tick, Kept
    <3>2. table'[held[p]].age \in {table[held[p]].age, table[held[p]].age + 1}
      BY <1>5, <2>1 DEF Tick, Kept, Record
    <3>3. table[held[p]].age \in Nat
      BY <2>1 DEF Kept, Record
    <3> QED
      BY <3>1, <3>2, <3>3, LeaseAssumption
  <2>5. HolderFresh(p)'
    BY <2>1, <2>2, <2>4 DEF Kept, HolderFresh
  <2> QED
    BY <2>1, <2>2, <2>3, <2>5 DEF Kept
<1>6. ASSUME NEW q \in Procs, HeartbeatRaises(q)
      PROVE  Kept(p)'
  <2>1. Kept(p) /\ UNCHANGED <<table, capacity, status, held>>
    BY <1>0, <1>6 DEF HeartbeatRaises
  <2>2. p = q => BeatsFail
    <3>1. SUFFICES ASSUME p = q, ~BeatsFail PROVE FALSE
      OBVIOUS
    <3>2. CapacityAgrees(p)
      BY <2>1 DEF Kept, HolderFresh, CapacityAgrees
    <3>3. PICK seen \in Read(p) : held[p] \notin DOMAIN seen
      BY <1>6, <3>1, <3>2 DEF HeartbeatRaises
    <3> QED
      BY <2>1, <3>3 DEF Benign, Read, Kept
  <2>3. p # q => beating'[p] = beating[p]
    BY <1>6 DEF HeartbeatRaises
  <2> QED
    BY <2>1, <2>2, <2>3 DEF Kept, HolderFresh
<1>7. ASSUME UNCHANGED <<table, capacity>>, status[p] = "holding",
             held'[p] = held[p], beating'[p] = beating[p]
      PROVE  Kept(p)'
  BY <1>0, <1>7 DEF Kept, HolderFresh
<1>8. ASSUME NEW q \in Procs,
             \/ Start(q) \/ CapacityDiffers(q) \/ RaisesBeforeWrite(q)
             \/ PidReused(q)
      PROVE  Kept(p)'
  <2>1. UNCHANGED <<table, capacity, held, beating>>
    BY <1>8 DEF Start, CapacityDiffers, RaisesBeforeWrite, PidReused
  <2>2. status[p] = "holding"
    BY <1>8, <1>t DEF Start, CapacityDiffers, RaisesBeforeWrite, PidReused
  <2> QED
    BY <1>7, <2>1, <2>2
<1>9. ASSUME NEW q \in Procs, ReleaseRaises(q) \/ Exit(q)
      PROVE  Kept(p)'
  <2>1. p # q
    BY <1>9, <1>t DEF ReleaseRaises, Exit
  <2>2. /\ UNCHANGED <<table, capacity>> /\ status[p] = "holding"
        /\ held'[p] = held[p] /\ beating'[p] = beating[p]
    BY <1>9, <1>t, <2>1 DEF ReleaseRaises, Exit
  <2> QED
    BY <1>7, <2>2
<1>10. CASE UNCHANGED vars
  BY <1>7, <1>10 DEF vars
<1> QED
  BY <1>1, <1>2, <1>3, <1>4, <1>5, <1>6, <1>8, <1>9, <1>10 DEF Next, Step

LEMMA SafeInvariance ==
    ASSUME Benign
    PROVE  Spec => []SafeInv
<1>1. Init /\ Inv => SafeInv
  BY DEF Init, SafeInv, HolderRecorded, HoldersFresh
<1>2. SafeInv /\ Inv' /\ [Next]_vars => SafeInv'
  <2> SUFFICES ASSUME SafeInv, Inv', [Next]_vars
               PROVE  SafeInv'
    OBVIOUS
  <2>1. \A p \in Procs : status'[p] = "holding" => Kept(p)'
    BY SafeStep
  <2> QED
    BY <2>1 DEF SafeInv, HolderRecorded, HoldersFresh, Kept
<1> QED
  BY <1>1, <1>2, Invariance, PTL DEF Spec

\* A training job keeps its slots for its whole lifetime, if files can be read and
\* either all processes share a host or heartbeats do not raise.
THEOREM HoldersAreRecorded ==
    ASSUME Benign
    PROVE  Spec => []HolderRecorded
<1>1. SafeInv => HolderRecorded
  BY DEF SafeInv
<1> QED
  BY <1>1, SafeInvariance, PTL

\* The processes of a kind are no more than their leases.
LEMMA HoldersCounted ==
    ASSUME SafeInv, NEW K \in SUBSET Procs
    PROVE  LET A == Holding \cap K
               B == {l \in DOMAIN table : table[l].owner \in K}
           IN  /\ Cardinality(A) \in Nat /\ Cardinality(B) \in Nat
               /\ Cardinality(A) <= Cardinality(B)
<1> DEFINE A == Holding \cap K
           B == {l \in DOMAIN table : table[l].owner \in K}
           f == [p \in A |-> held[p]]
<1>1. IsFiniteSet(B)
  BY TableFinite, FS_Subset DEF SafeInv, Inv
<1>2. f \in Injection(A, B)
  <2>1. \A p \in A : p \in Procs /\ held[p] \in B /\ held[p] # NoLease
    BY DEF SafeInv, Inv, TypeOK, HolderRecorded, Holding
  <2>2. f \in [A -> B]
    BY <2>1
  <2>3. \A p, q \in A : f[p] = f[q] => p = q
    BY <2>1 DEF SafeInv, Inv, HeldUnshared
  <2> QED
    BY <2>2, <2>3 DEF Injection, IsInjective
<1> HIDE DEF A, B, f
<1>3. IsFiniteSet(A) /\ Cardinality(A) <= Cardinality(B)
  BY <1>1, <1>2, FS_Injection
<1>4. Cardinality(A) \in Nat /\ Cardinality(B) \in Nat
  BY <1>1, <1>3, FS_CardinalityType
<1> QED
  BY <1>3, <1>4 DEF A, B

LEMMA SafeInvBounds ==
    ASSUME SafeInv
    PROVE  NoOvercommit
<1> DEFINE ht == Cardinality(Holding \cap Trainer)
           he == Cardinality(Holding \ Trainer)
           lt == Cardinality({l \in DOMAIN table : table[l].owner \in Trainer})
           le == Cardinality({l \in DOMAIN table : table[l].owner \notin Trainer})
<1>1. ht \in Nat /\ lt \in Nat /\ ht <= lt
  BY HoldersCounted, LeaseAssumption
<1>2. he \in Nat /\ le \in Nat /\ he <= le
  <2>1. Holding \ Trainer = Holding \cap (Procs \ Trainer)
    BY DEF Holding
  <2>2. \A l \in DOMAIN table : table[l].owner \in Procs
    BY DEF SafeInv, Inv, TypeOK, Record
  <2>3. {l \in DOMAIN table : table[l].owner \notin Trainer}
          = {l \in DOMAIN table : table[l].owner \in Procs \ Trainer}
    BY <2>2
  <2> QED
    BY <2>1, <2>3, HoldersCounted
<1>3. TrainSlots * lt + EvaluateSlots * le <= capacity /\ capacity \in Nat
  BY DEF SafeInv, Inv, WithinCapacity, TypeOK, Used
<1> HIDE DEF ht, he, lt, le
<1>4. /\ TrainSlots * ht \in Nat /\ TrainSlots * lt \in Nat
      /\ TrainSlots * ht <= TrainSlots * lt
      /\ EvaluateSlots * he \in Nat /\ EvaluateSlots * le \in Nat
      /\ EvaluateSlots * he <= EvaluateSlots * le
  BY <1>1, <1>2, ProductMonotone, LeaseAssumption
<1>5. TrainSlots * ht + EvaluateSlots * he <= capacity
  BY <1>3, <1>4
<1> QED
  BY <1>5 DEF NoOvercommit, ht, he

\* Under the same conditions the simulators that are really in use fit the
\* declared capacity.
THEOREM NeverOvercommitted ==
    ASSUME Benign
    PROVE  Spec => []NoOvercommit
<1>1. SafeInv => NoOvercommit
  BY SafeInvBounds
<1> QED
  BY <1>1, SafeInvariance, PTL

-----------------------------------------------------------------------------
(* The TestIDs of one run. *)

\* Where the clients and the cleanup of the run are in each phase.
ClientsInv ==
    /\ IdsTypeOK
    /\ phase \in {"down", "startup", "final", "ended", "recovering"} =>
          \A o \in Owners : at[o] = "off"
    /\ phase = "forecast" => \A o \in Owners \ {Forecaster} : at[o] = "off"
    /\ phase \in {"forecast", "rollout", "closing"} \/ lock = "free" =>
          toStop = {} /\ toUnlink = {}
    /\ \A o \in Owners :
          /\ at[o] \in {"off", "idle", "selecting"} => client[o] = NoId
          /\ at[o] \in {"selected", "running", "stopped"} => client[o] \in Ids

\* The record of a MAPPO client that has a TestID names it.
RecordsInv ==
    setting.algorithm = "mappo" =>
        \A o \in Owners :
            /\ orphan[o] = "none"
            /\ at[o] \in {"running", "stopped"} => record[o] = client[o]
            /\ at[o] = "lost" => client[o] \in {NoId, record[o]}

\* An owner that neither has a TestID nor has left one behind.
Clear(o) == at[o] = "off" /\ record[o] = NoId

\* The forecaster has left nothing behind, or nobody else has a TestID.
OneSide == Clear(Forecaster) \/ \A o \in Owners \ {Forecaster} : Clear(o)

\* Every TestID that runs is recorded, or its client is about to record it.
Accounted(i) ==
    \E o \in Owners : i = record[o] \/ (at[o] = "selected" /\ i = client[o])

SlotsInv ==
    RetriedInProcess =>
        /\ lock # "sweep" /\ ~skipped
        /\ phase \in {"down", "startup"} => \A o \in Owners : record[o] = NoId
        /\ phase = "forecast" =>
              /\ \A o \in Owners \ {Forecaster} : record[o] = NoId
              /\ at[Forecaster] = "off" => record[Forecaster] = NoId
        /\ phase \in {"rollout", "closing", "final"} => Clear(Forecaster)
        /\ phase = "rollout" /\ at[Evaluator] = "off" => record[Evaluator] = NoId
        /\ OneSide
        /\ \A o \in Owners :
              /\ at[o] \in {"idle", "selecting", "selected"} => record[o] = NoId
              /\ at[o] = "stopped" => client[o] \notin live
        /\ \A o \in toUnlink : record[o] \notin live
        /\ \A i \in live : Accounted(i)

IdsInv == ClientsInv /\ RecordsInv /\ SlotsInv

LEMMA OwnersDistinct ==
    /\ Forecaster \in Owners /\ Evaluator \in Owners /\ Forecaster # Evaluator
    /\ Workers \subseteq Owners /\ Forecaster \notin Workers /\ Evaluator \notin Workers
    /\ \A o \in Owners : o \in Workers \/ o = Forecaster \/ o = Evaluator
    /\ NoId \notin Ids /\ "none" \notin Ids /\ "selecting" \notin Ids
BY TestIdAssumption DEF Owners

\* Clients work in their phase only, and cleanup in its own.
LEMMA ClientsStep ==
    ASSUME ClientsInv, [IdsNext]_idVars
    PROVE  ClientsInv'
<1>1. ASSUME NEW o \in Owners, SendSelect(o)
      PROVE  ClientsInv'
  BY <1>1, OwnersDistinct, TestIdAssumption
     DEF SendSelect, Serving, ClientsInv, IdsTypeOK, Places, Phases, clientVars,
         runVars, cleanupVars
<1>2. ASSUME NEW o \in Owners, SelectReplies(o)
      PROVE  ClientsInv'
  BY <1>2, OwnersDistinct, TestIdAssumption
     DEF SelectReplies, UnusedIds, ClientsInv, IdsTypeOK, Places, Phases, clientVars,
         runVars, cleanupVars
<1>3. ASSUME NEW o \in Owners, SelectReplyLost(o)
      PROVE  ClientsInv'
  BY <1>3, OwnersDistinct, TestIdAssumption
     DEF SelectReplyLost, UnusedIds, ClientsInv, IdsTypeOK, Places, Phases,
         clientVars, runVars, cleanupVars
<1>4. ASSUME NEW o \in Owners, Persist(o)
      PROVE  ClientsInv'
  BY <1>4, OwnersDistinct, TestIdAssumption
     DEF Persist, Persisted, ClientsInv, IdsTypeOK, Places, Phases, clientVars,
         runVars, cleanupVars
<1>5. ASSUME NEW o \in Owners, SendStop(o)
      PROVE  ClientsInv'
  BY <1>5, OwnersDistinct, TestIdAssumption
     DEF SendStop, ClientsInv, IdsTypeOK, Places, Phases, clientVars, runVars,
         cleanupVars
<1>6. ASSUME NEW o \in Owners, StopReplies(o)
      PROVE  ClientsInv'
  BY <1>6, OwnersDistinct, TestIdAssumption
     DEF StopReplies, ClientsInv, IdsTypeOK, Places, Phases, clientVars, runVars,
         cleanupVars
<1>7. ASSUME NEW o \in Owners, CloseSilently(o)
      PROVE  ClientsInv'
  BY <1>7, OwnersDistinct, TestIdAssumption
     DEF CloseSilently, ClientsInv, IdsTypeOK, Places, Phases, clientVars, runVars,
         cleanupVars
<1>8. ASSUME NEW o \in Owners, RequestFails(o)
      PROVE  ClientsInv'
  BY <1>8, OwnersDistinct, TestIdAssumption
     DEF RequestFails, ClientsInv, IdsTypeOK, Places, Phases, clientVars, runVars,
         cleanupVars
<1>9. ASSUME NEW o \in Owners, OrphanSelects(o)
      PROVE  ClientsInv'
  BY <1>9, OwnersDistinct, TestIdAssumption
     DEF OrphanSelects, UnusedIds, ClientsInv, IdsTypeOK, Places, Phases, clientVars,
         runVars, cleanupVars
<1>10. ASSUME NEW o \in Owners, OrphanPersists(o)
      PROVE  ClientsInv'
  BY <1>10, OwnersDistinct, TestIdAssumption
     DEF OrphanPersists, ClientsInv, IdsTypeOK, Places, Phases, clientVars, runVars,
         cleanupVars
<1>11. ASSUME NEW o \in Owners, CleanupStops(o)
      PROVE  ClientsInv'
  BY <1>11, OwnersDistinct, TestIdAssumption
     DEF CleanupStops, KeepRecord, ClientsInv, IdsTypeOK, Places, Phases, clientVars,
         runVars, cleanupVars
<1>12. ASSUME NEW o \in Owners, CleanupUnlinks(o)
      PROVE  ClientsInv'
  BY <1>12, OwnersDistinct, TestIdAssumption
     DEF CleanupUnlinks, ClientsInv, IdsTypeOK, Places, Phases, clientVars, runVars,
         cleanupVars
<1>13. CASE StartForecast
  BY <1>13, OwnersDistinct, TestIdAssumption
     DEF StartForecast, CleanupDone, ClientsInv, IdsTypeOK, Places, Phases,
         clientVars, runVars, cleanupVars
<1>14. CASE StartRollout
  BY <1>14, OwnersDistinct, TestIdAssumption
     DEF StartRollout, ClientsInv, IdsTypeOK, Places, Phases, clientVars, runVars,
         cleanupVars
<1>15. CASE ForecastRaises
  BY <1>15, OwnersDistinct, TestIdAssumption
     DEF ForecastRaises, ClientsInv, IdsTypeOK, Places, Phases, clientVars, runVars,
         cleanupVars
<1>16. CASE StartEvaluation
  BY <1>16, OwnersDistinct, TestIdAssumption
     DEF StartEvaluation, ClientsInv, IdsTypeOK, Places, Phases, clientVars, runVars,
         cleanupVars
<1>17. CASE StartClosing
  BY <1>17, OwnersDistinct, TestIdAssumption
     DEF StartClosing, ClientsInv, IdsTypeOK, Places, Phases, clientVars, runVars,
         cleanupVars
<1>18. CASE WorkerDies
  BY <1>18, OwnersDistinct, TestIdAssumption
     DEF WorkerDies, Left, NobodyAt, ClientsInv, IdsTypeOK, Places, Phases,
         clientVars, runVars, cleanupVars
<1>19. CASE StartFinalCleanup
  BY <1>19, OwnersDistinct, TestIdAssumption
     DEF StartFinalCleanup, Listed, Recorded, ClientsInv, IdsTypeOK, Places, Phases,
         clientVars, runVars, cleanupVars
<1>20. CASE EndAttempt
  BY <1>20, OwnersDistinct, TestIdAssumption
     DEF EndAttempt, CleanupDone, ClientsInv, IdsTypeOK, Places, Phases, clientVars,
         runVars, cleanupVars
<1>21. CASE BeginRun
  BY <1>21, OwnersDistinct, TestIdAssumption
     DEF BeginRun, LockFree, Listed, Recorded, ClientsInv, IdsTypeOK, Places, Phases,
         clientVars, runVars, cleanupVars
<1>22. CASE SweepSkips
  BY <1>22, OwnersDistinct, TestIdAssumption
     DEF SweepSkips, ClientsInv, IdsTypeOK, Places, Phases, clientVars, runVars,
         cleanupVars
<1>23. CASE BeginUnswept
  BY <1>23, OwnersDistinct, TestIdAssumption
     DEF BeginUnswept, LockFree, ClientsInv, IdsTypeOK, Places, Phases, clientVars,
         runVars, cleanupVars
<1>24. CASE StartRecovery
  BY <1>24, OwnersDistinct, TestIdAssumption
     DEF StartRecovery, Listed, Recorded, ClientsInv, IdsTypeOK, Places, Phases,
         clientVars, runVars, cleanupVars
<1>25. CASE RecoverAgain
  BY <1>25, OwnersDistinct, TestIdAssumption
     DEF RecoverAgain, Listed, Recorded, ClientsInv, IdsTypeOK, Places, Phases,
         clientVars, runVars, cleanupVars
<1>26. CASE Retry
  BY <1>26, OwnersDistinct, TestIdAssumption
     DEF Retry, Listed, Recovered, Recorded, ClientsInv, IdsTypeOK, Places, Phases,
         clientVars, runVars, cleanupVars
<1>27. CASE ExitRun
  BY <1>27, OwnersDistinct, TestIdAssumption
     DEF ExitRun, Left, NobodyAt, ClientsInv, IdsTypeOK, Places, Phases, clientVars,
         runVars, cleanupVars
<1>28. CASE SweepBegins
  BY <1>28, OwnersDistinct, TestIdAssumption
     DEF SweepBegins, LockFree, Listed, Recorded, ClientsInv, IdsTypeOK, Places,
         Phases, clientVars, runVars, cleanupVars
<1>29. CASE SweepEnds
  BY <1>29, OwnersDistinct, TestIdAssumption
     DEF SweepEnds, ClientsInv, IdsTypeOK, Places, Phases, clientVars, runVars,
         cleanupVars
<1>30. CASE UNCHANGED idVars
  BY <1>30
     DEF idVars, ClientsInv, IdsTypeOK, Places, Phases, clientVars, runVars,
         cleanupVars
<1> QED
  BY <1>1, <1>2, <1>3, <1>4, <1>5, <1>6, <1>7, <1>8, <1>9, <1>10, <1>11, <1>12,
     <1>13, <1>14, <1>15, <1>16, <1>17, <1>18, <1>19, <1>20, <1>21, <1>22,
     <1>23, <1>24, <1>25, <1>26, <1>27, <1>28, <1>29, <1>30 DEF IdsNext, Client,
     Attempt

\* No step separates a MAPPO client from its record.
LEMMA RecordsStep ==
    ASSUME ClientsInv, RecordsInv, [IdsNext]_idVars
    PROVE  RecordsInv'
<1>1. ASSUME NEW o \in Owners, SendSelect(o)
      PROVE  RecordsInv'
  BY <1>1, OwnersDistinct, TestIdAssumption
     DEF SendSelect, Serving, ClientsInv, RecordsInv, IdsTypeOK, Places, Phases,
         clientVars, runVars, cleanupVars
<1>2. ASSUME NEW o \in Owners, SelectReplies(o)
      PROVE  RecordsInv'
  BY <1>2, OwnersDistinct, TestIdAssumption
     DEF SelectReplies, UnusedIds, ClientsInv, RecordsInv, IdsTypeOK, Places, Phases,
         clientVars, runVars, cleanupVars
<1>3. ASSUME NEW o \in Owners, SelectReplyLost(o)
      PROVE  RecordsInv'
  BY <1>3, OwnersDistinct, TestIdAssumption
     DEF SelectReplyLost, UnusedIds, ClientsInv, RecordsInv, IdsTypeOK, Places,
         Phases, clientVars, runVars, cleanupVars
<1>4. ASSUME NEW o \in Owners, Persist(o)
      PROVE  RecordsInv'
  BY <1>4, OwnersDistinct, TestIdAssumption
     DEF Persist, Persisted, ClientsInv, RecordsInv, IdsTypeOK, Places, Phases,
         clientVars, runVars, cleanupVars
<1>5. ASSUME NEW o \in Owners, SendStop(o)
      PROVE  RecordsInv'
  BY <1>5, OwnersDistinct, TestIdAssumption
     DEF SendStop, ClientsInv, RecordsInv, IdsTypeOK, Places, Phases, clientVars,
         runVars, cleanupVars
<1>6. ASSUME NEW o \in Owners, StopReplies(o)
      PROVE  RecordsInv'
  BY <1>6, OwnersDistinct, TestIdAssumption
     DEF StopReplies, ClientsInv, RecordsInv, IdsTypeOK, Places, Phases, clientVars,
         runVars, cleanupVars
<1>7. ASSUME NEW o \in Owners, CloseSilently(o)
      PROVE  RecordsInv'
  BY <1>7, OwnersDistinct, TestIdAssumption
     DEF CloseSilently, ClientsInv, RecordsInv, IdsTypeOK, Places, Phases, clientVars,
         runVars, cleanupVars
<1>8. ASSUME NEW o \in Owners, RequestFails(o)
      PROVE  RecordsInv'
  BY <1>8, OwnersDistinct, TestIdAssumption
     DEF RequestFails, ClientsInv, RecordsInv, IdsTypeOK, Places, Phases, clientVars,
         runVars, cleanupVars
<1>9. ASSUME NEW o \in Owners, OrphanSelects(o)
      PROVE  RecordsInv'
  BY <1>9, OwnersDistinct, TestIdAssumption
     DEF OrphanSelects, UnusedIds, ClientsInv, RecordsInv, IdsTypeOK, Places, Phases,
         clientVars, runVars, cleanupVars
<1>10. ASSUME NEW o \in Owners, OrphanPersists(o)
      PROVE  RecordsInv'
  BY <1>10, OwnersDistinct, TestIdAssumption
     DEF OrphanPersists, ClientsInv, RecordsInv, IdsTypeOK, Places, Phases,
         clientVars, runVars, cleanupVars
<1>11. ASSUME NEW o \in Owners, CleanupStops(o)
      PROVE  RecordsInv'
  BY <1>11, OwnersDistinct, TestIdAssumption
     DEF CleanupStops, KeepRecord, ClientsInv, RecordsInv, IdsTypeOK, Places, Phases,
         clientVars, runVars, cleanupVars
<1>12. ASSUME NEW o \in Owners, CleanupUnlinks(o)
      PROVE  RecordsInv'
  BY <1>12, OwnersDistinct, TestIdAssumption
     DEF CleanupUnlinks, ClientsInv, RecordsInv, IdsTypeOK, Places, Phases,
         clientVars, runVars, cleanupVars
<1>13. CASE StartForecast
  BY <1>13, OwnersDistinct, TestIdAssumption
     DEF StartForecast, CleanupDone, ClientsInv, RecordsInv, IdsTypeOK, Places,
         Phases, clientVars, runVars, cleanupVars
<1>14. CASE StartRollout
  BY <1>14, OwnersDistinct, TestIdAssumption
     DEF StartRollout, ClientsInv, RecordsInv, IdsTypeOK, Places, Phases, clientVars,
         runVars, cleanupVars
<1>15. CASE ForecastRaises
  BY <1>15, OwnersDistinct, TestIdAssumption
     DEF ForecastRaises, ClientsInv, RecordsInv, IdsTypeOK, Places, Phases,
         clientVars, runVars, cleanupVars
<1>16. CASE StartEvaluation
  BY <1>16, OwnersDistinct, TestIdAssumption
     DEF StartEvaluation, ClientsInv, RecordsInv, IdsTypeOK, Places, Phases,
         clientVars, runVars, cleanupVars
<1>17. CASE StartClosing
  BY <1>17, OwnersDistinct, TestIdAssumption
     DEF StartClosing, ClientsInv, RecordsInv, IdsTypeOK, Places, Phases, clientVars,
         runVars, cleanupVars
<1>18. CASE WorkerDies
  BY <1>18, OwnersDistinct, TestIdAssumption
     DEF WorkerDies, Left, NobodyAt, ClientsInv, RecordsInv, IdsTypeOK, Places,
         Phases, clientVars, runVars, cleanupVars
<1>19. CASE StartFinalCleanup
  BY <1>19, OwnersDistinct, TestIdAssumption
     DEF StartFinalCleanup, Listed, Recorded, ClientsInv, RecordsInv, IdsTypeOK,
         Places, Phases, clientVars, runVars, cleanupVars
<1>20. CASE EndAttempt
  BY <1>20, OwnersDistinct, TestIdAssumption
     DEF EndAttempt, CleanupDone, ClientsInv, RecordsInv, IdsTypeOK, Places, Phases,
         clientVars, runVars, cleanupVars
<1>21. CASE BeginRun
  BY <1>21, OwnersDistinct, TestIdAssumption
     DEF BeginRun, LockFree, Listed, Recorded, ClientsInv, RecordsInv, IdsTypeOK,
         Places, Phases, clientVars, runVars, cleanupVars
<1>22. CASE SweepSkips
  BY <1>22, OwnersDistinct, TestIdAssumption
     DEF SweepSkips, ClientsInv, RecordsInv, IdsTypeOK, Places, Phases, clientVars,
         runVars, cleanupVars
<1>23. CASE BeginUnswept
  BY <1>23, OwnersDistinct, TestIdAssumption
     DEF BeginUnswept, LockFree, ClientsInv, RecordsInv, IdsTypeOK, Places, Phases,
         clientVars, runVars, cleanupVars
<1>24. CASE StartRecovery
  BY <1>24, OwnersDistinct, TestIdAssumption
     DEF StartRecovery, Listed, Recorded, ClientsInv, RecordsInv, IdsTypeOK, Places,
         Phases, clientVars, runVars, cleanupVars
<1>25. CASE RecoverAgain
  BY <1>25, OwnersDistinct, TestIdAssumption
     DEF RecoverAgain, Listed, Recorded, ClientsInv, RecordsInv, IdsTypeOK, Places,
         Phases, clientVars, runVars, cleanupVars
<1>26. CASE Retry
  BY <1>26, OwnersDistinct, TestIdAssumption
     DEF Retry, Listed, Recovered, Recorded, ClientsInv, RecordsInv, IdsTypeOK,
         Places, Phases, clientVars, runVars, cleanupVars
<1>27. CASE ExitRun
  BY <1>27, OwnersDistinct, TestIdAssumption
     DEF ExitRun, Left, NobodyAt, ClientsInv, RecordsInv, IdsTypeOK, Places, Phases,
         clientVars, runVars, cleanupVars
<1>28. CASE SweepBegins
  BY <1>28, OwnersDistinct, TestIdAssumption
     DEF SweepBegins, LockFree, Listed, Recorded, ClientsInv, RecordsInv, IdsTypeOK,
         Places, Phases, clientVars, runVars, cleanupVars
<1>29. CASE SweepEnds
  BY <1>29, OwnersDistinct, TestIdAssumption
     DEF SweepEnds, ClientsInv, RecordsInv, IdsTypeOK, Places, Phases, clientVars,
         runVars, cleanupVars
<1>30. CASE UNCHANGED idVars
  BY <1>30
     DEF idVars, ClientsInv, RecordsInv, IdsTypeOK, Places, Phases, clientVars,
         runVars, cleanupVars
<1> QED
  BY <1>1, <1>2, <1>3, <1>4, <1>5, <1>6, <1>7, <1>8, <1>9, <1>10, <1>11, <1>12,
     <1>13, <1>14, <1>15, <1>16, <1>17, <1>18, <1>19, <1>20, <1>21, <1>22,
     <1>23, <1>24, <1>25, <1>26, <1>27, <1>28, <1>29, <1>30 DEF IdsNext, Client,
     Attempt

\* With retries in one process nothing is left running that no record names.
LEMMA SlotsStep ==
    ASSUME ClientsInv, RecordsInv, SlotsInv, [IdsNext]_idVars
    PROVE  SlotsInv'
<1>1. ASSUME NEW o \in Owners, SendSelect(o)
      PROVE  SlotsInv'
  BY <1>1, OwnersDistinct, TestIdAssumption
     DEF SendSelect, Serving, ClientsInv, RecordsInv, SlotsInv, RetriedInProcess,
         Clear, OneSide, Accounted, IdsTypeOK, Places, Phases, clientVars, runVars,
         cleanupVars
<1>2. ASSUME NEW o \in Owners, SelectReplies(o)
      PROVE  SlotsInv'
  BY <1>2, OwnersDistinct, TestIdAssumption
     DEF SelectReplies, UnusedIds, ClientsInv, RecordsInv, SlotsInv, RetriedInProcess,
         Clear, OneSide, Accounted, IdsTypeOK, Places, Phases, clientVars, runVars,
         cleanupVars
<1>3. ASSUME NEW o \in Owners, SelectReplyLost(o)
      PROVE  SlotsInv'
  BY <1>3, OwnersDistinct, TestIdAssumption
     DEF SelectReplyLost, UnusedIds, ClientsInv, RecordsInv, SlotsInv,
         RetriedInProcess, Clear, OneSide, Accounted, IdsTypeOK, Places, Phases,
         clientVars, runVars, cleanupVars
<1>4. ASSUME NEW o \in Owners, Persist(o)
      PROVE  SlotsInv'
  BY <1>4, OwnersDistinct, TestIdAssumption
     DEF Persist, Persisted, ClientsInv, RecordsInv, SlotsInv, RetriedInProcess,
         Clear, OneSide, Accounted, IdsTypeOK, Places, Phases, clientVars, runVars,
         cleanupVars
<1>5. ASSUME NEW o \in Owners, SendStop(o)
      PROVE  SlotsInv'
  BY <1>5, OwnersDistinct, TestIdAssumption
     DEF SendStop, ClientsInv, RecordsInv, SlotsInv, RetriedInProcess, Clear, OneSide,
         Accounted, IdsTypeOK, Places, Phases, clientVars, runVars, cleanupVars
<1>6. ASSUME NEW o \in Owners, StopReplies(o)
      PROVE  SlotsInv'
  BY <1>6, OwnersDistinct, TestIdAssumption
     DEF StopReplies, ClientsInv, RecordsInv, SlotsInv, RetriedInProcess, Clear,
         OneSide, Accounted, IdsTypeOK, Places, Phases, clientVars, runVars,
         cleanupVars
<1>7. ASSUME NEW o \in Owners, CloseSilently(o)
      PROVE  SlotsInv'
  BY <1>7, OwnersDistinct, TestIdAssumption
     DEF CloseSilently, ClientsInv, RecordsInv, SlotsInv, RetriedInProcess, Clear,
         OneSide, Accounted, IdsTypeOK, Places, Phases, clientVars, runVars,
         cleanupVars
<1>8. ASSUME NEW o \in Owners, RequestFails(o)
      PROVE  SlotsInv'
  BY <1>8, OwnersDistinct, TestIdAssumption
     DEF RequestFails, ClientsInv, RecordsInv, SlotsInv, RetriedInProcess, Clear,
         OneSide, Accounted, IdsTypeOK, Places, Phases, clientVars, runVars,
         cleanupVars
<1>9. ASSUME NEW o \in Owners, OrphanSelects(o)
      PROVE  SlotsInv'
  BY <1>9, OwnersDistinct, TestIdAssumption
     DEF OrphanSelects, UnusedIds, ClientsInv, RecordsInv, SlotsInv, RetriedInProcess,
         Clear, OneSide, Accounted, IdsTypeOK, Places, Phases, clientVars, runVars,
         cleanupVars
<1>10. ASSUME NEW o \in Owners, OrphanPersists(o)
      PROVE  SlotsInv'
  BY <1>10, OwnersDistinct, TestIdAssumption
     DEF OrphanPersists, ClientsInv, RecordsInv, SlotsInv, RetriedInProcess, Clear,
         OneSide, Accounted, IdsTypeOK, Places, Phases, clientVars, runVars,
         cleanupVars
<1>11. ASSUME NEW o \in Owners, CleanupStops(o)
      PROVE  SlotsInv'
  BY <1>11, OwnersDistinct, TestIdAssumption
     DEF CleanupStops, KeepRecord, ClientsInv, RecordsInv, SlotsInv, RetriedInProcess,
         Clear, OneSide, Accounted, IdsTypeOK, Places, Phases, clientVars, runVars,
         cleanupVars
<1>12. ASSUME NEW o \in Owners, CleanupUnlinks(o)
      PROVE  SlotsInv'
  BY <1>12, OwnersDistinct, TestIdAssumption
     DEF CleanupUnlinks, ClientsInv, RecordsInv, SlotsInv, RetriedInProcess, Clear,
         OneSide, Accounted, IdsTypeOK, Places, Phases, clientVars, runVars,
         cleanupVars
<1>13. CASE StartForecast
  BY <1>13, OwnersDistinct, TestIdAssumption
     DEF StartForecast, CleanupDone, ClientsInv, RecordsInv, SlotsInv,
         RetriedInProcess, Clear, OneSide, Accounted, IdsTypeOK, Places, Phases,
         clientVars, runVars, cleanupVars
<1>14. CASE StartRollout
  BY <1>14, OwnersDistinct, TestIdAssumption
     DEF StartRollout, ClientsInv, RecordsInv, SlotsInv, RetriedInProcess, Clear,
         OneSide, Accounted, IdsTypeOK, Places, Phases, clientVars, runVars,
         cleanupVars
<1>15. CASE ForecastRaises
  BY <1>15, OwnersDistinct, TestIdAssumption
     DEF ForecastRaises, ClientsInv, RecordsInv, SlotsInv, RetriedInProcess, Clear,
         OneSide, Accounted, IdsTypeOK, Places, Phases, clientVars, runVars,
         cleanupVars
<1>16. CASE StartEvaluation
  BY <1>16, OwnersDistinct, TestIdAssumption
     DEF StartEvaluation, ClientsInv, RecordsInv, SlotsInv, RetriedInProcess, Clear,
         OneSide, Accounted, IdsTypeOK, Places, Phases, clientVars, runVars,
         cleanupVars
<1>17. CASE StartClosing
  BY <1>17, OwnersDistinct, TestIdAssumption
     DEF StartClosing, ClientsInv, RecordsInv, SlotsInv, RetriedInProcess, Clear,
         OneSide, Accounted, IdsTypeOK, Places, Phases, clientVars, runVars,
         cleanupVars
<1>18. CASE WorkerDies
  BY <1>18, OwnersDistinct, TestIdAssumption
     DEF WorkerDies, Left, NobodyAt, ClientsInv, RecordsInv, SlotsInv,
         RetriedInProcess, Clear, OneSide, Accounted, IdsTypeOK, Places, Phases,
         clientVars, runVars, cleanupVars
<1>19. CASE StartFinalCleanup
  BY <1>19, OwnersDistinct, TestIdAssumption
     DEF StartFinalCleanup, Listed, Recorded, ClientsInv, RecordsInv, SlotsInv,
         RetriedInProcess, Clear, OneSide, Accounted, IdsTypeOK, Places, Phases,
         clientVars, runVars, cleanupVars
<1>20. CASE EndAttempt
  BY <1>20, OwnersDistinct, TestIdAssumption
     DEF EndAttempt, CleanupDone, ClientsInv, RecordsInv, SlotsInv, RetriedInProcess,
         Clear, OneSide, Accounted, IdsTypeOK, Places, Phases, clientVars, runVars,
         cleanupVars
<1>21. CASE BeginRun
  BY <1>21, OwnersDistinct, TestIdAssumption
     DEF BeginRun, LockFree, Listed, Recorded, ClientsInv, RecordsInv, SlotsInv,
         RetriedInProcess, Clear, OneSide, Accounted, IdsTypeOK, Places, Phases,
         clientVars, runVars, cleanupVars
<1>22. CASE SweepSkips
  BY <1>22, OwnersDistinct, TestIdAssumption
     DEF SweepSkips, ClientsInv, RecordsInv, SlotsInv, RetriedInProcess, Clear,
         OneSide, Accounted, IdsTypeOK, Places, Phases, clientVars, runVars,
         cleanupVars
<1>23. CASE BeginUnswept
  BY <1>23, OwnersDistinct, TestIdAssumption
     DEF BeginUnswept, LockFree, ClientsInv, RecordsInv, SlotsInv, RetriedInProcess,
         Clear, OneSide, Accounted, IdsTypeOK, Places, Phases, clientVars, runVars,
         cleanupVars
<1>24. CASE StartRecovery
  BY <1>24, OwnersDistinct, TestIdAssumption
     DEF StartRecovery, Listed, Recorded, ClientsInv, RecordsInv, SlotsInv,
         RetriedInProcess, Clear, OneSide, Accounted, IdsTypeOK, Places, Phases,
         clientVars, runVars, cleanupVars
<1>25. CASE RecoverAgain
  BY <1>25, OwnersDistinct, TestIdAssumption
     DEF RecoverAgain, Listed, Recorded, ClientsInv, RecordsInv, SlotsInv,
         RetriedInProcess, Clear, OneSide, Accounted, IdsTypeOK, Places, Phases,
         clientVars, runVars, cleanupVars
<1>26. CASE Retry
  BY <1>26, OwnersDistinct, TestIdAssumption
     DEF Retry, Listed, Recovered, Recorded, ClientsInv, RecordsInv, SlotsInv,
         RetriedInProcess, Clear, OneSide, Accounted, IdsTypeOK, Places, Phases,
         clientVars, runVars, cleanupVars
<1>27. CASE ExitRun
  BY <1>27, OwnersDistinct, TestIdAssumption
     DEF ExitRun, Left, NobodyAt, ClientsInv, RecordsInv, SlotsInv, RetriedInProcess,
         Clear, OneSide, Accounted, IdsTypeOK, Places, Phases, clientVars, runVars,
         cleanupVars
<1>28. CASE SweepBegins
  BY <1>28, OwnersDistinct, TestIdAssumption
     DEF SweepBegins, LockFree, Listed, Recorded, ClientsInv, RecordsInv, SlotsInv,
         RetriedInProcess, Clear, OneSide, Accounted, IdsTypeOK, Places, Phases,
         clientVars, runVars, cleanupVars
<1>29. CASE SweepEnds
  BY <1>29, OwnersDistinct, TestIdAssumption
     DEF SweepEnds, ClientsInv, RecordsInv, SlotsInv, RetriedInProcess, Clear,
         OneSide, Accounted, IdsTypeOK, Places, Phases, clientVars, runVars,
         cleanupVars
<1>30. CASE UNCHANGED idVars
  BY <1>30
     DEF idVars, ClientsInv, RecordsInv, SlotsInv, RetriedInProcess, Clear, OneSide,
         Accounted, IdsTypeOK, Places, Phases, clientVars, runVars, cleanupVars
<1> QED
  BY <1>1, <1>2, <1>3, <1>4, <1>5, <1>6, <1>7, <1>8, <1>9, <1>10, <1>11, <1>12,
     <1>13, <1>14, <1>15, <1>16, <1>17, <1>18, <1>19, <1>20, <1>21, <1>22,
     <1>23, <1>24, <1>25, <1>26, <1>27, <1>28, <1>29, <1>30 DEF IdsNext, Client,
     Attempt

LEMMA IdsInitInv == IdsInit => IdsInv
<1>1. SUFFICES ASSUME IdsInit PROVE IdsInv
  OBVIOUS
<1>2. \A o \in Owners :
        record[o] = NoId /\ client[o] = NoId /\ at[o] = "off" /\ orphan[o] = "none"
  BY <1>1 DEF IdsInit
<1>3. ClientsInv
  BY <1>1, <1>2 DEF IdsInit, ClientsInv, IdsTypeOK, Places, Phases
<1>4. RecordsInv
  BY <1>2 DEF RecordsInv
<1>5. SlotsInv
  BY <1>1, <1>2, OwnersDistinct DEF IdsInit, SlotsInv, OneSide, Clear
<1> QED
  BY <1>3, <1>4, <1>5 DEF IdsInv

\* Each of the TestIDs belongs to an owner of its own, and the forecaster is not
\* among them while an environment or the evaluator is.
LEMMA FewIds ==
    ASSUME ClientsInv, SlotsInv, RetriedInProcess
    PROVE  Cardinality(live) <= Cardinality(Workers) + 1
<1> DEFINE Inhabitants == IF Clear(Forecaster) THEN Workers \cup {Evaluator}
                                               ELSE {Forecaster}
           idOf == [o \in Inhabitants |-> IF at[o] = "selected" THEN client[o]
                                                                ELSE record[o]]
           Held == {idOf[o] : o \in Inhabitants}
<1>1. IsFiniteSet(Inhabitants) /\ Cardinality(Inhabitants) <= Cardinality(Workers) + 1
  <2>1. /\ IsFiniteSet(Workers \cup {Evaluator})
        /\ Cardinality(Workers \cup {Evaluator}) = Cardinality(Workers) + 1
    BY TestIdAssumption, FS_AddElement
  <2>2. IsFiniteSet({Forecaster}) /\ Cardinality({Forecaster}) = 1
    BY FS_Singleton
  <2>3. Cardinality(Workers) \in Nat
    BY TestIdAssumption, FS_CardinalityType
  <2> QED
    BY <2>1, <2>2, <2>3
<1>2. live \subseteq Held
  <2>1. SUFFICES ASSUME NEW i \in live PROVE i \in Held
    OBVIOUS
  <2>2. PICK o \in Owners : i = record[o] \/ (at[o] = "selected" /\ i = client[o])
    BY DEF SlotsInv, Accounted
  <2>3. i \in Ids /\ i # NoId
    BY TestIdAssumption DEF ClientsInv, IdsTypeOK
  <2>4. ~Clear(o)
    BY <2>2, <2>3 DEF Clear
  <2>5. o \in Inhabitants
    BY <2>4, OwnersDistinct DEF SlotsInv, OneSide
  <2>6. at[o] = "selected" => record[o] = NoId
    BY DEF SlotsInv
  <2>7. idOf[o] = i
    BY <2>2, <2>3, <2>5, <2>6
  <2> QED
    BY <2>5, <2>7
<1>3. IsFiniteSet(Held) /\ Cardinality(Held) <= Cardinality(Inhabitants)
  <2>1. idOf \in Surjection(Inhabitants, Held)
    BY DEF Surjection
  <2> QED
    BY <1>1, <2>1, FS_Surjection
<1>4. Cardinality(live) <= Cardinality(Held)
  BY <1>2, <1>3, FS_Subset
<1>5. IsFiniteSet(live)
  BY <1>2, <1>3, FS_Subset
<1>6. /\ Cardinality(live) \in Nat /\ Cardinality(Held) \in Nat
      /\ Cardinality(Inhabitants) \in Nat /\ Cardinality(Workers) \in Nat
  BY <1>1, <1>3, <1>5, TestIdAssumption, FS_CardinalityType
<1> HIDE DEF Held, Inhabitants
<1> QED
  BY <1>1, <1>3, <1>4, <1>6

LEMMA IdsInvariance == IdsSpec => []IdsInv
<1>1. IdsInv /\ [IdsNext]_idVars => IdsInv'
  BY ClientsStep, RecordsStep, SlotsStep DEF IdsInv
<1> QED
  BY <1>1, IdsInitInv, PTL DEF IdsSpec

\* Records, clients, cleanup and lock keep their types, and the process of a run has
\* clients only under its lock.
THEOREM IdsTypeCorrect == IdsSpec => []IdsTypeOK
<1>1. IdsInv => IdsTypeOK
  BY DEF IdsInv, ClientsInv
<1> QED
  BY <1>1, IdsInvariance, PTL

\* With any faults a TestID that a MAPPO client works with is in its record; and where
\* only stops fail and attempts are retried in one process, the TestIDs of a run fit
\* its lease, for any number of environments.
THEOREM TestIdsAreAccounted == IdsSpec => []TestIdsAccounted
<1>1. IdsInv => TestIdsAccounted
  BY FewIds DEF IdsInv, RecordsInv, TestIdsAccounted, WorkingIdsRecorded, WithinSlots
<1> QED
  BY <1>1, IdsInvariance, PTL

\* However commands overlap and whatever fails, the sweep of one of them stops no
\* TestID that a live process of the run works with.
THEOREM SweepsSpareLiveRuns == IdsSpec => SweepSparesLiveRun
<1>1. IdsInv /\ [IdsNext]_idVars => [SweepSpares]_idVars
  <2>1. SUFFICES ASSUME IdsInv, lock = "sweep", NEW o \in Owners, client[o] \in live
                 PROVE  client[o] \in live'
    BY DEF SweepSpares
  <2>2. phase = "down"
    BY <2>1 DEF IdsInv, ClientsInv, IdsTypeOK, Phases
  <2>3. client[o] = NoId /\ live \subseteq Ids
    BY <2>1, <2>2 DEF IdsInv, ClientsInv, IdsTypeOK
  <2> QED
    BY <2>1, <2>3, TestIdAssumption
<1> QED
  BY <1>1, IdsInvariance, PTL DEF IdsSpec, SweepSparesLiveRun

-----------------------------------------------------------------------------
(* The train command. *)

\* A command that goes on has retries left, or has just used the last.
TypeInv ==
    /\ CommandTypeOK
    /\ stage \in Supervised => fails <= Attempts

\* What the counters know: the retries since the last commit, exactly.
BudgetInv ==
    /\ spent <= Attempts
    /\ stage \in Supervised =>
          /\ failedEpoch <= latest
          /\ failedEpoch = latest => spent = fails
          /\ failedEpoch < latest => spent = 0
    /\ stage = "waiting" => failedEpoch = latest

\* ManifestTruthful, and why no attempt trains on after it, or writes another
\* status for the same epoch.
ManifestInv ==
    /\ ManifestTruthful
    /\ manifest.status = "none" => manifest.epoch = 0
    /\ manifest.status = "incomplete" => manifest.epoch >= 2
    /\ stage = "trained" => ~MoreEpochs

\* A resume that is promised is one of the running command.
PromiseInv ==
    failure.scheduled /\ ~failure.resolved /\ ~died =>
        stage \in Supervised /\ restarted

LEMMA InitInv ==
    ASSUME CommandInit
    PROVE  TypeInv /\ BudgetInv /\ ManifestInv /\ PromiseInv
<1> USE SupervisorAssumption DEF CommandInit, NoManifest, NoFailure, Supervised
<1>1. TypeInv
  <2>1. manifest \in Manifest /\ failure \in Failure
    BY DEF Manifest, Failure
  <2>2. 0 \in 0..Attempts /\ 0 \in 0..(Attempts + 1)
    BY DEF SupervisorAssumption
  <2> QED
    BY <2>1, <2>2 DEF TypeInv, CommandTypeOK, Stages, Errors
<1>2. BudgetInv
  BY DEF BudgetInv
<1>3. ManifestInv
  BY DEF ManifestInv, ManifestTruthful
<1>4. PromiseInv
  BY DEF PromiseInv
<1> QED
  BY <1>1, <1>2, <1>3, <1>4

-----------------------------------------------------------------------------
(* Types. *)

LEMMA CountersTyped ==
    ASSUME TypeInv, NEW e \in CommittedEpoch
    PROVE  /\ e \in Nat
           /\ FailsNow(e) \in Nat
           /\ stage \in Supervised /\ fails <= Attempts =>
                FailsNow(e) \in 0..(Attempts + 1)
           /\ Spend \in Nat
BY SupervisorAssumption DEF TypeInv, CommandTypeOK, CommittedEpoch, FailsNow, Spend

LEMMA NextTypeInv ==
    ASSUME TypeInv, [CommandNext]_commandVars
    PROVE  TypeInv'
<1> USE SupervisorAssumption DEF TypeInv, CommandTypeOK, files, arguments, counters
<1>1. ASSUME NEW continue \in BOOLEAN, NEW resuming \in BOOLEAN,
             Command(continue, resuming)
      PROVE  TypeInv'
  BY <1>1 DEF Command, Stages, Supervised
<1>2. CASE RetryPreflight
  BY <1>2 DEF RetryPreflight
<1>3. CASE Refuse
  BY <1>3 DEF Refuse, Stages, Supervised
<1>4. CASE Supervise
  <2>1. failedEpoch' \in Nat
    BY <1>4, CountersTyped DEF Supervise
  <2>2. fails' \in 0..(Attempts + 1) /\ fails' <= Attempts
    BY <1>4 DEF Supervise, SupervisorAssumption
  <2> QED
    BY <1>4, <2>1, <2>2 DEF Supervise, Stages, Supervised
<1>5. CASE RefuseFreshStart
  BY <1>5 DEF RefuseFreshStart, Stages, Supervised, Errors
<1>6. CASE StartAttempt
  BY <1>6 DEF StartAttempt, Stages, Supervised
<1>7. CASE TrainEpoch
  BY <1>7 DEF TrainEpoch
<1>8. CASE EndTraining
  BY <1>8 DEF EndTraining, Stages, Supervised
<1>9. CASE WriteManifest
  BY <1>9 DEF WriteManifest, CompletionStatus, Manifest, Stages, Supervised
<1>10. CASE Annotate
  BY <1>10 DEF Annotate, Failure, Stages, Supervised
<1>11. ASSUME NEW kind \in Errors, Raise(kind)
       PROVE  TypeInv'
  BY <1>11 DEF Raise, Stages, Supervised
<1>12. ASSUME NEW e \in CommittedEpoch, Handle(e)
       PROVE  TypeInv'
  <2>1. stage \in Supervised
    BY <1>12 DEF Handle, Supervised
  <2>2. fails' \in 0..(Attempts + 1) /\ failedEpoch' \in Nat
    BY <1>12, <2>1, CountersTyped DEF Handle
  <2>3. failure' \in Failure
    BY <1>12 DEF Handle, CanRetry, Failure
  <2>4. spent' \in Nat
    BY <1>12, CountersTyped DEF Handle
  <2>5. stage' \in Stages /\ (stage' \in Supervised => fails' <= Attempts)
    BY <1>12 DEF Handle, CanRetry, Stages, Supervised
  <2> QED
    BY <1>12, <2>2, <2>3, <2>4, <2>5 DEF Handle
<1>13. CASE Recover
  BY <1>13 DEF Recover, Stages, Supervised
<1>14. CASE WaitTimesOut
  <2>1. fails' \in 0..(Attempts + 1)
    BY <1>14 DEF WaitTimesOut, Supervised
  <2>2. failure' \in Failure
    BY <1>14 DEF WaitTimesOut, FailureAfterWait, Failure
  <2>3. spent' \in Nat
    BY <1>14 DEF WaitTimesOut, Spend
  <2>4. stage' \in Stages /\ (stage' \in Supervised => fails' <= Attempts)
    BY <1>14 DEF WaitTimesOut, Stages, Supervised
  <2> QED
    BY <1>14, <2>1, <2>2, <2>3, <2>4 DEF WaitTimesOut
<1>15. CASE Die
  BY <1>15 DEF Die, Stages, Supervised
<1>16. CASE UNCHANGED commandVars
  BY <1>16 DEF commandVars
<1> QED
  BY <1>1, <1>2, <1>3, <1>4, <1>5, <1>6, <1>7, <1>8, <1>9, <1>10, <1>11,
     <1>12, <1>13, <1>14, <1>15, <1>16 DEF CommandNext, Work

-----------------------------------------------------------------------------
(* The retry budget, when latest.json can be read. *)

LEMMA NextBudgetInv ==
    ASSUME TypeInv, BudgetInv, [CommandNext]_commandVars, ~LatestUnreadable
    PROVE  BudgetInv'
<1> USE SupervisorAssumption
    DEF SupervisorAssumption, TypeInv, CommandTypeOK, BudgetInv, Supervised, files,
        arguments, counters
<1>0. \A e \in CommittedEpoch : e = latest
  BY DEF CommittedEpoch
<1>1. ASSUME NEW continue \in BOOLEAN, NEW resuming \in BOOLEAN,
             Command(continue, resuming)
      PROVE  BudgetInv'
  BY <1>1 DEF Command
<1>2. CASE RetryPreflight
  BY <1>2 DEF RetryPreflight
<1>3. CASE Refuse
  BY <1>3 DEF Refuse
<1>4. CASE Supervise
  <2>1. failedEpoch' = latest
    BY <1>0, <1>4 DEF Supervise
  <2> QED
    BY <1>4, <2>1 DEF Supervise
<1>5. CASE RefuseFreshStart
  BY <1>5 DEF RefuseFreshStart
<1>6. CASE StartAttempt
  BY <1>6 DEF StartAttempt
<1>7. CASE TrainEpoch
  BY <1>7 DEF TrainEpoch
<1>8. CASE EndTraining
  BY <1>8 DEF EndTraining
<1>9. CASE WriteManifest
  BY <1>9 DEF WriteManifest
<1>10. CASE Annotate
  BY <1>10 DEF Annotate
<1>11. ASSUME NEW kind \in Errors, Raise(kind)
       PROVE  BudgetInv'
  BY <1>11 DEF Raise
<1>12. ASSUME NEW e \in CommittedEpoch, Handle(e)
       PROVE  BudgetInv'
  <2>1. e = latest /\ failedEpoch' = latest /\ latest' = latest
    BY <1>0, <1>12 DEF Handle
  <2>2. CASE CanRetry(e)
    <3>1. fails' <= Attempts /\ fails' = spent + 1
      BY <1>12, <2>1, <2>2 DEF Handle, CanRetry, FailsNow
    <3>2. spent' = spent + 1
      BY <1>12, <2>2, <3>1 DEF Handle, Spend
    <3> QED
      BY <2>1, <3>1, <3>2
  <2>3. CASE ~CanRetry(e)
    BY <1>12, <2>3 DEF Handle
  <2> QED
    BY <2>2, <2>3
<1>13. CASE Recover
  BY <1>13 DEF Recover
<1>14. CASE WaitTimesOut
  BY <1>14 DEF WaitTimesOut, Spend
<1>15. CASE Die
  BY <1>15 DEF Die
<1>16. CASE UNCHANGED commandVars
  BY <1>16 DEF commandVars
<1> QED
  BY <1>1, <1>2, <1>3, <1>4, <1>5, <1>6, <1>7, <1>8, <1>9, <1>10, <1>11,
     <1>12, <1>13, <1>14, <1>15, <1>16 DEF CommandNext, Work

\* Whoever gives up has used the budget.
LEMMA SurrenderSpent ==
    ASSUME TypeInv, BudgetInv, ~LatestUnreadable, stage' = "idle",
           error = "transport",
           WaitTimesOut \/ \E e \in CommittedEpoch : Handle(e)
    PROVE  spent >= Attempts
<1> USE SupervisorAssumption
    DEF SupervisorAssumption, TypeInv, CommandTypeOK, BudgetInv, Supervised
<1>1. CASE WaitTimesOut
  BY <1>1 DEF WaitTimesOut
<1>2. ASSUME NEW e \in CommittedEpoch, Handle(e)
      PROVE  spent >= Attempts
  <2>1. e = latest
    BY DEF CommittedEpoch
  <2>2. ~CanRetry(e)
    BY <1>2 DEF Handle
  <2> QED
    BY <1>2, <2>1, <2>2 DEF Handle, CanRetry, FailsNow
<1> QED
  BY <1>1, <1>2

-----------------------------------------------------------------------------
(* The manifest. *)

LEMMA NextManifestInv ==
    ASSUME TypeInv, ManifestInv, [CommandNext]_commandVars
    PROVE  ManifestInv'
<1> USE SupervisorAssumption
    DEF SupervisorAssumption, TypeInv, CommandTypeOK, ManifestInv, ManifestTruthful,
        MoreEpochs, files, arguments
<1>1. ASSUME NEW continue \in BOOLEAN, NEW resuming \in BOOLEAN,
             Command(continue, resuming)
      PROVE  ManifestInv'
  BY <1>1 DEF Command
<1>2. CASE RetryPreflight
  BY <1>2 DEF RetryPreflight
<1>3. CASE Refuse
  BY <1>3 DEF Refuse
<1>4. CASE Supervise
  BY <1>4 DEF Supervise
<1>5. CASE RefuseFreshStart
  BY <1>5 DEF RefuseFreshStart
<1>6. CASE StartAttempt
  BY <1>6 DEF StartAttempt
<1>7. CASE TrainEpoch
  BY <1>7 DEF TrainEpoch, Manifest
<1>8. CASE EndTraining
  BY <1>8 DEF EndTraining
<1>9. CASE WriteManifest
  BY <1>9 DEF WriteManifest, CompletionStatus
<1>10. CASE Annotate
  BY <1>10 DEF Annotate
<1>11. ASSUME NEW kind \in Errors, Raise(kind)
       PROVE  ManifestInv'
  BY <1>11 DEF Raise
<1>12. ASSUME NEW e \in CommittedEpoch, Handle(e)
       PROVE  ManifestInv'
  BY <1>12 DEF Handle
<1>13. CASE Recover
  BY <1>13 DEF Recover
<1>14. CASE WaitTimesOut
  BY <1>14 DEF WaitTimesOut
<1>15. CASE Die
  BY <1>15 DEF Die
<1>16. CASE UNCHANGED commandVars
  BY <1>16 DEF commandVars
<1> QED
  BY <1>1, <1>2, <1>3, <1>4, <1>5, <1>6, <1>7, <1>8, <1>9, <1>10, <1>11,
     <1>12, <1>13, <1>14, <1>15, <1>16 DEF CommandNext, Work

\* Only TrainEpoch moves the run and only WriteManifest its manifest.
LEMMA EarlyStopKept ==
    ASSUME TypeInv, ManifestInv, [CommandNext]_commandVars,
           manifest.status = "early_stopped"
    PROVE  UNCHANGED <<latest, stopped, manifest>>
<1> USE DEF TypeInv, CommandTypeOK, ManifestInv, ManifestTruthful, files
<1>1. stopped /\ manifest.epoch = latest
  <2>1. manifest.epoch \in Nat
    BY DEF Manifest
  <2> QED
    BY <2>1
<1>2. ~TrainEpoch
  BY <1>1 DEF TrainEpoch, MoreEpochs
<1>3. CASE WriteManifest
  <2>1. manifest = [status |-> "early_stopped", epoch |-> latest]
    BY <1>1 DEF Manifest
  <2> QED
    BY <1>1, <1>3, <2>1 DEF WriteManifest, CompletionStatus
<1>4. CASE UNCHANGED commandVars
  BY <1>4 DEF commandVars
<1>5. ASSUME NEW continue \in BOOLEAN, NEW resuming \in BOOLEAN,
             Command(continue, resuming)
      PROVE  UNCHANGED <<latest, stopped, manifest>>
  BY <1>5 DEF Command
<1>6. CASE RetryPreflight \/ Refuse \/ Supervise
  BY <1>6 DEF RetryPreflight, Refuse, Supervise
<1>7. CASE RefuseFreshStart \/ StartAttempt \/ EndTraining
  BY <1>7 DEF RefuseFreshStart, StartAttempt, EndTraining
<1>8. CASE Annotate \/ Recover \/ WaitTimesOut \/ Die
  BY <1>8 DEF Annotate, Recover, WaitTimesOut, Die
<1>9. CASE (\E kind \in Errors : Raise(kind))
           \/ \E e \in CommittedEpoch : Handle(e)
  BY <1>9 DEF Raise, Handle
<1> QED
  BY <1>2, <1>3, <1>4, <1>5, <1>6, <1>7, <1>8, <1>9 DEF CommandNext, Work

-----------------------------------------------------------------------------
(* The failure record. *)

LEMMA NextPromiseInv ==
    ASSUME TypeInv, PromiseInv, [CommandNext]_commandVars
    PROVE  PromiseInv'
<1> USE DEF TypeInv, CommandTypeOK, Failure, PromiseInv, Supervised, files,
        arguments, counters
<1>1. ASSUME NEW continue \in BOOLEAN, NEW resuming \in BOOLEAN,
             Command(continue, resuming)
      PROVE  PromiseInv'
  BY <1>1 DEF Command
<1>2. CASE RetryPreflight
  BY <1>2 DEF RetryPreflight
<1>3. CASE Refuse
  BY <1>3 DEF Refuse
<1>4. CASE Supervise
  BY <1>4 DEF Supervise
<1>5. CASE RefuseFreshStart
  BY <1>5 DEF RefuseFreshStart
<1>6. CASE StartAttempt
  BY <1>6 DEF StartAttempt
<1>7. CASE TrainEpoch
  BY <1>7 DEF TrainEpoch
<1>8. CASE EndTraining
  BY <1>8 DEF EndTraining
<1>9. CASE WriteManifest
  BY <1>9 DEF WriteManifest
<1>10. CASE Annotate
  BY <1>10 DEF Annotate
<1>11. ASSUME NEW kind \in Errors, Raise(kind)
       PROVE  PromiseInv'
  BY <1>11 DEF Raise
<1>12. ASSUME NEW e \in CommittedEpoch, Handle(e)
       PROVE  PromiseInv'
  BY <1>12 DEF Handle, CanRetry
<1>13. CASE Recover
  BY <1>13 DEF Recover
<1>14. CASE WaitTimesOut
  BY <1>14 DEF WaitTimesOut, FailureAfterWait
<1>15. CASE Die
  BY <1>15 DEF Die
<1>16. CASE UNCHANGED commandVars
  BY <1>16 DEF commandVars
<1> QED
  BY <1>1, <1>2, <1>3, <1>4, <1>5, <1>6, <1>7, <1>8, <1>9, <1>10, <1>11,
     <1>12, <1>13, <1>14, <1>15, <1>16 DEF CommandNext, Work

-----------------------------------------------------------------------------

IInv == TypeInv /\ ManifestInv /\ PromiseInv

LEMMA CommandInvariance == CommandSpec => []IInv
<1>1. CommandInit => IInv
  BY InitInv DEF IInv
<1>2. IInv /\ [CommandNext]_commandVars => IInv'
  BY NextTypeInv, NextManifestInv, NextPromiseInv DEF IInv
<1> QED
  BY <1>1, <1>2, PTL DEF CommandSpec

LEMMA BudgetInvariance ==
    ASSUME ~LatestUnreadable
    PROVE  CommandSpec => [](TypeInv /\ BudgetInv)
<1>1. CommandInit => TypeInv /\ BudgetInv
  BY InitInv
<1>2. TypeInv /\ BudgetInv /\ [CommandNext]_commandVars =>
        (TypeInv /\ BudgetInv)'
  BY NextTypeInv, NextBudgetInv
<1> QED
  BY <1>1, <1>2, PTL DEF CommandSpec

\* The files and the counters of the supervisor keep their types.
THEOREM CommandTypeCorrect == CommandSpec => []CommandTypeOK
<1>1. IInv => CommandTypeOK
  BY DEF IInv, TypeInv
<1> QED
  BY <1>1, CommandInvariance, PTL

\* If latest.json can be read, a command never retries more often than allowed
\* without a new checkpoint.
THEOREM RetriesAlwaysBounded ==
    ASSUME ~LatestUnreadable
    PROVE  CommandSpec => []RetriesBounded
<1>1. BudgetInv => RetriesBounded
  BY DEF BudgetInv, RetriesBounded
<1> QED
  BY <1>1, BudgetInvariance, PTL

\* Under the same condition it gives up on a transport failure only when all
\* its retries are used.
THEOREM SurrenderOnlyWhenSpent ==
    ASSUME ~LatestUnreadable
    PROVE  CommandSpec => SurrendersOnlyWhenSpent
<1>1. TypeInv /\ BudgetInv =>
        [/\ error = "transport"
         /\ WaitTimesOut \/ \E e \in CommittedEpoch : Handle(e)
         /\ stage' = "idle"
         => spent >= Attempts]_commandVars
  BY SurrenderSpent
<1> QED
  BY <1>1, BudgetInvariance, PTL DEF SurrendersOnlyWhenSpent, CommandSpec

\* run_manifest.json never says more than the checkpoints do.
THEOREM ManifestAlwaysTruthful == CommandSpec => []ManifestTruthful
<1>1. IInv => ManifestTruthful
  BY DEF IInv, ManifestInv
<1> QED
  BY <1>1, CommandInvariance, PTL

\* No command trains on, or rewrites the manifest, after an early stop.
THEOREM EarlyStopIsFinal == CommandSpec => EarlyStoppedIsFinal
<1>1. IInv /\ [CommandNext]_commandVars =>
        [manifest.status = "early_stopped" =>
            UNCHANGED <<latest, stopped, manifest>>]_commandVars
  BY EarlyStopKept DEF IInv
<1> QED
  BY <1>1, CommandInvariance, PTL DEF EarlyStoppedIsFinal, CommandSpec

\* A scheduled resume has a command that will do it, unless that died.
THEOREM PromisesKept == CommandSpec => []PromiseKept
<1>1. IInv => PromiseKept
  BY DEF IInv, PromiseInv, PromiseKept
<1> QED
  BY <1>1, CommandInvariance, PTL
-----------------------------------------------------------------------------
(* The suite command. *)

\* The job just started would fit beside the recorded ones.
FitsIn(j) ==
    /\ j \notin active
    /\ Admissible(j)
    /\ HasPlace

\* What is recorded keeps apart the cases and fits the slots.
ActiveInv ==
    /\ \A a, b \in active : Case[a] = Case[b] => a = b
    /\ Cardinality(active) <= maxParallel
    /\ gpuSlots > 0 => Cardinality(GpuJobs(active)) <= gpuSlots

\* Every process alive is recorded, or is the one just started.
RunningInv ==
    /\ Running \subseteq active \cup {job}
    /\ job \in Running \ active => FitsIn(job)
    /\ suiteStage \in {"filling", "polling"} => Running \subseteq active
    /\ ~InterruptsLaunch /\ suiteStage \in {"closing", "ended"} =>
          Running \subseteq active
    /\ suiteStage = "launched" => job \in Jobs /\ FitsIn(job)
    /\ suiteStage = "ended" => ToStop = {}

\* Nothing is lost on the way from the queue to the failures.
AccountInv ==
    ~raised =>
        /\ \A j \in Jobs : child[j] = "none" => j \in queue
        /\ \A j \in Jobs : child[j] = "failed" =>
              j \in active \cup failures \/ (suiteStage = "launched" /\ j = job)
        /\ \A j \in failures : child[j] = "failed"
        /\ suiteStage \in {"closing", "ended"} => queue = {} /\ active = {}
        /\ suiteStage \in {"closing", "ended"} => Running = {}

SuiteIInv == SuiteTypeOK /\ ActiveInv /\ RunningInv /\ AccountInv

LEMMA ActiveFinite ==
    ASSUME SuiteTypeOK
    PROVE  /\ IsFiniteSet(active)
           /\ IsFiniteSet(GpuJobs(active))
           /\ Cardinality(active) \in Nat
           /\ Cardinality(GpuJobs(active)) \in Nat
<1>1. IsFiniteSet(Jobs)
  BY SuiteAssumption, FS_Interval DEF Jobs, SuiteAssumption
<1>2. active \subseteq Jobs /\ GpuJobs(active) \subseteq Jobs
  BY DEF SuiteTypeOK, GpuJobs
<1> QED
  BY <1>1, <1>2, FS_Subset, FS_CardinalityType

\* Removing jobs frees slots.
LEMMA FewerSlots ==
    ASSUME SuiteTypeOK, NEW less \in SUBSET active
    PROVE  /\ Cardinality(less) <= Cardinality(active)
           /\ Cardinality(GpuJobs(less)) <= Cardinality(GpuJobs(active))
           /\ Cardinality(less) \in Nat
           /\ Cardinality(GpuJobs(less)) \in Nat
<1>1. GpuJobs(less) \subseteq GpuJobs(active)
  BY DEF GpuJobs
<1> QED
  BY <1>1, ActiveFinite, FS_Subset, FS_CardinalityType

\* One more takes one more.
LEMMA OneMoreSlot ==
    ASSUME SuiteTypeOK, ActiveInv, NEW j \in Jobs, FitsIn(j)
    PROVE  /\ Cardinality(active \cup {j}) <= maxParallel
           /\ gpuSlots > 0 => Cardinality(GpuJobs(active \cup {j})) <= gpuSlots
           /\ IsFiniteSet(active \cup {j})
           /\ IsFiniteSet(GpuJobs(active \cup {j}))
<1> USE ActiveFinite
<1>1. IsFiniteSet(active \cup {j})
      /\ Cardinality(active \cup {j}) = Cardinality(active) + 1
  BY FS_AddElement DEF FitsIn
<1>2. Cardinality(active) + 1 <= maxParallel
  BY DEF FitsIn, HasPlace, SuiteTypeOK
<1>3. CASE NeedsGpu(j)
  <2>1. GpuJobs(active \cup {j}) = GpuJobs(active) \cup {j}
    BY <1>3 DEF GpuJobs
  <2>2. j \notin GpuJobs(active)
    BY DEF FitsIn, GpuJobs
  <2>3. IsFiniteSet(GpuJobs(active \cup {j}))
        /\ Cardinality(GpuJobs(active \cup {j}))
              = Cardinality(GpuJobs(active)) + 1
    <3>1. \A S : IsFiniteSet(S) /\ j \notin S =>
                IsFiniteSet(S \cup {j})
                /\ Cardinality(S \cup {j}) = Cardinality(S) + 1
      BY FS_AddElement
    <3> QED
      BY <2>1, <2>2, <3>1
  <2>4. Cardinality(GpuJobs(active)) < gpuSlots
    BY <1>3 DEF FitsIn, Admissible
  <2> QED
    BY <1>1, <1>2, <2>3, <2>4 DEF SuiteTypeOK
<1>4. CASE ~NeedsGpu(j)
  <2>1. GpuJobs(active \cup {j}) = GpuJobs(active)
    BY <1>4 DEF GpuJobs
  <2> QED
    BY <1>1, <1>2, <2>1 DEF ActiveInv
<1> QED
  BY <1>3, <1>4

LEMMA InitSuiteIInv ==
    ASSUME SuiteInit
    PROVE  SuiteIInv
<1> USE SuiteAssumption DEF SuiteAssumption, SuiteInit, Jobs
<1>1. SuiteTypeOK
  BY DEF SuiteTypeOK, SuiteStages
<1>2. ActiveInv
  <2>1. GpuJobs(active) = {}
    BY DEF GpuJobs
  <2>2. active = {} /\ Cardinality({}) = 0
    BY FS_EmptySet
  <2>3. Cardinality(active) <= maxParallel
    BY <2>2
  <2>4. gpuSlots > 0 => Cardinality(GpuJobs(active)) <= gpuSlots
    BY <2>1, <2>2
  <2> QED
    BY <2>2, <2>3, <2>4 DEF ActiveInv
<1>3. RunningInv
  BY DEF RunningInv, Running
<1>4. AccountInv
  BY DEF AccountInv
<1> QED
  BY <1>1, <1>2, <1>3, <1>4 DEF SuiteIInv

LEMMA NextSuiteTypeOK ==
    ASSUME SuiteTypeOK, RunningInv, [SuiteNext]_suiteVars
    PROVE  SuiteTypeOK'
<1> USE DEF SuiteTypeOK, options
<1>1. ASSUME NEW j \in Jobs, Launch(j)
      PROVE  SuiteTypeOK'
  BY <1>1 DEF Launch, Popped, SuiteStages
<1>2. ASSUME NEW j \in Jobs, LaunchFails(j)
      PROVE  SuiteTypeOK'
  BY <1>2 DEF LaunchFails, Popped, SuiteStages
<1>3. ASSUME NEW j \in Jobs, StopChild(j)
      PROVE  SuiteTypeOK'
  BY <1>3 DEF StopChild, ToStop, Survivors, Running
<1>4. CASE Remember
  BY <1>4 DEF Remember, SuiteStages, RunningInv
<1>5. CASE StopFilling
  BY <1>5 DEF StopFilling, SuiteStages
<1>6. CASE Poll
  BY <1>6 DEF Poll, Survivors, FailuresSeen, Failed, SuiteStages
<1>7. CASE End
  BY <1>7 DEF End, SuiteStages
<1>8. CASE Interrupt
  BY <1>8 DEF Interrupt, SuiteStages
<1>9. ASSUME NEW j \in Jobs, ChildEnds(j)
      PROVE  SuiteTypeOK'
  BY <1>9 DEF ChildEnds
<1>10. CASE UNCHANGED suiteVars
  BY <1>10 DEF suiteVars
<1> QED
  BY <1>1, <1>2, <1>3, <1>4, <1>5, <1>6, <1>7, <1>8, <1>9, <1>10
  DEF SuiteNext, Schedule

\* Only Remember and Poll change what is recorded.
LEMMA NextActiveInv ==
    ASSUME SuiteTypeOK, ActiveInv, RunningInv, AccountInv, [SuiteNext]_suiteVars
    PROVE  ActiveInv'
<1>1. CASE Remember
  <2>1. job \in Jobs /\ FitsIn(job)
    BY <1>1 DEF Remember, RunningInv
  <2>2. \A a \in active : Case[a] # Case[job]
    BY <2>1 DEF FitsIn, Admissible
  <2>3. \A a, b \in active \cup {job} : Case[a] = Case[b] => a = b
    BY <2>2 DEF ActiveInv
  <2>4. GpuJobs(active)' = GpuJobs(active \cup {job})
    BY <1>1 DEF Remember, options, GpuJobs, NeedsGpu
  <2> QED
    BY <1>1, <2>1, <2>3, <2>4, OneMoreSlot
    DEF Remember, options, ActiveInv
<1>2. CASE Poll
  <2>1. active' \subseteq active
    BY <1>2 DEF Poll, Survivors
  <2>2. GpuJobs(active)' = GpuJobs(active')
    BY <1>2 DEF Poll, options, GpuJobs, NeedsGpu
  <2> QED
    BY <1>2, <2>1, <2>2, FewerSlots, ActiveFinite
    DEF Poll, options, ActiveInv, SuiteTypeOK
<1>3. CASE UNCHANGED <<options, active>>
  BY <1>3 DEF options, ActiveInv, GpuJobs, NeedsGpu
<1>4. ASSUME NEW j \in Jobs, Launch(j) \/ LaunchFails(j) \/ StopChild(j)
      PROVE  ActiveInv'
  BY <1>3, <1>4 DEF Launch, LaunchFails, StopChild
<1>5. CASE StopFilling \/ End \/ Interrupt
  BY <1>3, <1>5 DEF StopFilling, End, Interrupt
<1>6. ASSUME NEW j \in Jobs, ChildEnds(j)
      PROVE  ActiveInv'
  BY <1>3, <1>6 DEF ChildEnds
<1>7. CASE UNCHANGED suiteVars
  BY <1>3, <1>7 DEF suiteVars
<1> QED
  BY <1>1, <1>2, <1>4, <1>5, <1>6, <1>7 DEF SuiteNext, Schedule

\* Admissible depends only on what is recorded and on the options.
LEMMA FitsInStable ==
    ASSUME SuiteTypeOK, NEW j \in Jobs, FitsIn(j), UNCHANGED <<options, active>>
    PROVE  FitsIn(j)'
BY DEF FitsIn, Admissible, HasPlace, NeedsGpu, GpuJobs, options

\* A job is started beside recorded ones, and recorded before the next one.
LEMMA NextRunningInv ==
    ASSUME SuiteTypeOK, ActiveInv, RunningInv, [SuiteNext]_suiteVars
    PROVE  RunningInv'
<1> USE DEF SuiteTypeOK
<1>1. ASSUME NEW j \in Jobs, Launch(j)
      PROVE  RunningInv'
  <2>1. FitsIn(j)
    BY <1>1 DEF Launch, Selected, Candidates, FitsIn, Admissible
  <2>2. FitsIn(j)'
    BY <1>1, <2>1, FitsInStable DEF Launch
  <2>3. Running' = Running \cup {j} /\ Running \subseteq active
    BY <1>1 DEF Launch, Running, RunningInv
  <2>4. suiteStage' = "launched" /\ job' = j /\ active' = active
    BY <1>1 DEF Launch
  <2> QED
    BY <2>2, <2>3, <2>4 DEF RunningInv
<1>2. ASSUME UNCHANGED <<options, active, job>>, Running' \subseteq Running,
             suiteStage' \in {"filling", "polling"} =>
                suiteStage \in {"filling", "polling"},
             suiteStage' \in {"closing", "ended"} =>
                \/ suiteStage \in {"filling", "polling", "closing", "ended"}
                \/ InterruptsLaunch,
             suiteStage' # "launched" \/ suiteStage = "launched",
             suiteStage' = "ended" => ToStop' = {}
      PROVE  RunningInv'
  <2>1. ASSUME FitsIn(job), job \in Jobs
        PROVE  FitsIn(job)'
    BY <1>2, <2>1 DEF FitsIn, Admissible, HasPlace, NeedsGpu, GpuJobs, options
  <2>2. job \in Running => job \in Jobs
    BY DEF Running
  <2> QED
    BY <1>2, <2>1, <2>2 DEF RunningInv
<1>3. ASSUME NEW j \in Jobs, LaunchFails(j)
      PROVE  RunningInv'
  BY <1>2, <1>3 DEF LaunchFails, Running
<1>4. ASSUME NEW j \in Jobs, StopChild(j)
      PROVE  RunningInv'
  <2>1. Running' \subseteq Running
    BY <1>4 DEF StopChild, Running
  <2> QED
    BY <1>2, <1>4, <2>1 DEF StopChild
<1>5. CASE Remember
  <2>1. Running' = Running /\ suiteStage' = "filling" /\ job' = job
        /\ active' = active \cup {job}
    BY <1>5 DEF Remember, Running
  <2> QED
    BY <2>1 DEF RunningInv
<1>6. CASE StopFilling
  BY <1>2, <1>6 DEF StopFilling, Running
<1>7. CASE Poll
  <2>1. Running \subseteq active /\ Running' = Running /\ active' = Running
    BY <1>7 DEF Poll, Running, RunningInv, Survivors
  <2>2. suiteStage' \in {"closing", "filling"}
    BY <1>7 DEF Poll
  <2> QED
    BY <2>1, <2>2 DEF RunningInv
<1>8. CASE End
  BY <1>2, <1>8 DEF End, ToStop, Survivors, Running
<1>9. CASE Interrupt
  BY <1>2, <1>9 DEF Interrupt, Running
<1>10. ASSUME NEW j \in Jobs, ChildEnds(j)
       PROVE  RunningInv'
  <2>1. Running' \subseteq Running
    BY <1>10 DEF ChildEnds, Running
  <2>2. suiteStage = "ended" => ToStop' = {}
    BY <1>10, <2>1 DEF ChildEnds, RunningInv, ToStop, Survivors
  <2> QED
    BY <1>2, <1>10, <2>1, <2>2 DEF ChildEnds
<1>11. CASE UNCHANGED suiteVars
  BY <1>2, <1>11 DEF suiteVars, Running, ToStop, Survivors, RunningInv
<1> QED
  BY <1>1, <1>3, <1>4, <1>5, <1>6, <1>7, <1>8, <1>9, <1>10, <1>11
  DEF SuiteNext, Schedule

\* Until something raises, jobs only move on: queue, child, failures.
LEMMA NextAccountInv ==
    ASSUME SuiteTypeOK, RunningInv, AccountInv, [SuiteNext]_suiteVars
    PROVE  AccountInv'
<1> USE DEF SuiteTypeOK, AccountInv
<1>1. ASSUME NEW j \in Jobs, Launch(j)
      PROVE  AccountInv'
  BY <1>1 DEF Launch, Selected, Candidates, Popped
<1>2. ASSUME NEW j \in Jobs, LaunchFails(j)
      PROVE  AccountInv'
  BY <1>2 DEF LaunchFails
<1>3. ASSUME NEW j \in Jobs, StopChild(j)
      PROVE  AccountInv'
  BY <1>3 DEF StopChild, ToStop, Survivors
<1>4. CASE Remember
  BY <1>4 DEF Remember
<1>5. CASE StopFilling
  BY <1>5 DEF StopFilling
<1>6. CASE Poll
  BY <1>6 DEF Poll, Survivors, FailuresSeen, Failed, Running, RunningInv
<1>7. CASE End
  BY <1>7 DEF End, Running
<1>8. CASE Interrupt
  BY <1>8 DEF Interrupt
<1>9. ASSUME NEW j \in Jobs, ChildEnds(j)
      PROVE  AccountInv'
  <2> SUFFICES ASSUME ~raised
               PROVE  AccountInv'
    BY <1>9 DEF ChildEnds
  <2>1. j \in Running
    BY <1>9 DEF ChildEnds, Running
  <2>2. suiteStage \in {"filling", "launched", "polling"}
    BY <2>1 DEF SuiteStages
  <2>3. j \in active \/ (suiteStage = "launched" /\ j = job)
    BY <2>1, <2>2 DEF RunningInv
  <2>4. PICK result \in {"done", "failed"} :
           child' = [child EXCEPT ![j] = result]
    BY <1>9 DEF ChildEnds
  <2>5. child[j] = "running"
    BY <2>1 DEF Running
  <2>6. \A i \in Jobs : child'[i] = IF i = j THEN result ELSE child[i]
    BY <2>4
  <2> QED
    BY <1>9, <2>2, <2>3, <2>5, <2>6 DEF ChildEnds
<1>10. CASE UNCHANGED suiteVars
  BY <1>10 DEF suiteVars, Running
<1> QED
  BY <1>1, <1>2, <1>3, <1>4, <1>5, <1>6, <1>7, <1>8, <1>9, <1>10
  DEF SuiteNext, Schedule

LEMMA SuiteInvariance == SuiteSpec => []SuiteIInv
<1>1. SuiteIInv /\ [SuiteNext]_suiteVars => SuiteIInv'
  BY NextSuiteTypeOK, NextActiveInv, NextRunningInv, NextAccountInv DEF SuiteIInv
<1> QED
  BY InitSuiteIInv, <1>1, PTL DEF SuiteSpec

\* The scheduler's variables keep their types: a job leaves the queue for
\* good, and only known jobs are started or counted.
THEOREM SuiteTypeCorrect == SuiteSpec => []SuiteTypeOK
<1>1. SuiteIInv => SuiteTypeOK
  BY DEF SuiteIInv
<1> QED
  BY SuiteInvariance, <1>1, PTL

\* Two children of one building case never run at once, for any tasks, in
\* any order, wherever an interrupt falls.
THEOREM CasesStayDistinct == SuiteSpec => []DistinctCases
<1>1. SuiteIInv => DistinctCases
  <2> SUFFICES ASSUME SuiteIInv, NEW j \in Running, NEW k \in Running,
                      Case[j] = Case[k]
               PROVE  j = k
    BY DEF DistinctCases
  <2>1. Running \subseteq active \cup {job}
    BY DEF SuiteIInv, RunningInv
  <2>2. job \in Running \ active => \A a \in active : Case[a] # Case[job]
    BY DEF SuiteIInv, RunningInv, FitsIn, Admissible
  <2> QED
    BY <2>1, <2>2 DEF SuiteIInv, ActiveInv
<1> QED
  BY SuiteInvariance, <1>1, PTL

\* The processes alive fit --max-parallel and --gpu-slots, also while one
\* is started and not yet recorded.
THEOREM SlotsAlwaysRespected == SuiteSpec => []SlotsRespected
<1>1. SuiteIInv => SlotsRespected
  <2> SUFFICES ASSUME SuiteIInv
               PROVE  SlotsRespected
    OBVIOUS
  <2> USE DEF SuiteIInv, SuiteTypeOK
  <2>1. CASE Running \subseteq active
    <3>1. GpuJobs(Running) \subseteq GpuJobs(active)
      BY <2>1 DEF GpuJobs
    <3> QED
      BY <2>1, FewerSlots DEF ActiveInv, SlotsRespected
  <2>2. CASE job \in Running \ active
    <3>1. job \in Jobs /\ FitsIn(job) /\ Running \subseteq active \cup {job}
      BY <2>2 DEF RunningInv, Running
    <3>2. GpuJobs(Running) \subseteq GpuJobs(active \cup {job})
      BY <3>1 DEF GpuJobs
    <3>3. Cardinality(Running) <= Cardinality(active \cup {job})
          /\ Cardinality(Running) \in Nat
          /\ Cardinality(active \cup {job}) \in Nat
      BY <3>1, OneMoreSlot, FS_Subset, FS_CardinalityType
    <3>4. Cardinality(GpuJobs(Running))
             <= Cardinality(GpuJobs(active \cup {job}))
          /\ Cardinality(GpuJobs(Running)) \in Nat
          /\ Cardinality(GpuJobs(active \cup {job})) \in Nat
      BY <3>1, <3>2, OneMoreSlot, FS_Subset, FS_CardinalityType
    <3> QED
      BY <3>1, <3>3, <3>4, OneMoreSlot DEF SlotsRespected
  <2> QED
    BY <2>1, <2>2 DEF RunningInv
<1> QED
  BY SuiteInvariance, <1>1, PTL

\* A suite that ends by itself has run every task and raises for exactly
\* the children that failed.
THEOREM EverythingAccounted == SuiteSpec => []AllAccounted
<1>1. SuiteIInv => AllAccounted
  BY DEF SuiteIInv, SuiteTypeOK, AccountInv, AllAccounted, Running
<1> QED
  BY SuiteInvariance, <1>1, PTL

\* No child outlives the suite, if no interrupt falls between Popen and
\* append.
THEOREM ChildrenAlwaysStopped ==
    ASSUME ~InterruptsLaunch
    PROVE  SuiteSpec => []ChildrenStopped
<1>1. SuiteIInv => ChildrenStopped
  BY DEF SuiteIInv, RunningInv, ChildrenStopped, ToStop, Survivors
<1> QED
  BY SuiteInvariance, <1>1, PTL
=============================================================================
