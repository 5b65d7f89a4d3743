--------------------------- MODULE MCSharedService ---------------------------
(***************************************************************************)
(* Small instances of what runs share at the BOPTEST service: its worker      *)
(* slots (CapacityLeases) and the TestIDs of one run (TestIds).  A behaviour  *)
(* is one of one part, chosen at the beginning; the others keep still.        *)
(*   one: trainers t1, t2, t3 and an evaluator e1 on one host;                *)
(*   two: the same on two hosts whose clocks differ by a tick, where liveness *)
(*        is judged by heartbeats and e1 declares another capacity;           *)
(*   ids: two environments with every fault at once, and the same in one      *)
(*        process whose requests fail and are retried.                        *)
(***************************************************************************)
EXTENDS CapacityLeases, TestIds, TLC

CONSTANTS t1, t2, t3, e1

VARIABLE part

OneHost == [p \in Procs |-> "a"]
TwoHosts == [p \in Procs |-> IF p \in {t1, e1} THEN "a" ELSE "b"]
SameClock == [h \in {"a"} |-> 0]
SkewedClocks == [h \in {"a", "b"} |-> IF h = "a" THEN 1 ELSE 0]

DeclaredTwelve == [p \in Procs |-> 12]
DeclaredUnlike == [p \in Procs |-> IF p = e1 THEN 6 ELSE 12]

Two == INSTANCE CapacityLeases
           WITH Host <- TwoHosts, Clock <- SkewedClocks, Declared <- DeclaredUnlike,
                StaleAfter <- 2, MaxBeatGap <- 1, BeatsFail <- FALSE

ASSUME PartAssumptions == Two!ClockAssumption

Retried == [algorithm |-> "mappo", faults |-> {"stop"}]

MCSettings ==
    {[algorithm |-> a, faults |-> AllFaults] : a \in {"ppo", "mappo"}} \cup {Retried}

allVars == <<part, vars, idVars>>

PartsInit ==
    /\ part \in {"one", "two", "ids"}
    /\ IF part = "two" THEN Two!Init ELSE Init
    /\ IdsInit
    /\ part # "ids" => setting = Retried

PartsNext ==
    /\ UNCHANGED part
    /\ \/ part = "one" /\ Next /\ UNCHANGED idVars
       \/ part = "two" /\ Two!Next /\ UNCHANGED idVars
       \/ part = "ids" /\ IdsNext /\ UNCHANGED vars

PartsSpec == PartsInit /\ [][PartsNext]_allVars

Renaming == Permutations(LeaseIds)
=============================================================================
