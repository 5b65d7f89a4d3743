-------------------------- MODULE MCSuiteScheduler --------------------------
(***************************************************************************)
(* The suite of all registered tasks, in the order of config.py, with        *)
(* mz_air_mappo named once more.                                           *)
(***************************************************************************)
EXTENDS SuiteScheduler

RegisteredCases ==
    <<"sz_air", "mz_air", "mz_air", "mz_hydro", "mz_hydro", "mz_air">>

RegisteredAlgorithms == <<"ppo", "ppo", "mappo", "ppo", "mappo", "mappo">>
=============================================================================
