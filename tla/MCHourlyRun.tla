---------------------------- MODULE MCHourlyRun ----------------------------
EXTENDS HourlyRun

CONSTANTS north, south

TheZones == <<north, south>>
=============================================================================
