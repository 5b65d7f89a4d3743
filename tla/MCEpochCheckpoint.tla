-------------------------- MODULE MCEpochCheckpoint --------------------------
(***************************************************************************)
(* Small instances of EpochCheckpoint for TLC.                             *)
(***************************************************************************)
EXTENDS EpochCheckpoint

\* Two returns: a best that is beaten once and epochs that do not beat it.
MCScores == {1, 2}

\* Two tokens: a replayed file may equal the one it replaces, or differ.
MCTokens == {0, 1}
=============================================================================
