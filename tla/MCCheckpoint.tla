---------------------------- MODULE MCCheckpoint ----------------------------
(* Small instances of Checkpoint for TLC.                                  *)
EXTENDS Checkpoint
=============================================================================
