----------------------------- MODULE MCCheckpoint -----------------------------
(* A small instance of Checkpoint: three participants, one of them faulty.    *)
EXTENDS Checkpoint
CONSTANTS a, b, c
===============================================================================
