---------------------------- MODULE MCCheckpoints ---------------------------
(* Chains of a few blocks; see the configurations for the checkpoints.     *)
EXTENDS Checkpoints
=============================================================================
