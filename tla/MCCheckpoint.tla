---------------------------- MODULE MCCheckpoint ----------------------------
(* One save may be half written when the next poll reads it; two periodic  *)
(* saves, and a run that resumes another.                                  *)
EXTENDS Checkpoint
=============================================================================
