----------------------------- MODULE MCSequence -----------------------------
(* The drive with the history of its jumps, with the constants of MCDrive. *)
EXTENDS MCDrive, DriveHistory
=============================================================================
