-------------------------- MODULE MCRecoveryJournal --------------------------
(* Small instances of RecoveryJournal for TLC. *)
EXTENDS RecoveryJournal
=============================================================================
