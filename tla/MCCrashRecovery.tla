-------------------------- MODULE MCCrashRecovery --------------------------
(* Small instances of CrashRecovery for TLC. *)
EXTENDS CrashRecovery, TLC

DocSymmetry == Permutations(Docs)
=============================================================================
