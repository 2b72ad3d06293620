------------------------------ MODULE MCBackups ------------------------------
(* One picture that comes and goes, four days in weeks of two.              *)
EXTENDS Backups
=============================================================================
