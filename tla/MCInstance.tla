----------------------------- MODULE MCInstance -----------------------------
(***************************************************************************)
(* A founder and one more; two forms; one renamed instance.                *)
(***************************************************************************)
EXTENDS Instance

CONSTANTS root, ann, f1, f2, old, new
=============================================================================
