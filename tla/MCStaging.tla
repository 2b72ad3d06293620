------------------------------ MODULE MCStaging ------------------------------
(* One session with two requests at a time, two uploads and two drafts.     *)
EXTENDS Staging
=============================================================================
