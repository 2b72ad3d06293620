---------------------------- MODULE MCCredentials ----------------------------
(* Credentials on a small instance: one member with an account, one or two *)
(* handlers in flight, two or three tokens and one or two revocations.      *)
EXTENDS Credentials, TLC

Interchangeable == Permutations(Caps) \cup Permutations(Requests)
=============================================================================
