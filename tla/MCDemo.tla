------------------------------- MODULE MCDemo -------------------------------
(***************************************************************************)
(* A demo side beside a real one; rae belongs to a household on each; a    *)
(* cabin on the demo side and a club are made later.                       *)
(***************************************************************************)
EXTENDS Demo, TLC

CONSTANTS dot, rae, tent, flat, cabin, club, demo, real

MCSidesOf == (tent :> {demo}) @@ (flat :> {real}) @@ (cabin :> {demo}) @@ (club :> {real})
MCSettled == (tent :> <<dot, rae>>) @@ (flat :> <<rae>>) @@ (cabin :> <<>>) @@ (club :> <<>>)
=============================================================================
