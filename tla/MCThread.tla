------------------------------ MODULE MCThread ------------------------------
(***************************************************************************)
(* A family of three sides: one household on two of them, one on each, and *)
(* a group on the third.                                                   *)
(***************************************************************************)
EXTENDS Thread, TLC

CONSTANTS ann, bea, cal, both, left, right, shore, club, hers, his, lake, t1, t2

MCSides == (both :> {hers, his}) @@ (left :> {hers}) @@ (right :> {his})
              @@ (shore :> {lake}) @@ (club :> {lake})
MCMuted == (ann :> {}) @@ (bea :> {}) @@ (cal :> {})
MCFounding == (ann :> {both, club}) @@ (bea :> {left, shore}) @@ (cal :> {right})

MCMoved == (ann :> {}) @@ (bea :> {shore, club}) @@ (cal :> {shore})

MCAudiences == {{hers, his}}
MCDoes == [op \in {"post", "edit", "delete", "take down", "reply", "react", "read",
                   "delete reply", "take reply down", "add", "leave"} |->
    CASE op \in {"post", "edit", "delete", "add"} -> {ann}
      [] op \in {"take down", "take reply down"} -> {ann}
      [] op = "read" -> {bea}
      [] op = "leave" -> {bea, cal}
      [] op \in {"reply", "delete reply", "react"} -> {cal}]

\* Two moderators.
MCBothModerate == [MCDoes EXCEPT !["take down"] = {ann, bea}, !["read"] = {}, !["react"] = {}]

TabsAlike == Permutations({t1, t2})
=============================================================================
