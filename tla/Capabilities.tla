---------------------------- MODULE Capabilities ----------------------------
(***************************************************************************)
(* What every bearer credential of the instance promises, whatever class   *)
(* it belongs to (docs/security/threat-model.md TM-1, TM-5): it is issued  *)
(* once, it may resolve from then on, and once it has stopped resolving it *)
(* never resolves again.  A credential may also be born dead: a link that  *)
(* was minted on the strength of a right already taken back.  One act may  *)
(* issue and end any number of them.                                       *)
(***************************************************************************)
CONSTANT Caps         \* every credential that may ever be issued

VARIABLE status       \* status[c]: the life of credential c

Unborn == "unborn"
Alive  == "live"
Dead   == "dead"

OneWay == {<<Unborn, Alive>>, <<Unborn, Dead>>, <<Alive, Dead>>}

Init == status = [c \in Caps |-> Unborn]

Act ==
    /\ status' \in [Caps -> {Unborn, Alive, Dead}]
    /\ \A c \in Caps :
        status'[c] # status[c] => <<status[c], status'[c]>> \in OneWay

Spec == Init /\ [][Act]_status
=============================================================================
