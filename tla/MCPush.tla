------------------------------- MODULE MCPush -------------------------------
(* Four browsers: two whose service takes its time, one that may hang or    *)
(* take its time, one that may hang, refuse or end the registration; one    *)
(* member writes.  A fan-out pays for two costly sends.                     *)
EXTENDS Push
CONSTANTS slow1, slow2, fitful, fickle
MCAnswers == [b \in Browsers |->
    IF b \in {slow1, slow2} THEN {"took its time"}
    ELSE IF b = fitful THEN {"took", "hung"} ELSE {"took", "hung", "refused", "gone"}]
=============================================================================
