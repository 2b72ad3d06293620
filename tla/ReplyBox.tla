------------------------------ MODULE ReplyBox ------------------------------
(***************************************************************************)
(* What replying by email promises the family: a mail that was sent is     *)
(* settled in the end, and becomes one comment at most, for ever.  How the *)
(* provider, its retries and the web process bring that about is Inbound's *)
(* concern.                                                                *)
(***************************************************************************)
CONSTANT Messages

VARIABLE fate   \* fate[m]: what has become of the mail m

Fates == {"waiting", "settled", "posted"}

TypeOK == fate \in [Messages -> Fates]
Init == fate = [m \in Messages |-> "waiting"]

Becomes(m, f) == fate' = [fate EXCEPT ![m] = f]
Settle(m) == fate[m] = "waiting" /\ Becomes(m, "settled")

(* A copy that the provider delivers late may still be posted after another *)
(* copy was turned away.                                                    *)
Post(m) == fate[m] \in {"waiting", "settled"} /\ Becomes(m, "posted")

Next == \E m \in Messages : Settle(m) \/ Post(m)

(* No mail waits for ever.                                                  *)
Deal(m) == fate[m] = "waiting" /\ (Settle(m) \/ Post(m))
Spec == Init /\ [][Next]_fate /\ \A m \in Messages : WF_fate(Deal(m))
=============================================================================
