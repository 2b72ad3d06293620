------------------------------ MODULE MCInbound ------------------------------
(* A reply and a mail of any shape to one address, two requests at a time.  *)
EXTENDS Inbound
CONSTANTS a1, m1
MCAddressOf == [m \in Messages |-> a1]
MCMixes == {f \in [Messages -> Shapes] : f[m1] = "reply"}
=============================================================================
