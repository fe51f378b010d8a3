------------------------- MODULE MCAnveshaFrontend -------------------------
(* Two unequal backends, two projects with one trace each. *)
EXTENDS AnveshaFrontend, TLC

CONSTANTS b1, b2, p1, p2, t1, t2
TwoBackends == b1 :> {p1, p2} @@ b2 :> {p1}
MCHome == t1 :> p1 @@ t2 :> p2
=============================================================================
