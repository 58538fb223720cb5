------------------------------- MODULE MCBoot -------------------------------
(* Boot for TLC: the builds a run is about. *)
EXTENDS Boot, TLC

Zip(debug)    == [source |-> "network", extension |-> ".zip", debug |-> debug]
Script(debug) == [source |-> "network", extension |-> ".js", debug |-> debug]
Packed(debug) == [source |-> "asset", extension |-> ".zip", debug |-> debug]

Shipped == UNION {{Zip(debug), Script(debug), Packed(debug)} : debug \in BOOLEAN}
=============================================================================
