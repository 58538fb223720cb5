----------------------------- MODULE MCElements -----------------------------
(* Render trees for model checking Elements. *)
EXTENDS Elements, TLC

CONSTANTS top, box, x1, x2, y1, slot, b1, b2

\* A scaffold with a slot, and a container with leaves below it.
ParentOf ==
  LET all == top :> None @@ box :> top @@ y1 :> top @@ slot :> top
               @@ b1 :> slot @@ b2 :> slot
               @@ [i \in {x1, x2} |-> IF box \in Ids THEN box ELSE top]
  IN  [i \in Ids |-> all[i]]
=============================================================================
