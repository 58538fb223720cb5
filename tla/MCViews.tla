------------------------------ MODULE MCViews -------------------------------
(* Apps for model checking Views. *)
EXTENDS Views, TLC

CONSTANTS v1, v2, v3, v4, home, homeMore, nav, last

\* Every page is opened at most once, no page id extends another, and the
\* script is orderly.
Tidy ==
  [pageOf |-> v1 :> home @@ v2 :> homeMore @@ v3 :> nav @@ v4 :> last,
   covers |-> {}, faults |-> FALSE, eager |-> FALSE, polite |-> TRUE]

\* home is opened twice, the id of homeMore is the id of home followed by a
\* colon and more, and the id of nav is the name of the Navigate channel.
Untidy ==
  [pageOf |-> v1 :> home @@ v2 :> home @@ v3 :> homeMore @@ v4 :> nav,
   covers |-> {<<home, homeMore>>, <<nav, Navigation>>},
   faults |-> TRUE, eager |-> TRUE, polite |-> FALSE]

\* An app with names of its own, whose script throws.
Throwing == [Tidy EXCEPT !.faults = TRUE, !.eager = TRUE]

Some == {Tidy, Untidy, Throwing}
=============================================================================
