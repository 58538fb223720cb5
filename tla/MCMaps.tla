------------------------------- MODULE MCMaps -------------------------------
(***************************************************************************)
(* Small instances of Maps.  The keys of the runs fall into one bucket of  *)
(* the table the map starts with and into several of the first larger one. *)
(***************************************************************************)
EXTENDS Maps

Whole(n)  == [tag |-> "int", num |-> n]
Float(n)  == [tag |-> "float", num |-> n]
Bool(n)   == [tag |-> "bool", num |-> n]
Object(n) == [tag |-> "object", num |-> n]

\* Zero in its two forms, a bool, an object and a string-like key that meets
\* the zero in the larger table.
MixedKeys == {Whole(0), Float(0), Bool(0), Object(3), Object(8)}

\* Numbers as arithmetic leaves them: the 1 of the source and the 1 that is
\* 0.5 + 0.5.
NumberKeys == {Whole(1), Float(1), Bool(0), Object(3), Object(8)}

=============================================================================
