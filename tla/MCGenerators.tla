---------------------------- MODULE MCGenerators ----------------------------
(* Scripts for model checking Promises and Generators. *)
EXTENDS Generators

Uses(passes, finally, groups, asyncs, requests, asks) ==
  [passes |-> passes, finally |-> finally, groups |-> groups, asyncs |-> asyncs,
   requests |-> requests, asks |-> asks]

Iterating == {Uses({Undefined}, FALSE, 0, 0, 3, 1)}

\* One script with thenables, one with async functions, one with the rest of
\* promises, and one with an async generator.
Some == {Uses({Undefined, Thenable, Trap}, FALSE, 0, 0, 0, 3),
         Uses({Undefined}, FALSE, 0, 1, 0, 3),
         Uses({Undefined, Trap}, TRUE, 1, 0, 0, 3)} \cup Iterating
=============================================================================
