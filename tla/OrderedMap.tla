----------------------------- MODULE OrderedMap -----------------------------
(***************************************************************************)
(* What a Map or a Set promises to the script: one entry for each value    *)
(* used as a key, in the order in which the keys were first set; a         *)
(* traversal meets, in that order, every entry that is there when it gets  *)
(* to its place, whatever is set, deleted or cleared between two of its    *)
(* steps, and meets none of them twice.                                    *)
(***************************************************************************)
EXTENDS Integers, FiniteSetsExt

CONSTANTS
  Keys,     \* the values used as keys, equal ones counted once
  Values,
  Cursors,  \* the traversals there may be at a time
  Done      \* the place of a traversal that is over

VARIABLES
  held,     \* does the script still refer to the map?
  entries,  \* the entries, each with the number that gives its place
  last,     \* the number given last
  pos       \* the number of the entry each traversal met last

vars == <<held, entries, last, pos>>

Init ==
  /\ held = TRUE
  /\ entries = {}
  /\ last = 0
  /\ pos = [c \in Cursors |-> Done]

EntryOf(k) == {e \in entries : e.key = k}

Set(k, v) ==
  /\ held
  /\ LET old == EntryOf(k)
         at == IF old = {} THEN last + 1 ELSE (CHOOSE e \in old : TRUE).at
     IN  /\ entries' = (entries \ old) \cup {[at |-> at, key |-> k, value |-> v]}
         /\ last' = IF old = {} THEN at ELSE last
  /\ UNCHANGED <<held, pos>>

Delete(k) ==
  /\ held
  /\ entries' = entries \ EntryOf(k)
  /\ UNCHANGED <<held, last, pos>>

Clear ==
  /\ held
  /\ entries' = {}
  /\ UNCHANGED <<held, last, pos>>

Begin(c) ==
  /\ held
  /\ pos[c] = Done
  /\ pos' = [pos EXCEPT ![c] = 0]
  /\ UNCHANGED <<held, entries, last>>

Advance(c) ==
  LET ahead == {e.at : e \in {f \in entries : f.at > pos[c]}} IN
  /\ pos[c] # Done
  /\ pos' = [pos EXCEPT ![c] = IF ahead = {} THEN Done ELSE Min(ahead)]
  /\ UNCHANGED <<held, entries, last>>

\* The traversal is given up.
Leave(c) ==
  /\ pos' = [pos EXCEPT ![c] = Done]
  /\ UNCHANGED <<held, entries, last>>

Drop ==
  /\ held' = FALSE
  /\ entries' \in {entries, {}}
  /\ UNCHANGED <<last, pos>>

\* Nobody will ask any more: the entries go, and the traversals with them or
\* one by one.
Perish ==
  /\ ~held
  /\ entries' = {}
  /\ pos' \in {pos, [c \in Cursors |-> Done]}
  /\ UNCHANGED <<held, last>>

\* Another map is made.
Renew ==
  /\ ~held
  /\ entries = {}
  /\ pos = [c \in Cursors |-> Done]
  /\ held' = TRUE
  /\ last' = 0
  /\ UNCHANGED <<entries, pos>>

Next ==
  \/ \E k \in Keys, v \in Values : Set(k, v)
  \/ \E k \in Keys : Delete(k)
  \/ Clear
  \/ \E c \in Cursors : Begin(c) \/ Advance(c) \/ Leave(c)
  \/ Drop
  \/ Perish
  \/ Renew

Spec == Init /\ [][Next]_vars

=============================================================================
