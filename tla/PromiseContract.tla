-------------------------- MODULE PromiseContract ---------------------------
(***************************************************************************)
(* What promises promise to the script that uses them, whatever the engine *)
(* does to keep it: a promise is settled at most once and stays as it was  *)
(* settled; a reaction becomes due when its promise is settled, or at once *)
(* if it is already; reactions run in the order in which they became due,  *)
(* each exactly once, each with the outcome of its promise.                *)
(***************************************************************************)
EXTENDS Integers, Sequences

CONSTANTS
  Promises,  \* the promises there may be
  Pending    \* the outcome of a promise that is not settled

VARIABLES
  outcome,     \* what each promise was settled with, or Pending
  registered,  \* how many reactions each promise has been given
  due          \* what is to run, as a queue: [on, n, outcome], the n-th reaction
               \* on a promise and the outcome it is run with, and other jobs

vars == <<outcome, registered, due>>

Init ==
  /\ outcome = [p \in Promises |-> Pending]
  /\ registered = [p \in Promises |-> 0]
  /\ due = <<>>

\* What a step makes due of p: everything p has been given if the step settles
\* p, and what the step adds if p was settled before.
NewlyDue(p) ==
  LET first == IF outcome[p] = Pending THEN 1 ELSE registered[p] + 1
      last  == IF outcome'[p] = Pending THEN 0 ELSE registered'[p]
  IN  first .. last

\* A step that leaves `rest' of the queue, and adds what it makes due in the
\* order of registration.
Step(rest) ==
  /\ \A p \in Promises : outcome[p] # Pending => outcome'[p] = outcome[p]
  /\ \A p \in Promises : registered'[p] >= registered[p]
  /\ Len(rest) <= Len(due')
  /\ \A i \in 1 .. Len(rest) : due'[i] = rest[i]
  /\ \A p \in Promises :
       LET added == {i \in Len(rest) + 1 .. Len(due') : due'[i].on = p}
       IN  /\ {due'[i].n : i \in added} = NewlyDue(p)
           /\ \A i \in added : due'[i].outcome = outcome'[p]
           /\ \A i, j \in added : i < j => due'[i].n < due'[j].n

\* The script, or the engine on its behalf, settles promises and adds
\* reactions ...
Act == Step(due)

\* ... and the engine runs what is first in the queue.
Run ==
  /\ due # <<>>
  /\ Step(Tail(due))

Next == Act \/ Run

Spec == Init /\ [][Next]_vars

\* As long as something is due, the engine goes on running it: weak fairness
\* of Run, which is enabled whenever the queue is not empty.
Progress == <>[](due # <<>>) => []<><<Run>>_vars

=============================================================================
