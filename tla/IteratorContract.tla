-------------------------- MODULE IteratorContract --------------------------
(***************************************************************************)
(* What an asynchronous generator promises to those who ask it: requests   *)
(* are answered one after the other in the order they were made, each      *)
(* once; a generator that was never started yields nothing to a request to *)
(* return or to throw; and once it has ended, it does as it is asked: next *)
(* is told that there is no more, return gets its own value back, unless   *)
(* that cannot be awaited, and throw its own exception.                    *)
(***************************************************************************)
EXTENDS Integers, Sequences

VARIABLES
  asked,   \* the requests: "next", "return" or "throw"
  answers  \* the answers: to which request, and "yield", "done" or "reject"

vars == <<asked, answers>>

Init == asked = <<>> /\ answers = <<>>

Ask(kind) ==
  /\ asked' = Append(asked, kind)
  /\ UNCHANGED answers

\* The generator has told somebody that it has ended.
Ended == \E i \in DOMAIN answers : answers[i].what # "yield"

\* What it may say to a request of this kind.
Answers(kind) ==
  IF Ended \/ (answers = <<>> /\ kind # "next")
  THEN CASE kind = "next"   -> {"done"}
         [] kind = "return" -> {"done", "reject"}
         [] kind = "throw"  -> {"reject"}
  ELSE {"yield", "done", "reject"}

Answer ==
  LET n == Len(answers) + 1 IN
  /\ n <= Len(asked)
  /\ \E what \in Answers(asked[n]) : answers' = Append(answers, [to |-> n, what |-> what])
  /\ UNCHANGED asked

Next == Answer \/ \E kind \in {"next", "return", "throw"} : Ask(kind)

Spec == Init /\ [][Next]_vars

=============================================================================
