----------------------------- MODULE Generators -----------------------------
(***************************************************************************)
(* An asynchronous generator on top of the promises of the engine.  Every  *)
(* request (next, return, throw) has a promise of its own and waits in a   *)
(* queue; js_async_generator_resume_next works on the queue, a request at  *)
(* a time.                                                                 *)
(*                                                                         *)
(* The activations of that function are a stack, and script code runs on   *)
(* top of one in two places: in the body of the generator, and, when the   *)
(* script has given Object.prototype a getter for then, while a request is *)
(* answered.  Jobs run when nothing is on the stack.  A turn of the loop   *)
(* is a step.                                                              *)
(***************************************************************************)
EXTENDS Promises

CONSTANTS
  Result,    \* the object with value and done that answers a request
  Getters,   \* answering a request runs a getter of the script
  MaxDepth,  \* bound: activations on the stack
  MaxAwaits  \* bound: awaits of the body

ASSUME GeneratorAssumption ==
  /\ Result \in Plain
  /\ Getters \in BOOLEAN
  /\ {MaxDepth, MaxAwaits} \subseteq Nat

VARIABLE gen   \* the JSAsyncGeneratorData

genVars == <<vars, gen>>

\* js_async_generator_function_call has run it up to the initial yield.
GenInit ==
  /\ Init
  /\ gen = [state   |-> "start",
            queue   |-> <<>>,         \* requests
            frame   |-> "suspended",  \* func_state
            stack   |-> <<>>,         \* where the activations are
            awaits  |-> 0,
            asked   |-> <<>>,         \* history: the requests
            answers |-> <<>>,         \* history: the answers
            fault   |-> FALSE]        \* an assertion failed

Top       == IF gen.stack = <<>> THEN "none" ELSE Last(gen.stack)
At(g, a)  == [g EXCEPT !.stack = Append(Front(@), a)]
Push(g, a) == [g EXCEPT !.stack = Append(@, a)]
Pop(g)    == [g EXCEPT !.stack = Front(@)]

\* Script code is on top of the stack, or the stack is empty.
ScriptRuns == Top \in {"none", "body"} \cup (IF Getters THEN {"again", "last"} ELSE {})

\* Promises that requests to return will need when their turn comes.
Reserved(g) == Len(SelectSeq(g.queue, LAMBDA r : r.kind = "return"))
Fits        == Len(rt'.promises) + Reserved(gen') <= MaxPromises

-----------------------------------------------------------------------------
(* The frame of the body *)

\* async_func_resume
async_func_resume(g) ==
  At([g EXCEPT !.state = "executing", !.frame = "running",
               !.fault = @ \/ g.frame # "suspended"], "body")

\* async_func_free
async_func_free(g) ==
  [g EXCEPT !.frame = "freed", !.fault = @ \/ g.frame # "suspended"]

js_async_generator_complete(g) ==
  IF g.state = "completed" THEN g ELSE async_func_free([g EXCEPT !.state = "completed"])

\* Mutant: the answer goes to the request that came last.
ResolveLast(s, g, what, c) ==
  /\ rt' = js_promise_resolve_function_call(s, Last(g.queue).pair, c)
  /\ gen' = [g EXCEPT !.queue = Front(@),
                      !.answers = Append(@, [to |-> Last(g.queue).n, what |-> what])]

\* The first request is taken off the queue and answered.
js_async_generator_resolve_or_reject(s, g, what, c) ==
  IF g.queue = <<>> THEN rt' = s /\ gen' = [g EXCEPT !.fault = TRUE]
  ELSE /\ rt' = js_promise_resolve_function_call(s, Head(g.queue).pair, c)
       /\ gen' = [g EXCEPT !.queue = Tail(@),
                           !.answers = Append(@, [to |-> Head(g.queue).n, what |-> what])]

\* A value is awaited: when its promise is settled, `for' goes on.
Await(s, v, for) ==
  LET r == js_promise_resolve(s, Value(v))
      h == Handler("generator", for)
  IN  perform_promise_then(r[1], r[2], h, h, None)

-----------------------------------------------------------------------------
(* Requests *)

\* Mutant: a generator that has ended is left alone.
AskEnded(kind, v) ==
  LET t == js_new_promise_capability(rt)
      r == [n |-> Len(gen.asked) + 1, kind |-> kind, value |-> v, pair |-> NewestPair(t)]
      g == [gen EXCEPT !.queue = Append(@, r), !.asked = Append(@, kind)]
  IN  /\ ScriptRuns
      /\ Len(gen.asked) < script.requests /\ gen.frame # "gone"
      /\ rt' = t
      /\ gen' = IF gen.state \in {"executing", "completed"} THEN g ELSE Push(g, "loop")
      /\ Len(gen'.stack) <= MaxDepth
      /\ UNCHANGED <<held, seen>>

\* Mutant: the queue is worked on also while the body is running.
AskRunning(kind, v) ==
  LET t == js_new_promise_capability(rt)
      r == [n |-> Len(gen.asked) + 1, kind |-> kind, value |-> v, pair |-> NewestPair(t)]
      g == [gen EXCEPT !.queue = Append(@, r), !.asked = Append(@, kind)]
  IN  /\ ScriptRuns
      /\ Len(gen.asked) < script.requests /\ gen.frame # "gone"
      /\ rt' = t
      /\ gen' = Push(g, "loop")
      /\ Len(gen'.stack) <= MaxDepth
      /\ UNCHANGED <<held, seen>>

\* next(v), return(v) and throw(v).  The script uses the promises it gets for
\* nothing else, see Promises.
js_async_generator_next(kind, v) ==
  LET t == js_new_promise_capability(rt)
      r == [n |-> Len(gen.asked) + 1, kind |-> kind, value |-> v, pair |-> NewestPair(t)]
      g == [gen EXCEPT !.queue = Append(@, r), !.asked = Append(@, kind)]
  IN  /\ ScriptRuns
      /\ Len(gen.asked) < script.requests /\ gen.frame # "gone"
      /\ rt' = t
      /\ gen' = IF gen.state = "executing" THEN g ELSE Push(g, "loop")
      /\ Len(gen'.stack) <= MaxDepth
      /\ UNCHANGED <<held, seen>>

-----------------------------------------------------------------------------
(* js_async_generator_resume_next: the cases of its loop *)

Loop(states) ==
  /\ Top = "loop"
  /\ gen.queue # <<>>
  /\ gen.state \in states
  /\ UNCHANGED <<held, seen>>

\* Nothing to do.
LoopEnd ==
  /\ Top = "loop"
  /\ gen.queue = <<>> \/ gen.state = "awaitingReturn"
  /\ gen' = Pop(gen)
  /\ UNCHANGED <<rt, held, seen>>

\* The body runs: for the first time, after a yield, or after an await.
LoopResume ==
  /\ Loop({"start", "yield", "yieldStar", "executing"})
  /\ gen.state = "start" => Head(gen.queue).kind = "next"
  /\ gen' = async_func_resume(gen)
  /\ UNCHANGED rt

\* It was never started and is asked to end.
LoopAbandon ==
  /\ Loop({"start"})
  /\ Head(gen.queue).kind # "next"
  /\ gen' = js_async_generator_complete(gen)
  /\ UNCHANGED rt

LoopAnswer ==
  /\ Loop({"completed"})
  /\ \/ /\ Head(gen.queue).kind = "next"
        /\ js_async_generator_resolve_or_reject(rt, At(gen, "last"), "done", Value(Result))
     \/ /\ Head(gen.queue).kind = "throw"
        /\ js_async_generator_resolve_or_reject(rt, Pop(gen), "reject", Reason(Head(gen.queue).value))

\* js_async_generator_completed_return
LoopAwaitReturn ==
  /\ Loop({"completed"})
  /\ Head(gen.queue).kind = "return"
  /\ rt' = Await(rt, Head(gen.queue).value, "return")
  /\ gen' = [Pop(gen) EXCEPT !.state = "awaitingReturn"]

\* The request was answered: back to the loop, or to the caller.
LoopAnswered ==
  /\ Top \in {"again", "last"}
  /\ gen' = IF Top = "again" THEN At(gen, "loop") ELSE Pop(gen)
  /\ UNCHANGED <<rt, held, seen>>

-----------------------------------------------------------------------------
(* The body gives control back: FUNC_RET_YIELD and its kin *)

Suspended == [gen EXCEPT !.frame = "suspended"]

BodyRuns == Top = "body" /\ UNCHANGED <<held, seen>>

Yield(state) ==
  /\ BodyRuns
  /\ js_async_generator_resolve_or_reject(rt, At([Suspended EXCEPT !.state = state], "again"),
                                          "yield", Value(Result))

\* js_async_generator_await
BodyAwait(v) ==
  /\ BodyRuns
  /\ gen.awaits < MaxAwaits
  /\ rt' = Await(rt, v, "await")
  /\ gen' = Pop([Suspended EXCEPT !.awaits = @ + 1])

BodyReturn ==
  /\ BodyRuns
  /\ js_async_generator_resolve_or_reject(rt, At(js_async_generator_complete(Suspended), "again"),
                                          "done", Value(Result))

BodyThrow ==
  /\ BodyRuns
  /\ js_async_generator_resolve_or_reject(rt, At(js_async_generator_complete(Suspended), "loop"),
                                          "reject", Reason(Error))

-----------------------------------------------------------------------------
(* js_async_generator_resolve_function: what was awaited is settled *)

Awaited(for) ==
  /\ Reacts("generator")
  /\ Job.reaction.handler.of = for
  /\ UNCHANGED seen

AwaitOver ==
  /\ Awaited("await")
  /\ gen' = Push([gen EXCEPT !.fault = @ \/ gen.state # "executing"], "loop")
  /\ rt' = Dequeued

ReturnOver ==
  LET g == [gen EXCEPT !.state = "completed",
                       !.fault = @ \/ gen.state \notin {"awaitingReturn", "completed"}] IN
  /\ Awaited("return")
  /\ IF Job.outcome.reject
     THEN js_async_generator_resolve_or_reject(Dequeued, g, "reject", Job.outcome)
     ELSE js_async_generator_resolve_or_reject(Dequeued, Push(g, "last"), "done", Value(Result))

\* js_async_generator_finalizer: nobody refers to the generator any more.
Finalize ==
  /\ script.requests > 0 /\ Top = "none" /\ gen.frame # "gone"
  /\ gen.queue = <<>>
  /\ gen' = [IF gen.state \in {"completed", "awaitingReturn"} THEN gen ELSE async_func_free(gen)
               EXCEPT !.frame = "gone"]
  /\ UNCHANGED <<rt, held, seen>>

-----------------------------------------------------------------------------

Request ==
  \/ js_async_generator_next("next", Undefined)
  \/ \E v \in Things : js_async_generator_next("return", v)
  \/ js_async_generator_next("throw", Error)

Body ==
  \/ \E state \in {"yield", "yieldStar"} : Yield(state)
  \/ \E v \in Things : BodyAwait(v) /\ Fits
  \/ BodyReturn
  \/ BodyThrow

Turn == LoopEnd \/ LoopResume \/ LoopAbandon \/ LoopAnswer \/ LoopAwaitReturn \/ LoopAnswered

AnyJob ==
  /\ Top = "none"
  /\ AwaitOver \/ ReturnOver \/ (RunJob /\ UNCHANGED gen)

GenNext ==
  /\ \/ /\ Loops = {}
        /\ \/ ScriptRuns /\ Script /\ UNCHANGED gen /\ Fits
           \/ Request /\ Fits
           \/ Body
           \/ Turn
           \/ AnyJob
           \/ Finalize
     \/ CombineTurn /\ UNCHANGED gen
  /\ UNCHANGED script

\* Besides the jobs, of which Common.executePendingJob runs all, an activation
\* goes on until it returns, and so do the body of the generator and the loop
\* of Promise.all.
GenSpec ==
  /\ GenInit
  /\ [][GenNext]_genVars
  /\ WF_genVars(((Loops = {} /\ (Body \/ Turn)) \/ (CombineTurn /\ UNCHANGED gen))
                /\ UNCHANGED script)
  /\ WF_genVars(Loops = {} /\ AnyJob /\ UNCHANGED script)

-----------------------------------------------------------------------------
(* Properties *)

Iterator == INSTANCE IteratorContract WITH asked <- gen.asked, answers <- gen.answers

\* The requests of a generator are answered in the order they were made, each
\* once, and an ended generator does as it is asked (js_async_generator_next,
\* js_async_generator_resume_next): IteratorContract is implemented.
AnswersInOrder == Iterator!Spec

\* The number of reactions, waiting or due, that will go on with `for'.
Wakings(for) == Reactions(rt, Handler("generator", for))

\* The assertions of js_async_generator_resolve_function and async_func_free
\* hold, no answer finds the queue empty, and whenever jobs may run: a body
\* in the middle of an await is woken by exactly one reaction and by nothing
\* else, and the frame of the body is there until the generator has ended.
WokenOnce ==
  /\ ~gen.fault
  /\ Top = "none" =>
       /\ Wakings("await") = IF gen.state = "executing" THEN 1 ELSE 0
       /\ Wakings("return") = IF gen.state = "awaitingReturn" THEN 1 ELSE 0
       /\ gen.state \in {"executing", "awaitingReturn"} => gen.queue # <<>>
       /\ gen.frame = "freed" => gen.state \in {"completed", "awaitingReturn"}
       /\ gen.frame = "suspended" => gen.state \notin {"completed", "awaitingReturn"}

\* The generator waits for a promise that the script has yet to settle.
WaitsForScript ==
  \E p \in DOMAIN rt.promises :
    /\ ~Settled(p)
    /\ \E i \in DOMAIN rt.promises[p].reactions[FALSE] :
         rt.promises[p].reactions[FALSE][i].handler.kind = "generator"

\* Every request is answered, unless the body, or a request to return, waits
\* for a promise of the script: no request is left in the queue of a
\* generator that is not running.
Answered == []<>(gen.queue = <<>> \/ WaitsForScript)

\* The same for those who ask only when they have their answer, as for await
\* does: js_async_generator_resume_next answers, or goes on after the await.
AnsweredOneByOne == [](Len(gen.queue) <= 1) => Answered

=============================================================================
