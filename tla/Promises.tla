------------------------------ MODULE Promises ------------------------------
(***************************************************************************)
(* The promises of the engine and the list of pending jobs: resolving      *)
(* functions, then, finally, Promise.all and its kin, and async functions. *)
(* The script decides what is called when, and with which values.          *)
(*                                                                         *)
(* The state is one record, rt, and every C function is an operator from   *)
(* the state before the call to the state after it.  What a handler does   *)
(* before it returns is not part of the job that calls it: those are       *)
(* actions of the script, taken just before the job.  Allocation failures  *)
(* are left out, and so is is_handled: it only guards the host's rejection *)
(* tracker, which sano does not install.                                   *)
(***************************************************************************)
EXTENDS Integers, Sequences, SequencesExt, FiniteSetsExt

CONSTANTS
  MaxPromises,  \* bound: promises there are
  MaxThens,     \* bound: reactions, for a function that awaits again
  MaxFollows,   \* bound: promises that wait for another, for thenables
  Scripts,      \* what scripts pass around and call, see PromiseAssumption
  Plain,        \* values without a then method
  Thenable,     \* an object with a then method of the script's
  Trap,         \* an object whose then property throws when it is read
  Undefined,    \* undefined
  Error,        \* what the engine, the trap and the thenable throw
  List,         \* the array Promise.all makes
  None          \* no promise, no capability

Promises == 1 .. MaxPromises

Combinators == {"all", "allSettled", "any", "race"}

\* A script passes some values around, besides promises, and uses finally,
\* Promise.all and its kin, async functions and (see Generators) an async
\* generator, or does not; asks bounds the promises it asks for.
ASSUME PromiseAssumption ==
  /\ {MaxPromises, MaxThens, MaxFollows} \subseteq Nat
  /\ {Undefined, Error, List} \subseteq Plain
  /\ {Thenable, Trap} \cap Plain = {}
  /\ None \notin Plain \cup {Thenable, Trap}
  /\ \A v \in Plain \cup {Thenable, Trap, None} : v \notin Nat
  /\ Scripts \subseteq [passes : SUBSET (Plain \cup {Thenable, Trap}),
                        finally : BOOLEAN, groups : Nat, asyncs : Nat,
                        requests : Nat, asks : Nat]

VARIABLES
  rt,      \* the state of the engine
  script,  \* the script that is running
  held,    \* pairs of resolving functions the script or the host can call
  seen     \* promises the script can use

vars == <<rt, script, held, seen>>

Pending == [reject |-> FALSE, value |-> None]

\* What a promise is settled with, and how a handler ends.
Value(v)  == [reject |-> FALSE, value |-> v]
Reason(v) == [reject |-> TRUE, value |-> v]

\* Handlers: functions of the script, of the engine, or undefined.
Handler(kind, of) == [kind |-> kind, of |-> of]
NoHandler     == Handler("undefined", None)
ScriptHandler == Handler("script", None)

Init ==
  /\ rt = [promises |-> <<>>,  \* JSPromiseData
           pairs    |-> <<>>,  \* JSPromiseFunctionDataResolved
           jobs     |-> <<>>,  \* job_list
           asyncs   |-> <<>>,  \* JSAsyncFunctionData
           groups   |-> <<>>]  \* what the element functions of one call share
  /\ script \in Scripts
  /\ held = {}
  /\ seen = {}

-----------------------------------------------------------------------------
(* Settling promises *)

\* One more job at the end of the list.
JS_EnqueueJob(s, job) == [s EXCEPT !.jobs = Append(@, job)]

ReactionJob(r, o) == [type |-> "reaction", reaction |-> r, outcome |-> o]

\* Mutant of fulfill_or_reject_promise: the reactions of both lists are run.
FulfillBoth(s, p, o) ==
  IF s.promises[p].outcome # Pending THEN s
  ELSE LET run == s.promises[p].reactions[FALSE] \o s.promises[p].reactions[TRUE]
           jobs == [i \in DOMAIN run |-> ReactionJob(run[i], o)]
       IN  [s EXCEPT !.promises[p] = [@ EXCEPT !.outcome = o,
                                               !.reactions = [b \in BOOLEAN |-> <<>>]],
                     !.jobs = @ \o jobs]

\* The reactions to the outcome become jobs, the others are dropped.
fulfill_or_reject_promise(s, p, o) ==
  IF s.promises[p].outcome # Pending THEN s
  ELSE LET run == s.promises[p].reactions[o.reject]
           jobs == [i \in DOMAIN run |-> ReactionJob(run[i], o)]
       IN  [s EXCEPT !.promises[p] = [@ EXCEPT !.outcome = o,
                                               !.reactions = [b \in BOOLEAN |-> <<>>]],
                     !.jobs = @ \o jobs]

\* A pair of functions that share already_resolved, for promise p.
js_create_resolving_functions(s, p) ==
  [s EXCEPT !.pairs = Append(@, [promise |-> p, resolved |-> FALSE])]

IsPromise(v) == v \in Promises

\* Resolving p with v makes it wait for v, or fails it.
Follows(p, v) == v # p /\ (IsPromise(v) \/ v = Thenable)
Fails(p, v)   == v = p \/ v = Trap

\* Mutant of js_promise_resolve_function_call: already_resolved is not read.
ResolveAgain(s, r, c) ==
  LET p == s.pairs[r].promise
      t == [s EXCEPT !.pairs[r].resolved = TRUE]
  IN  CASE ~c.reject /\ Follows(p, c.value) ->
             JS_EnqueueJob(t, [type |-> "thenable", promise |-> p, thenable |-> c.value])
        [] ~c.reject /\ Fails(p, c.value) ->
             fulfill_or_reject_promise(t, p, Reason(Error))
        [] OTHER -> fulfill_or_reject_promise(t, p, c)

\* Calling a function of pair r: with a reason, reject; with a value, resolve.
\* The then property is read at once and called from a job of its own.
js_promise_resolve_function_call(s, r, c) ==
  LET p == s.pairs[r].promise
      t == [s EXCEPT !.pairs[r].resolved = TRUE]
  IN  IF s.pairs[r].resolved THEN s
      ELSE CASE ~c.reject /\ Follows(p, c.value) ->
                  JS_EnqueueJob(t, [type |-> "thenable", promise |-> p, thenable |-> c.value])
             [] ~c.reject /\ Fails(p, c.value) ->
                  fulfill_or_reject_promise(t, p, Reason(Error))
             [] OTHER -> fulfill_or_reject_promise(t, p, c)

\* A new promise and its resolving functions; mirrors names the promise whose
\* outcome it is to repeat (for the properties only).
js_new_promise_capability(s) ==
  js_create_resolving_functions(
    [s EXCEPT !.promises = Append(@, [outcome |-> Pending,
                                      reactions |-> [b \in BOOLEAN |-> <<>>],
                                      thens |-> 0,
                                      mirrors |-> None])],
    Len(s.promises) + 1)

Newest(s)     == Len(s.promises)
NewestPair(s) == Len(s.pairs)

\* Promise.resolve(v) and Promise.reject(v): a state and the promise.
js_promise_resolve(s, c) ==
  IF ~c.reject /\ IsPromise(c.value) THEN <<s, c.value>>
  ELSE LET t == js_new_promise_capability(s)
       IN  <<js_promise_resolve_function_call(t, NewestPair(t), c), Newest(t)>>

\* Mutant of perform_promise_then: the newest reaction is put first.
ThenFirst(s, p, onFulfilled, onRejected, cap) ==
  LET n == s.promises[p].thens + 1
      o == s.promises[p].outcome
      rd == [b \in BOOLEAN |-> [on |-> p, n |-> n, cap |-> cap,
                                handler |-> IF b THEN onRejected ELSE onFulfilled]]
      t == [s EXCEPT !.promises[p].thens = n]
  IN  IF o = Pending
      THEN [t EXCEPT !.promises[p].reactions = [b \in BOOLEAN |-> <<rd[b]>> \o @[b]]]
      ELSE JS_EnqueueJob(t, ReactionJob(rd[o.reject], o))

\* Adds a reaction to p; cap is the pair of the promise that then returns, or
\* None when nobody has that promise.
perform_promise_then(s, p, onFulfilled, onRejected, cap) ==
  LET n == s.promises[p].thens + 1
      o == s.promises[p].outcome
      rd == [b \in BOOLEAN |-> [on |-> p, n |-> n, cap |-> cap,
                                handler |-> IF b THEN onRejected ELSE onFulfilled]]
      t == [s EXCEPT !.promises[p].thens = n]
  IN  IF o = Pending
      THEN [t EXCEPT !.promises[p].reactions = [b \in BOOLEAN |-> Append(@[b], rd[b])]]
      ELSE JS_EnqueueJob(t, ReactionJob(rd[o.reject], o))

\* The end of a reaction job: the outcome of the handler goes to the promise
\* that then returned.
Complete(s, cap, c) ==
  IF cap = None THEN s ELSE js_promise_resolve_function_call(s, cap, c)

-----------------------------------------------------------------------------
(* then, finally and Promise.all *)

\* p.then(onFulfilled, onRejected) and, with nothing for onFulfilled, catch.
js_promise_then(s, p, onFulfilled, onRejected) ==
  LET t == js_new_promise_capability(s)
  IN  perform_promise_then(t, p, onFulfilled, onRejected, NewestPair(t))

\* The handler finally has registered, after the script's function ended with
\* c: a promise for what it returned, and a then on it (js_promise_then, with
\* mirrors) that repeats the outcome o of the first promise.
js_promise_then_finally_func(s, reaction, o, c) ==
  IF c.reject THEN Complete(s, reaction.cap, c)
  ELSE LET inner == js_promise_resolve(s, c)
           t == js_new_promise_capability(inner[1])
           u == IF c.value \in Plain
                THEN [t EXCEPT !.promises[Newest(t)].mirrors = reaction.on] ELSE t
           v == perform_promise_then(u, inner[2], Handler("thunk", o), NoHandler, NewestPair(t))
       IN  Complete(v, reaction.cap, Value(Newest(t)))

\* Mutant of js_promise_all_resolve_element: the group is done one too early.
ElementEarly(s, g, i, o) ==
  LET t == [s EXCEPT !.groups[g].called = @ \cup {<<i, o.reject>>},
                     !.groups[g].values[i] = o,
                     !.groups[g].remaining = @ - 1]
  IN  IF t.groups[g].remaining <= 1
      THEN js_promise_resolve_function_call(t, t.groups[g].pair,
             IF t.groups[g].magic = "any" THEN Reason(Error) ELSE Value(List))
      ELSE t

\* What the element functions do, the last one of them for the whole group.
js_promise_all_resolve_element(s, g, i, o) ==
  LET group == s.groups[g]
      t == [s EXCEPT !.groups[g].called = @ \cup {<<i, o.reject>>},
                     !.groups[g].values[i] = o,
                     !.groups[g].remaining = @ - 1]
  IN  CASE <<i, o.reject>> \in group.called -> s
        [] <<i, o.reject>> \notin group.called /\ group.remaining = 1 ->
             js_promise_resolve_function_call(t, group.pair,
               IF group.magic = "any" THEN Reason(Error) ELSE Value(List))
        [] OTHER -> t

\* What the element functions of one call share; remaining counts the loop
\* over the items too, which is at item `next'.
NewGroup(magic, items, pair) ==
  [magic |-> magic, items |-> items, pair |-> pair, called |-> {},
   values |-> [i \in DOMAIN items |-> Pending], remaining |-> 1, next |-> 1, open |-> TRUE]

\* Promise.all, allSettled, any and race over a sequence of promises, up to
\* their loop.
js_promise_all(s, magic, items) ==
  LET t == js_new_promise_capability(s)
  IN  [t EXCEPT !.groups = Append(@, NewGroup(magic, items, NewestPair(t)))]

\* A turn of the loop: then is called on the next item.
AddItem(s, g) ==
  LET group == s.groups[g]
      element == Handler("element", <<g, group.next>>)
      onFulfilled ==
        IF group.magic \in {"all", "allSettled"} THEN element ELSE Handler("resolve", group.pair)
      onRejected ==
        IF group.magic \in {"any", "allSettled"} THEN element ELSE Handler("reject", group.pair)
  IN  perform_promise_then([s EXCEPT !.groups[g].next = @ + 1, !.groups[g].remaining = @ + 1],
                           group.items[group.next], onFulfilled, onRejected, None)

\* Mutant of EndItems: the loop is not taken off the count.
EndItemsCounted(s, g) == [s EXCEPT !.groups[g].open = FALSE]

\* After the loop; Promise.race has no count.
EndItems(s, g) ==
  LET group == s.groups[g]
      t == [s EXCEPT !.groups[g].open = FALSE, !.groups[g].remaining = @ - 1]
  IN  IF group.magic # "race" /\ group.remaining = 1
      THEN js_promise_resolve_function_call(t, group.pair,
             IF group.magic = "any" THEN Reason(Error) ELSE Value(List))
      ELSE t

-----------------------------------------------------------------------------
(* Async functions *)

\* Async function a runs until it awaits, returns or throws c.value.
js_async_function_resume(s, a, ends, c) ==
  IF ends
  THEN [js_promise_resolve_function_call(s, s.asyncs[a].pair, c) EXCEPT !.asyncs[a].active = FALSE]
  ELSE LET r == js_promise_resolve(s, Value(c.value))
       IN  perform_promise_then(r[1], r[2], Handler("resume", a), Handler("resume", a), None)

js_async_function_call(s, ends, c) ==
  LET t == js_new_promise_capability(s)
      u == [t EXCEPT !.asyncs = Append(@, [pair |-> NewestPair(t), active |-> TRUE])]
  IN  js_async_function_resume(u, Len(u.asyncs), ends, c)

-----------------------------------------------------------------------------
(* The script and the host *)

\* Promises that wait, or have waited, for another one or for a thenable.
Followers ==
  Len(rt.pairs) - Len(rt.promises) + Len(SelectSeq(rt.jobs, LAMBDA j : j.type = "thenable"))

\* The values a function may be called with, return or throw.
Things ==
  {v \in script.passes : v = Thenable => Followers < MaxFollows} \cup seen

Completions == [reject : {FALSE}, value : Things] \cup {Reason(Error)}

\* Room for n more promises, and for one more call that returns one.
Room(n) == Len(rt.promises) + n <= MaxPromises
Asks    == Room(1) /\ Cardinality(seen) < script.asks

Thens == MapThenSumSet(LAMBDA p : rt.promises[p].thens, DOMAIN rt.promises)

\* new Promise(executor), and JSPromise.create of the host.  The executor may
\* throw.
NewPromise ==
  LET t == js_new_promise_capability(rt) IN
  /\ Asks
  /\ rt' \in {t, js_promise_resolve_function_call(t, NewestPair(t), Reason(Error))}
  /\ held' = held \cup {NewestPair(t)}
  /\ seen' = seen \cup {Newest(t)}

\* The script, or JSPromise.resolve and reject, calls a resolving function.
Settle(r, c) ==
  /\ rt' = js_promise_resolve_function_call(rt, r, c)
  /\ UNCHANGED <<held, seen>>

\* Promise.resolve and Promise.reject.
Resolve(c) ==
  /\ Asks
  /\ c.reject \/ ~IsPromise(c.value)
  /\ rt' = js_promise_resolve(rt, c)[1]
  /\ seen' = seen \cup {js_promise_resolve(rt, c)[2]}
  /\ UNCHANGED held

\* p.then(...) and p.catch(...)
Then(p, onFulfilled, onRejected) ==
  /\ Asks
  /\ rt' = js_promise_then(rt, p, onFulfilled, onRejected)
  /\ seen' = seen \cup {Newest(rt')}
  /\ UNCHANGED held

\* p.finally(f)
CallFinally(p) ==
  /\ script.finally
  /\ Asks
  /\ rt' = js_promise_then(rt, p, Handler("finally", None), Handler("finally", None))
  /\ seen' = seen \cup {Newest(rt')}
  /\ UNCHANGED held

Combine(magic, items) ==
  /\ Asks
  /\ Len(rt.groups) < script.groups
  /\ rt' = js_promise_all(rt, magic, items)
  /\ seen' = seen \cup {Newest(rt) + 1}
  /\ UNCHANGED held

\* The calls whose loop over the items is not over.  Items are taken from an
\* array, so that nothing else runs until it is.
Loops == {g \in DOMAIN rt.groups : rt.groups[g].open}

CombineTurn ==
  \E g \in Loops :
    /\ rt' = IF rt.groups[g].next <= Len(rt.groups[g].items) THEN AddItem(rt, g) ELSE EndItems(rt, g)
    /\ UNCHANGED <<held, seen>>

\* The call of an async function: its body ends, or awaits a value.
CallAsync(ends, c) ==
  /\ Asks
  /\ ends \/ IsPromise(c.value) \/ Room(2)
  /\ Len(rt.asyncs) < script.asyncs
  /\ ends \/ ~c.reject
  /\ rt' = js_async_function_call(rt, ends, c)
  /\ seen' = seen \cup {Newest(rt) + 1}
  /\ UNCHANGED held

-----------------------------------------------------------------------------
(* JS_ExecutePendingJob: one action per kind of job *)

Job == Head(rt.jobs)

\* The state once the first job is taken off the list.
Dequeued == [rt EXCEPT !.jobs = Tail(@)]

\* The first job is a reaction with this kind of handler.
Reacts(kind) ==
  /\ rt.jobs # <<>>
  /\ Job.type = "reaction"
  /\ Job.reaction.handler.kind = kind
  /\ UNCHANGED held

\* Mutant of PassOn: the job stays on the list.
PassOnAgain ==
  /\ Reacts("undefined")
  /\ rt' = Complete(rt, Job.reaction.cap, Job.outcome)
  /\ UNCHANGED seen

\* No handler: the outcome is passed on.
PassOn ==
  /\ Reacts("undefined")
  /\ rt' = Complete(Dequeued, Job.reaction.cap, Job.outcome)
  /\ UNCHANGED seen

CallHandler(c) ==
  /\ Reacts("script")
  /\ rt' = Complete(Dequeued, Job.reaction.cap, c)
  /\ UNCHANGED seen

\* Mutant of CallResolving: a reason is passed on as a value.
CallResolvingAlways(kind) ==
  /\ Reacts(kind)
  /\ rt' = Complete(js_promise_resolve_function_call(Dequeued, Job.reaction.handler.of,
                      Value(Job.outcome.value)), Job.reaction.cap, Value(Undefined))
  /\ UNCHANGED seen

\* The handler is a resolving function: of a promise that follows another one,
\* or of the promise of Promise.race and any.
CallResolving(kind) ==
  LET c == IF kind = "reject" THEN Reason(Job.outcome.value) ELSE Value(Job.outcome.value) IN
  /\ Reacts(kind)
  /\ rt' = Complete(js_promise_resolve_function_call(Dequeued, Job.reaction.handler.of, c),
                    Job.reaction.cap, Value(Undefined))
  /\ UNCHANGED seen

CallElement ==
  LET of == Job.reaction.handler.of IN
  /\ Reacts("element")
  /\ rt' = Complete(js_promise_all_resolve_element(Dequeued, of[1], of[2], Job.outcome),
                    Job.reaction.cap, Value(Undefined))
  /\ UNCHANGED seen

CallThenFinally(c) ==
  /\ Reacts("finally")
  /\ c.reject \/ Room(2)
  /\ rt' = js_promise_then_finally_func(Dequeued, Job.reaction, Job.outcome, c)
  /\ UNCHANGED seen

\* js_promise_finally_value_thunk and js_promise_finally_thrower
CallThunk ==
  /\ Reacts("thunk")
  /\ rt' = Complete(Dequeued, Job.reaction.cap, Job.reaction.handler.of)
  /\ UNCHANGED seen

\* js_async_function_resolve_call: the await returns or throws.
ResumeAsync(ends, c) ==
  /\ Reacts("resume")
  /\ ends \/ (~c.reject /\ Room(1) /\ Thens < MaxThens)
  /\ rt' = Complete(js_async_function_resume(Dequeued, Job.reaction.handler.of, ends, c),
                    Job.reaction.cap, Value(Undefined))
  /\ UNCHANGED seen

\* js_promise_resolve_thenable_job: then is called with new resolving
\* functions.  The then of a promise adds a reaction; the script's keeps the
\* functions, and may throw.
ResolveThenable ==
  LET p == Job.promise
      t == js_create_resolving_functions(Dequeued, p)
      r == NewestPair(t)
  IN  /\ rt.jobs # <<>>
      /\ Job.type = "thenable"
      /\ \/ /\ IsPromise(Job.thenable)
            /\ rt' = perform_promise_then([t EXCEPT !.promises[p].mirrors = Job.thenable],
                       Job.thenable, Handler("resolve", r), Handler("reject", r), None)
            /\ UNCHANGED held
         \/ /\ Job.thenable = Thenable
            /\ rt' \in {t, js_promise_resolve_function_call(t, r, Reason(Error))}
            /\ held' = held \cup {r}
      /\ UNCHANGED seen

-----------------------------------------------------------------------------

Script ==
  \/ NewPromise
  \/ \E r \in held, c \in Completions : Settle(r, c)
  \/ \E c \in Completions : Resolve(c)
  \/ \E p \in seen, f, g \in {ScriptHandler, NoHandler} : Then(p, f, g)
  \/ \E p \in seen : CallFinally(p)
  \/ \E magic \in Combinators, items \in SeqOf(seen, 2) : Combine(magic, items)
  \/ \E ends \in BOOLEAN, c \in Completions : CallAsync(ends, c)

RunJob ==
  \/ PassOn
  \/ \E c \in Completions : CallHandler(c) \/ CallThenFinally(c)
  \/ \E kind \in {"resolve", "reject"} : CallResolving(kind)
  \/ CallElement
  \/ CallThunk
  \/ \E ends \in BOOLEAN, c \in Completions : ResumeAsync(ends, c)
  \/ ResolveThenable

Next ==
  /\ \/ Loops = {} /\ (Script \/ RunJob)
     \/ CombineTurn
  /\ UNCHANGED script

\* Common.executePendingJob runs the list until it is empty, and is called
\* after every entry into the engine.
Spec ==
  /\ Init
  /\ [][Next]_vars
  /\ WF_vars((CombineTurn \/ (Loops = {} /\ RunJob)) /\ UNCHANGED script)

-----------------------------------------------------------------------------
(* Properties *)

Outcome(p) == IF p \in DOMAIN rt.promises THEN rt.promises[p].outcome ELSE Pending
Settled(p) == Outcome(p) # Pending

\* The contract, read off the state: what each promise was settled with, how
\* many reactions it was given, and the jobs of the list, of which those for
\* thenables are no reactions.
Outcomes   == [p \in Promises |-> Outcome(p)]
Registered == [p \in Promises |-> IF p \in DOMAIN rt.promises THEN rt.promises[p].thens ELSE 0]
DueNow ==
  [i \in DOMAIN rt.jobs |->
     LET job == rt.jobs[i]
     IN  IF job.type = "reaction"
         THEN [on |-> job.reaction.on, n |-> job.reaction.n, outcome |-> job.outcome]
         ELSE [on |-> None, n |-> 0, outcome |-> Pending]]

Contract == INSTANCE PromiseContract WITH
  outcome <- Outcomes, registered <- Registered, due <- DueNow

\* js_promise_then, fulfill_or_reject_promise and JS_ExecutePendingJob keep the
\* contract of PromiseContract: a promise is settled once, and every reaction
\* becomes due once, runs once, with the outcome of its promise, and in the
\* order of registration and settling.
KeepsContract == Contract!Spec

\* JS_ExecutePendingJob, called until the list is empty, runs what is due: no
\* job waits forever behind those that other jobs add.
DueRuns == Contract!Progress

\* The ways in which p can still be settled.
Authorities(p) ==
  {<<"pair", r>> : r \in {r \in DOMAIN rt.pairs : rt.pairs[r] = [promise |-> p, resolved |-> FALSE]}}
  \cup {<<"job", i>> : i \in {i \in DOMAIN rt.jobs : rt.jobs[i].type = "thenable" /\ rt.jobs[i].promise = p}}

\* Exactly one party decides what becomes of a pending promise, and nobody of
\* a settled one: however resolve, reject, thenables and following promises
\* interleave, no promise is left without anybody to settle it, and no two
\* compete for it.
SoleAuthority ==
  \A p \in DOMAIN rt.promises :
    Cardinality(Authorities(p)) = IF Settled(p) THEN 0 ELSE 1

\* A promise that was resolved with another one
\* (js_promise_resolve_thenable_job), or that finally returned, is settled
\* only as that one was.
Mirrors ==
  \A p \in DOMAIN rt.promises :
    Settled(p) /\ rt.promises[p].mirrors # None => Outcome(p) = Outcome(rt.promises[p].mirrors)

\* The places of the reactions with handler h: those that wait, for a promise
\* to be fulfilled, and those in the list of jobs.
Waiting(s, h) ==
  UNION {{<<p, i>> : i \in {i \in DOMAIN s.promises[p].reactions[FALSE] :
                             s.promises[p].reactions[FALSE][i].handler = h}} : p \in DOMAIN s.promises}
InJobs(s, h) ==
  {i \in DOMAIN s.jobs : s.jobs[i].type = "reaction" /\ s.jobs[i].reaction.handler = h}

Reactions(s, h) == Cardinality(Waiting(s, h)) + Cardinality(InJobs(s, h))

\* An async function that awaits is resumed once: js_async_function_resume,
\* which does not check is_active, never runs a frame that was freed, and no
\* suspended frame is forgotten.
ResumesOnce ==
  \A a \in DOMAIN rt.asyncs :
    Reactions(rt, Handler("resume", a)) = IF rt.asyncs[a].active THEN 1 ELSE 0

\* What Promise.all and its kin may answer, given the outcomes of the items.
GroupAnswer(g) ==
  LET group == rt.groups[g]
      all == \A i \in DOMAIN group.items : group.values[i] = Outcome(group.items[i])
      fails == \E i \in DOMAIN group.items : Outcome(group.items[i]).reject
  IN  CASE group.magic = "all" ->
             {o \in {Value(List)} : all /\ ~fails}
             \cup {o \in {Outcome(group.items[i]) : i \in DOMAIN group.items} : o.reject}
        [] group.magic = "allSettled" -> {o \in {Value(List)} : all}
        [] group.magic = "any" ->
             {o \in {Reason(Error)} : all /\ \A i \in DOMAIN group.items : Outcome(group.items[i]).reject}
             \cup {o \in {Outcome(group.items[i]) : i \in DOMAIN group.items} : ~o.reject /\ o # Pending}
        [] group.magic = "race" ->
             {o \in {Outcome(group.items[i]) : i \in DOMAIN group.items} : o # Pending}

\* Promise.all, allSettled, any and race are settled by the right items: with
\* the array only when every element is in its place, with a reason or a value
\* only when an item has it.
GroupsSound ==
  \A g \in DOMAIN rt.groups :
    LET p == rt.pairs[rt.groups[g].pair].promise
    IN  Settled(p) => Outcome(p) \in GroupAnswer(g)

\* Groups whose items are settled while their own promise is not.
Unanswered ==
  {g \in DOMAIN rt.groups :
     /\ rt.groups[g].items # <<>>
     /\ \A i \in DOMAIN rt.groups[g].items : Settled(rt.groups[g].items[i])
     /\ ~Settled(rt.pairs[rt.groups[g].pair].promise)}

\* Promise.all and its kin (js_promise_all, js_promise_race) are settled once
\* all their items are: the count of remaining elements reaches zero.
GroupsSettle == []<>(Unanswered = {})

=============================================================================
