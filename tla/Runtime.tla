------------------------------- MODULE Runtime -------------------------------
(***************************************************************************)
(* The JavaScript runtime of sano as the Dart isolate drives it: the       *)
(* QuickJS job queue, the Dart event loop that pumps it, and the timer     *)
(* plugins setTimeout/setInterval with the references to script functions  *)
(* they keep alive.                                                        *)
(*                                                                         *)
(* The isolate is single threaded.  It is idle, or exactly one script      *)
(* activation is on the stack (`frame`); while a script runs it may call   *)
(* the host functions any number of times.  Everything the host defers     *)
(* with Future(...) waits in `futures` until the isolate is idle again.    *)
(***************************************************************************)
EXTENDS Integers, Sequences

CONSTANTS
  Timeouts,        \* the setTimeout timers a run may create (bound)
  Intervals,       \* the setInterval timers a run may create (bound)
  Hashes,          \* values Timer.hashCode may take
  MaxJobs,         \* promise jobs enqueued over a whole run (bound)
  MaxFutures,      \* no script is started with more futures queued (bound)
  UniqueKeys,      \* two timers of a plugin never get the same key
  Faults,          \* scripts may throw, and may misuse a host function
  InvokeEnqueues,  \* a script function invoked over the bridge uses promises
  None,            \* no timer
  Pump,            \* the deferred loop of Common.executePendingJob
  Undefined        \* the script value undefined

Timer == Timeouts \cup Intervals

ASSUME TimerAssumption ==
  /\ Timeouts \cap Intervals = {}
  /\ None \notin Timer
  /\ Pump \notin Timer
ASSUME ValueAssumption ==
  /\ Hashes \subseteq Nat \ {0}
  /\ Undefined \notin Nat
ASSUME BoundAssumption == MaxJobs \in Nat /\ MaxFutures \in Nat
ASSUME SwitchAssumption ==
  /\ UniqueKeys \in BOOLEAN
  /\ Faults \in BOOLEAN
  /\ InvokeEnqueues \in BOOLEAN

VARIABLES
  state,     \* the Dart Timer object: none, active, fired or cancelled
  key,       \* the key the plugin filed the timer under, 0 before that
  clocks,    \* the timers that are values of their plugin's clocks map
  held,      \* references the timer's JSFunction owns on the script function
  futures,   \* the event queue: t releases t's reference, Pump runs jobs
  frame,     \* what is on the script stack
  running,   \* the timer whose callback is on the stack, or None
  jobs,      \* length of the QuickJS job list
  fuel,      \* jobs the scripts of this run may still enqueue
  now,       \* the last reading of DateTime.now(), in microseconds
  asked      \* history: timers the script asked to clear

vars == <<state, key, clocks, held, futures, frame, running, jobs, fuel,
          now, asked>>

Frame == {"idle", "eval", "invoke", "timer", "job", "crashed"}

(* One type invariant for the whole state. *)
TypeOK ==
  /\ state \in [Timer -> {"none", "active", "fired", "cancelled"}]
  /\ key \in [Timer -> Nat]
  /\ clocks \subseteq Timer
  /\ held \in [Timer -> Int]
  /\ futures \in Seq(Timer \cup {Pump})
  /\ frame \in Frame
  /\ running \in Timer \cup {None}
  /\ jobs \in Nat
  /\ fuel \in Nat
  /\ now \in Nat
  /\ asked \subseteq Timer

Init ==
  /\ state = [t \in Timer |-> "none"]
  /\ key = [t \in Timer |-> 0]
  /\ clocks = {}
  /\ held = [t \in Timer |-> 0]
  /\ futures = <<>>
  /\ frame = "idle"
  /\ running = None
  /\ jobs = 0
  /\ fuel = MaxJobs
  /\ now = 0
  /\ asked = {}

-----------------------------------------------------------------------------
(* Helpers *)

timerVars == <<state, key, clocks, held, now, asked>>
jobVars   == <<jobs, fuel>>
stackVars == <<frame, running>>

\* The isolate's event loop is free to start a script.
Ready == frame = "idle" /\ Len(futures) < MaxFutures

\* A script is on the stack, so it can call host functions.
Scripting == frame \in {"eval", "invoke", "timer", "job"}

Plugin(t) == IF t \in Timeouts THEN Timeouts ELSE Intervals

\* Mutant of Lookup: both plugins share one map.
LookupShared(ts, id) == {c \in clocks : key[c] = id}

\* clocks[id] of the plugin that owns the timers ts; {} stands for null.
Lookup(ts, id) == {c \in clocks \cap ts : key[c] = id}

\* clocks[k] = Clock(t): an entry filed under the same key is overwritten.
File(t, k) == (clocks \ Lookup(Plugin(t), k)) \cup {t}

\* Every host function replies undefined to the script: the handler's result
\* stops in Runtime._channel.
ChannelReply(result) == Undefined

\* The number a plugin reads out of a script value (0 when it is none).
ParseDuration(v) == IF v = Undefined THEN 0 ELSE v

-----------------------------------------------------------------------------
(* Host functions, called by the running script *)

\* setTimeout(callback): take a reference, file the timer under the clock
\* reading, start it.
CreateTimeout(t) ==
  /\ Scripting
  /\ state[t] = "none"
  /\ \E k \in {now + 1} \cup (IF UniqueKeys THEN {} ELSE {now} \ {0}) :
       /\ now' = k
       /\ key' = [key EXCEPT ![t] = k]
       /\ clocks' = File(t, k)
  /\ held' = [held EXCEPT ![t] = @ + 1]
  /\ state' = [state EXCEPT ![t] = "active"]
  /\ UNCHANGED <<futures, asked>>
  /\ UNCHANGED jobVars
  /\ UNCHANGED stackVars

\* setInterval(callback): the same with a periodic timer and its hash code.
CreateInterval(t) ==
  /\ Scripting
  /\ state[t] = "none"
  /\ \E k \in Hashes :
       /\ UniqueKeys => \A u \in Intervals : key[u] # k
       /\ key' = [key EXCEPT ![t] = k]
       /\ clocks' = File(t, k)
  /\ held' = [held EXCEPT ![t] = @ + 1]
  /\ state' = [state EXCEPT ![t] = "active"]
  /\ UNCHANGED <<futures, now, asked>>
  /\ UNCHANGED jobVars
  /\ UNCHANGED stackVars

\* Mutant of Clear: the entry stays in clocks.
ClearKeepsEntry(ts, id, after) ==
  /\ UNCHANGED clocks
  /\ \/ /\ Lookup(ts, id) = {}
        /\ futures' = futures \o after
        /\ UNCHANGED state
     \/ \E c \in Lookup(ts, id) :
          /\ state' = [state EXCEPT ![c] = IF @ = "active" THEN "cancelled" ELSE @]
          /\ futures' = Append(futures, c) \o after

\* Interval.clear(id), followed by scheduling the tasks `after`.  The timer
\* stops at once; its reference is released by a future.
Clear(ts, id, after) ==
  \/ /\ Lookup(ts, id) = {}
     /\ futures' = futures \o after
     /\ UNCHANGED <<state, clocks>>
  \/ \E c \in Lookup(ts, id) :
       /\ state' = [state EXCEPT ![c] = IF @ = "active" THEN "cancelled" ELSE @]
       /\ futures' = Append(futures, c) \o after
       /\ clocks' = clocks \ {c}

\* clearTimeout(h)/clearInterval(h) with the value h that the script got back
\* when it created t.
ClearHandle(t) ==
  /\ Scripting
  /\ state[t] # "none"
  /\ Clear(Plugin(t), ParseDuration(ChannelReply(key[t])), <<>>)
  /\ asked' = asked \cup {t}
  /\ UNCHANGED <<key, held, now>>
  /\ UNCHANGED jobVars
  /\ UNCHANGED stackVars

\* clearTimeout(n)/clearInterval(n) with a number that is t's key.
ClearNumber(t) ==
  /\ Scripting
  /\ state[t] # "none"
  /\ Clear(Plugin(t), ParseDuration(key[t]), <<>>)
  /\ asked' = asked \cup {u \in Plugin(t) : key[u] = key[t]}
  /\ UNCHANGED <<key, held, now>>
  /\ UNCHANGED jobVars
  /\ UNCHANGED stackVars

\* The script settles or awaits a promise: one more reaction job.
EnqueueJob ==
  /\ Scripting
  /\ frame = "invoke" => InvokeEnqueues
  /\ fuel > 0
  /\ fuel' = fuel - 1
  /\ jobs' = jobs + 1
  /\ UNCHANGED timerVars
  /\ UNCHANGED stackVars
  /\ UNCHANGED futures

\* A host function called with arguments its Dart handler does not accept:
\* the handler throws, the native trampoline gets a null pointer for the
\* reply and dereferences it.
MisuseHost ==
  /\ Faults
  /\ Scripting
  /\ frame' = "crashed"
  /\ running' = None
  /\ UNCHANGED timerVars
  /\ UNCHANGED jobVars
  /\ UNCHANGED futures

-----------------------------------------------------------------------------
(* Scripts started from Dart, and how each of them ends *)

\* Runtime.evaluateJavaScript: a script runs ...
Evaluate ==
  /\ Ready
  /\ frame' = "eval"
  /\ UNCHANGED running
  /\ UNCHANGED timerVars
  /\ UNCHANGED jobVars
  /\ UNCHANGED futures


\* ... and completes: the job loop is scheduled.
EvaluateReturn ==
  /\ frame = "eval"
  /\ frame' = "idle"
  /\ futures' = Append(futures, Pump)
  /\ UNCHANGED running
  /\ UNCHANGED timerVars
  /\ UNCHANGED jobVars

\* Bridge.invoke: a script function is called over the bridge ...
Invoke ==
  /\ Ready
  /\ frame' = "invoke"
  /\ UNCHANGED running
  /\ UNCHANGED timerVars
  /\ UNCHANGED jobVars
  /\ UNCHANGED futures

\* ... and returns: invoke hands the value back and schedules nothing.
InvokeReturn ==
  /\ frame = "invoke"
  /\ frame' = "idle"
  /\ UNCHANGED running
  /\ UNCHANGED timerVars
  /\ UNCHANGED jobVars
  /\ UNCHANGED futures

\* JSPromise.resolve/reject from Dart: the resolving function enqueues the
\* reaction and the job loop is scheduled.
SettlePromise ==
  /\ Ready
  /\ fuel > 0
  /\ fuel' = fuel - 1
  /\ jobs' = jobs + 1
  /\ futures' = Append(futures, Pump)
  /\ UNCHANGED timerVars
  /\ UNCHANGED stackVars

\* A timer is due and its closure calls the script callback.  A one-shot
\* timer is no longer active from here on.
Fire(t) ==
  /\ Ready
  /\ state[t] = "active"
  /\ frame' = "timer"
  /\ running' = t
  /\ state' = [state EXCEPT ![t] = IF t \in Timeouts THEN "fired" ELSE @]
  /\ UNCHANGED <<key, clocks, held, now, asked>>
  /\ UNCHANGED jobVars
  /\ UNCHANGED futures

\* Mutant of TimeoutReturn: the closure does not clear its own timer.
TimeoutReturnNoClear(t) ==
  /\ running = t
  /\ frame' = "idle"
  /\ running' = None
  /\ futures' = Append(futures, Pump)
  /\ UNCHANGED <<timerVars, jobVars>>

\* Mutant of TimeoutReturn: no dispatch.
TimeoutReturnNoDispatch(t) ==
  /\ running = t
  /\ frame' = "idle"
  /\ running' = None
  /\ Clear(Timeouts, key[t], <<>>)
  /\ UNCHANGED <<key, held, now, asked, jobVars>>

\* The callback of a one-shot timer returns: clearTimeout(id), then dispatch.
TimeoutReturn(t) ==
  /\ running = t
  /\ frame' = "idle"
  /\ running' = None
  /\ Clear(Timeouts, key[t], <<Pump>>)
  /\ UNCHANGED <<key, held, now, asked>>
  /\ UNCHANGED jobVars

\* The callback of a periodic timer returns: dispatch.
IntervalReturn(t) ==
  /\ running = t
  /\ frame' = "idle"
  /\ running' = None
  /\ futures' = Append(futures, Pump)
  /\ UNCHANGED timerVars
  /\ UNCHANGED jobVars

\* A script ends with an exception.  evaluateJavaScript, JSFunction.call and
\* the timer closures rethrow it at that point: what follows the call
\* (clearTimeout, dispatch) does not run.
ScriptThrow ==
  /\ Faults
  /\ frame \in {"eval", "invoke", "timer"}
  /\ frame' = "idle"
  /\ running' = None
  /\ UNCHANGED timerVars
  /\ UNCHANGED jobVars
  /\ UNCHANGED futures

-----------------------------------------------------------------------------
(* The futures *)

\* Mutant of RunFree: the release does not wait for the script to finish.
RunFreeAtOnce(t) ==
  /\ futures # <<>>
  /\ Head(futures) = t
  /\ futures' = Tail(futures)
  /\ held' = [held EXCEPT ![t] = @ - 1]
  /\ UNCHANGED <<state, key, clocks, now, asked, jobVars, stackVars>>

\* JSObject.free: the deferred JS_FreeValue.
RunFree(t) ==
  /\ frame = "idle"
  /\ futures # <<>>
  /\ Head(futures) = t
  /\ futures' = Tail(futures)
  /\ held' = [held EXCEPT ![t] = @ - 1]
  /\ UNCHANGED <<state, key, clocks, now, asked>>
  /\ UNCHANGED jobVars
  /\ UNCHANGED stackVars

\* The loop of Common.executePendingJob takes the next job off the list, or
\* ends when there is none.
NextJob ==
  /\ jobs' = IF jobs = 0 THEN 0 ELSE jobs - 1
  /\ frame' = IF jobs = 0 THEN "idle" ELSE "job"

RunPump ==
  /\ frame = "idle"
  /\ futures # <<>>
  /\ Head(futures) = Pump
  /\ futures' = Tail(futures)
  /\ NextJob
  /\ UNCHANGED <<fuel, running>>
  /\ UNCHANGED timerVars

\* Mutant of JobReturn: one job per run of the loop.
JobReturnOnce ==
  /\ frame = "job"
  /\ frame' = "idle"
  /\ UNCHANGED <<running, futures, timerVars, jobVars>>

JobReturn ==
  /\ frame = "job"
  /\ NextJob
  /\ UNCHANGED <<fuel, running, futures>>
  /\ UNCHANGED timerVars

\* A job fails: JS_ExecutePendingJob answers -1 and the loop throws.
JobThrow ==
  /\ Faults
  /\ frame = "job"
  /\ frame' = "idle"
  /\ UNCHANGED running
  /\ UNCHANGED timerVars
  /\ UNCHANGED jobVars
  /\ UNCHANGED futures

-----------------------------------------------------------------------------

RunFuture == RunPump \/ \E t \in Timer : RunFree(t)

ScriptReturn ==
  \/ EvaluateReturn
  \/ InvokeReturn
  \/ JobReturn
  \/ \E t \in Timeouts : TimeoutReturn(t)
  \/ \E t \in Intervals : IntervalReturn(t)

HostCall ==
  \/ \E t \in Timeouts : CreateTimeout(t)
  \/ \E t \in Intervals : CreateInterval(t)
  \/ \E t \in Timer : ClearHandle(t) \/ ClearNumber(t)
  \/ EnqueueJob
  \/ MisuseHost

Next ==
  \/ Evaluate
  \/ Invoke
  \/ SettlePromise
  \/ \E t \in Timer : Fire(t)
  \/ HostCall
  \/ ScriptReturn
  \/ ScriptThrow
  \/ RunFuture
  \/ JobThrow

Spec == Init /\ [][Next]_vars

(***************************************************************************)
(* Fairness.  A script returns (a script that loops forever blocks the     *)
(* isolate and nothing is claimed about it).  The event loop is a queue    *)
(* ordered by due time, so a future, and a timer that stays active, is     *)
(* served even though other events keep making the isolate busy: strong    *)
(* fairness.                                                               *)
(***************************************************************************)
FairSpec ==
  /\ Spec
  /\ WF_vars(ScriptReturn)
  /\ SF_vars(RunFuture)
  /\ \A t \in Timer : SF_vars(Fire(t))

-----------------------------------------------------------------------------
(* Properties *)

\* x waits in the queue q; it waits there at most once.
Queued(q, x) == \E i \in DOMAIN q : q[i] = x
AtMostOnce(q, x) == \A i, j \in DOMAIN q : q[i] = x /\ q[j] = x => i = j

\* dupValue/free pair up for every timer callback, whatever the interleaving
\* of clearTimeout/clearInterval, the timer's own completion and the deferred
\* JS_FreeValue: at most one release is queued, and only for a reference that
\* is still owned (no double free, Interval.clear and SetTimeout's closure).
NoDoubleFree ==
  \A t \in Timer :
    /\ held[t] \in {0, 1}
    /\ Queued(futures, t) => held[t] = 1
    /\ AtMostOnce(futures, t)

\* The function a timer would call, or is calling right now, is never
\* released under it: a callback may clear its own timer while it runs, and
\* the release waits in a future (JSObject.free).
NoUseAfterFree ==
  \A t \in Timer :
    /\ state[t] = "active" => held[t] = 1 /\ ~Queued(futures, t)
    /\ running = t => held[t] = 1

\* A timer is stopped before its time only on the script's request: the
\* clearTimeout(id) a one-shot timer ends with never hits another timer.
OnlyScriptCancels ==
  \A t \in Timer : state[t] = "cancelled" => t \in asked

\* When the isolate is at rest the plugins own references only for timers
\* that may still fire: what createTimer duplicated has been given back.
NoLeak ==
  frame = "idle" /\ futures = <<>> =>
    \A t \in Timer : held[t] # 0 => state[t] = "active"

\* Promise jobs wait in an idle isolate, and no run of the job loop is
\* scheduled: they wait for somebody else to schedule one.
Stranded == frame = "idle" /\ jobs > 0 /\ ~Queued(futures, Pump)

\* Two things alone strand jobs, a function called by Bridge.invoke and an
\* exception of a script or a job.  Every script that evaluateJavaScript or a
\* timer started, every JSPromise settled by the host and every run of the job
\* loop leaves the loop scheduled or no job, also for jobs that were stranded
\* before.
JobsPumped ==
  [][Stranded' => Stranded \/ frame = "invoke" \/ ScriptThrow \/ JobThrow]_vars

\* A one-shot timer fires unless the script asked to clear it.
TimeoutsFire ==
  \A t \in Timeouts : state[t] = "active" ~> state[t] = "fired" \/ t \in asked

\* Every job that is enqueued is executed.
JobsDrain == jobs > 0 ~> jobs = 0

\* Once a timer is over, the reference on its callback is given back.
CallbacksReleased ==
  \A t \in Timer : state[t] \in {"fired", "cancelled"} ~> held[t] = 0

=============================================================================
