---------------------------- MODULE RuntimeProofs ----------------------------
(***************************************************************************)
(* Proofs about Runtime, for every set of timers, every bound and every    *)
(* setting of the switches (colliding keys and script faults included).    *)
(***************************************************************************)
EXTENDS Runtime, TLAPS

-----------------------------------------------------------------------------
(* The event queue *)

\* Scheduling x leaves every other task as often in the queue as it was, and
\* x itself in it once if it was not there (Future(...) appends).
LEMMA QueueAppend ==
  ASSUME NEW S, NEW q \in Seq(S), NEW x \in S, NEW y \in S
  PROVE  /\ Append(q, x) \in Seq(S)
         /\ y # x => (Queued(Append(q, x), y) <=> Queued(q, y))
         /\ y # x /\ AtMostOnce(q, y) => AtMostOnce(Append(q, x), y)
         /\ ~Queued(q, x) => AtMostOnce(Append(q, x), x)
<1>1. Append(q, x) \in Seq(S)
  OBVIOUS
<1>2. DOMAIN Append(q, x) = DOMAIN q \cup {Len(q) + 1}
  OBVIOUS
<1>3. \A i \in DOMAIN q : Append(q, x)[i] = q[i]
  OBVIOUS
<1>4. Append(q, x)[Len(q) + 1] = x /\ (Len(q) + 1) \notin DOMAIN q
  OBVIOUS
<1> QED
  BY <1>1, <1>2, <1>3, <1>4 DEF Queued, AtMostOnce

\* Running the head of the queue leaves the other tasks, and a task that was
\* queued at most once is gone when it was the head.
LEMMA QueueTail ==
  ASSUME NEW S, NEW q \in Seq(S), q # <<>>, NEW y \in S
  PROVE  /\ Tail(q) \in Seq(S)
         /\ Head(q) \in S
         /\ Queued(Tail(q), y) => Queued(q, y)
         /\ AtMostOnce(q, y) => AtMostOnce(Tail(q), y)
         /\ Head(q) = y /\ AtMostOnce(q, y) => ~Queued(Tail(q), y)
         /\ Head(q) = y => Queued(q, y)
<1>1. Tail(q) \in Seq(S) /\ Head(q) \in S /\ Head(q) = q[1] /\ 1 \in DOMAIN q
  OBVIOUS
<1>2. \A i \in DOMAIN Tail(q) : i + 1 \in DOMAIN q /\ Tail(q)[i] = q[i + 1]
                                /\ i \in Nat /\ i >= 1
  OBVIOUS
<1> QED
  BY <1>1, <1>2 DEF Queued, AtMostOnce

\* What Clear schedules behind its own release: nothing or the job loop.
LEMMA QueueConcat ==
  ASSUME NEW S, NEW q \in Seq(S), NEW x \in S
  PROVE  q \o <<>> = q /\ q \o <<x>> = Append(q, x)
OBVIOUS

\* Runtime.dispatch: scheduling the job loop touches no release.
LEMMA QueuePump ==
  ASSUME NEW q \in Seq(Timer \cup {Pump})
  PROVE  /\ Append(q, Pump) \in Seq(Timer \cup {Pump})
         /\ \A t \in Timer :
              /\ Queued(Append(q, Pump), t) <=> Queued(q, t)
              /\ AtMostOnce(q, t) => AtMostOnce(Append(q, Pump), t)
<1>1. Pump \in Timer \cup {Pump} /\ Pump \notin Timer
  BY TimerAssumption
<1>2. Append(q, Pump) \in Seq(Timer \cup {Pump})
  BY <1>1, QueueAppend
<1>3. ASSUME NEW t \in Timer
      PROVE  /\ Queued(Append(q, Pump), t) <=> Queued(q, t)
             /\ AtMostOnce(q, t) => AtMostOnce(Append(q, Pump), t)
  <2>1. t \in Timer \cup {Pump} /\ t # Pump
    BY <1>1
  <2> QED
    BY <1>1, <2>1, QueueAppend
<1> QED
  BY <1>2, <1>3

-----------------------------------------------------------------------------
(* The inductive invariant *)

\* NoDoubleFree and NoUseAfterFree are not inductive: that a release is
\* queued only once rests on clocks (Interval.clear takes a timer out of it
\* before it queues the release, and a timer is filed once, when it is
\* created), and that a running callback is not released rests on futures
\* running only while no script is on the stack.
Owned(t) ==
  /\ held[t] \in {0, 1}
  /\ state[t] = "none" => held[t] = 0
  /\ state[t] = "active" => held[t] = 1
  /\ t \in clocks => held[t] = 1
  /\ running = t => held[t] = 1
  /\ Queued(futures, t) => held[t] = 1 /\ t \notin clocks /\ state[t] # "active"
  /\ AtMostOnce(futures, t)

IInv ==
  /\ TypeOK
  /\ frame # "timer" => running = None
  /\ \A t \in Timer : Owned(t)

\* Interval.clear, in the middle of its caller's step: it keeps the queue, the
\* timers and the map well formed, and queues a release only of a timer that
\* is owned and not queued yet.
LEMMA ClearStep ==
  ASSUME IInv,
         NEW ts, NEW id, NEW after \in {<<>>, <<Pump>>},
         Clear(ts, id, after)
  PROVE  /\ state' \in [Timer -> {"none", "active", "fired", "cancelled"}]
         /\ clocks' \subseteq clocks
         /\ futures' \in Seq(Timer \cup {Pump})
         /\ \A t \in Timer :
              /\ state'[t] = "none" <=> state[t] = "none"
              /\ state'[t] = "active" => state[t] = "active"
              /\ AtMostOnce(futures', t)
              /\ Queued(futures', t) =>
                   held[t] = 1 /\ t \notin clocks' /\ state'[t] # "active"
<1> DEFINE S == Timer \cup {Pump}
<1> USE DEF IInv
<1>1. futures \in Seq(S)
  BY DEF TypeOK
<1>2. Pump \notin Timer
  BY TimerAssumption
<1>3. CASE /\ Lookup(ts, id) = {}
           /\ futures' = futures \o after
           /\ UNCHANGED <<state, clocks>>
  <2>1. futures' = futures \/ futures' = Append(futures, Pump)
    BY <1>1, <1>3, QueueConcat
  <2>2. futures' \in Seq(S)
    BY <1>1, <2>1, QueueAppend
  <2>3. \A t \in Timer : /\ Queued(futures', t) => Queued(futures, t)
                         /\ AtMostOnce(futures', t)
    <3>1. \A t \in Timer : AtMostOnce(futures, t)
      BY DEF Owned
    <3>2. CASE futures' = futures
      BY <3>1, <3>2
    <3>3. CASE futures' = Append(futures, Pump)
      BY <1>1, <3>1, <3>3, QueuePump
    <3> QED
      BY <2>1, <3>2, <3>3
  <2> QED
    BY <1>3, <2>2, <2>3 DEF TypeOK, Owned
<1>4. ASSUME NEW c \in Lookup(ts, id),
             state' = [state EXCEPT ![c] = IF @ = "active" THEN "cancelled" ELSE @],
             futures' = Append(futures, c) \o after,
             clocks' = clocks \ {c}
      PROVE  /\ state' \in [Timer -> {"none", "active", "fired", "cancelled"}]
             /\ clocks' \subseteq clocks
             /\ futures' \in Seq(S)
             /\ \A t \in Timer :
                  /\ state'[t] = "none" <=> state[t] = "none"
                  /\ state'[t] = "active" => state[t] = "active"
                  /\ AtMostOnce(futures', t)
                  /\ Queued(futures', t) =>
                       held[t] = 1 /\ t \notin clocks' /\ state'[t] # "active"
  <2> DEFINE q == Append(futures, c)
  <2>1. c \in clocks /\ c \in Timer
    BY <1>4 DEF Lookup, TypeOK
  <2>2. held[c] = 1 /\ ~Queued(futures, c)
    BY <2>1 DEF Owned
  <2>3. q \in Seq(S)
    BY <1>1, <2>1, QueueAppend
  <2>4. \A t \in Timer : /\ t # c => (Queued(q, t) <=> Queued(futures, t))
                         /\ AtMostOnce(q, t)
    BY <1>1, <2>1, <2>2, QueueAppend DEF Owned
  <2>5. futures' = q \/ futures' = Append(q, Pump)
    <3> HIDE DEF q
    <3>1. futures' = q \o after
      BY <1>4 DEF q
    <3> QED
      BY <2>3, <3>1, QueueConcat
  <2>6. futures' \in Seq(S)
    BY <2>3, <2>5, QueueAppend
  <2>7. \A t \in Timer : /\ Queued(futures', t) => Queued(q, t)
                         /\ AtMostOnce(futures', t)
    <3> HIDE DEF q
    <3> QED
      BY <2>3, <2>4, <2>5, QueuePump
  <2>8. \A t \in Timer : t # c => state'[t] = state[t]
    BY <1>4, <2>1 DEF TypeOK
  <2>9. /\ state' \in [Timer -> {"none", "active", "fired", "cancelled"}]
        /\ state'[c] # "active"
        /\ state'[c] = "none" <=> state[c] = "none"
    BY <1>4, <2>1 DEF TypeOK
  <2>10. \A t \in Timer : Queued(futures', t) =>
            held[t] = 1 /\ t \notin clocks' /\ state'[t] # "active"
    <3> SUFFICES ASSUME NEW t \in Timer, Queued(futures', t)
                 PROVE  held[t] = 1 /\ t \notin clocks' /\ state'[t] # "active"
      OBVIOUS
    <3>1. CASE t = c
      BY <1>4, <2>2, <2>9, <3>1
    <3>2. CASE t # c
      <4>1. Queued(futures, t)
        BY <2>4, <2>7, <3>2
      <4> QED
        BY <1>4, <2>8, <3>2, <4>1 DEF Owned
    <3> QED
      BY <3>1, <3>2
  <2> QED
    BY <1>4, <2>6, <2>7, <2>8, <2>9, <2>10
<1> QED
  BY <1>3, <1>4 DEF Clear

\* A step that leaves the timers alone and schedules at most the job loop.
LEMMA QuietStep ==
  ASSUME IInv,
         UNCHANGED timerVars,
         futures' \in {futures, Append(futures, Pump)},
         running' \in {running, None},
         frame' \in Frame,
         frame' # "timer" => running' = None,
         jobs' \in Nat,
         fuel' \in Nat
  PROVE  IInv'
<1> USE DEF IInv, timerVars
<1>1. futures' \in Seq(Timer \cup {Pump})
  BY QueuePump DEF TypeOK
<1>2. TypeOK'
  BY <1>1 DEF TypeOK
<1>3. ASSUME NEW t \in Timer
      PROVE  Owned(t)'
  <2>1. /\ Queued(futures', t) <=> Queued(futures, t)
        /\ AtMostOnce(futures', t)
    <3>1. futures \in Seq(Timer \cup {Pump}) /\ AtMostOnce(futures, t)
      BY DEF Owned, TypeOK
    <3> QED
      BY <3>1, QueuePump
  <2>2. running' = t => running = t
    BY TimerAssumption
  <2> QED
    BY <2>1, <2>2 DEF Owned
<1> QED
  BY <1>2, <1>3

\* Creating a timer: a new timer owns nothing yet, so its one reference is
\* the one that createTimer duplicates, and no release of it is queued.
LEMMA CreateStep ==
  ASSUME IInv,
         NEW t \in Timer, state[t] = "none",
         NEW k \in Nat,
         key' = [key EXCEPT ![t] = k],
         clocks' = File(t, k),
         held' = [held EXCEPT ![t] = @ + 1],
         state' = [state EXCEPT ![t] = "active"],
         now' \in Nat,
         UNCHANGED <<futures, asked>>,
         UNCHANGED jobVars,
         UNCHANGED stackVars
  PROVE  IInv'
<1> USE DEF IInv, jobVars, stackVars
<1>1. held[t] = 0
  BY DEF Owned
<1>2. clocks' \subseteq clocks \cup {t}
  BY DEF File
<1>3. TypeOK'
  BY <1>1, <1>2 DEF TypeOK
<1>4. ASSUME NEW u \in Timer
      PROVE  Owned(u)'
  <2>1. CASE u = t
    <3>1. held'[u] = 1 /\ state'[u] = "active" /\ ~Queued(futures, u)
      BY <1>1, <2>1 DEF Owned, TypeOK
    <3> QED
      BY <3>1 DEF Owned
  <2>2. CASE u # t
    <3>1. held'[u] = held[u] /\ state'[u] = state[u]
      BY <2>2 DEF TypeOK
    <3>2. u \in clocks' => u \in clocks
      BY <1>2, <2>2
    <3> QED
      BY <3>1, <3>2 DEF Owned
  <2> QED
    BY <2>1, <2>2
<1> QED
  BY <1>3, <1>4

\* Interval.clear as a whole step: from the running script, or at the end of
\* a one-shot timer's closure.
LEMMA ClearKeeps ==
  ASSUME IInv,
         NEW ts, NEW id, NEW after \in {<<>>, <<Pump>>},
         Clear(ts, id, after),
         running' \in {running, None},
         frame' \in Frame,
         frame' # "timer" => running' = None,
         asked' \subseteq Timer,
         UNCHANGED <<key, held, now>>,
         UNCHANGED jobVars
  PROVE  IInv'
<1> USE DEF IInv, jobVars
<1>1. /\ state' \in [Timer -> {"none", "active", "fired", "cancelled"}]
      /\ clocks' \subseteq clocks
      /\ futures' \in Seq(Timer \cup {Pump})
      /\ \A t \in Timer :
           /\ state'[t] = "none" <=> state[t] = "none"
           /\ state'[t] = "active" => state[t] = "active"
           /\ AtMostOnce(futures', t)
           /\ Queued(futures', t) =>
                held[t] = 1 /\ t \notin clocks' /\ state'[t] # "active"
  BY ClearStep
<1>2. TypeOK'
  BY <1>1 DEF TypeOK
<1>3. ASSUME NEW t \in Timer
      PROVE  Owned(t)'
  <2>1. running' = t => running = t
    BY TimerAssumption
  <2> QED
    BY <1>1, <2>1 DEF Owned
<1> QED
  BY <1>2, <1>3

\* A future releases the reference of t: its only release, and no script is
\* on the stack, so nobody is using it.
LEMMA FreeStep ==
  ASSUME IInv, NEW t \in Timer, RunFree(t)
  PROVE  IInv'
<1> USE DEF IInv, RunFree, jobVars, stackVars
<1> DEFINE S == Timer \cup {Pump}
<1>1. futures \in Seq(S) /\ futures # <<>> /\ t \in S /\ AtMostOnce(futures, t)
  BY DEF TypeOK, Owned
<1>2. futures' \in Seq(S) /\ Queued(futures, t) /\ ~Queued(futures', t)
  BY <1>1, QueueTail
<1>3. held[t] = 1 /\ t \notin clocks /\ state[t] # "active" /\ running # t
  BY <1>2, TimerAssumption DEF Owned
<1>4. TypeOK'
  BY <1>2, <1>3 DEF TypeOK
<1>5. ASSUME NEW u \in Timer
      PROVE  Owned(u)'
  <2>1. /\ Queued(futures', u) => Queued(futures, u)
        /\ AtMostOnce(futures', u)
    <3>1. u \in S /\ AtMostOnce(futures, u)
      BY DEF Owned
    <3> QED
      BY <1>1, <3>1, QueueTail
  <2>2. CASE u = t
    <3>1. held'[u] = 0
      BY <1>3, <2>2 DEF TypeOK
    <3>2. ~Queued(futures', u)
      BY <1>2, <2>2
    <3> QED
      BY <1>3, <2>1, <2>2, <3>1, <3>2 DEF Owned
  <2>3. CASE u # t
    <3>1. held'[u] = held[u]
      BY <2>3 DEF TypeOK
    <3> QED
      BY <2>1, <3>1 DEF Owned
  <2> QED
    BY <2>2, <2>3
<1> QED
  BY <1>4, <1>5

\* The event queue hands the job loop to the isolate.
LEMMA PumpStep ==
  ASSUME IInv, RunPump
  PROVE  IInv'
<1> USE DEF IInv, RunPump, NextJob, timerVars
<1> DEFINE S == Timer \cup {Pump}
<1>1. futures \in Seq(S) /\ futures # <<>>
  BY DEF TypeOK
<1>2. futures' \in Seq(S)
  BY <1>1, QueueTail
<1>3. TypeOK'
  BY <1>2 DEF TypeOK, Frame
<1>4. ASSUME NEW t \in Timer
      PROVE  Owned(t)'
  <2>1. t \in S /\ AtMostOnce(futures, t)
    BY DEF Owned
  <2>2. /\ Queued(futures', t) => Queued(futures, t)
        /\ AtMostOnce(futures', t)
    BY <1>1, <2>1, QueueTail
  <2> QED
    BY <2>2 DEF Owned
<1> QED
  BY <1>3, <1>4 DEF TypeOK

\* A timer fires: it is active, so its callback is owned.
LEMMA FireStep ==
  ASSUME IInv, NEW t \in Timer, Fire(t)
  PROVE  IInv'
<1> USE DEF IInv, Fire, jobVars
<1>1. state' \in [Timer -> {"none", "active", "fired", "cancelled"}]
  BY DEF TypeOK
<1>2. TypeOK'
  BY <1>1 DEF TypeOK, Frame
<1>3. ASSUME NEW u \in Timer
      PROVE  Owned(u)'
  <2>1. /\ state'[u] = "none" <=> state[u] = "none"
        /\ state'[u] = "active" => state[u] = "active"
        /\ running' = u => state[u] = "active"
    BY DEF TypeOK
  <2> QED
    BY <2>1 DEF Owned
<1> QED
  BY <1>2, <1>3

-----------------------------------------------------------------------------
(* The theorems *)

\* The runtime starts with no timer, no queued release and an empty job list,
\* which satisfies the inductive invariant.
LEMMA InitIInv == Init => IInv
<1> SUFFICES ASSUME Init PROVE IInv
  OBVIOUS
<1>1. TypeOK
  BY BoundAssumption DEF Init, TypeOK, Frame
<1>2. \A t \in Timer : Owned(t)
  BY TimerAssumption DEF Init, Owned, Queued, AtMostOnce
<1> QED
  BY <1>1, <1>2 DEF Init, IInv

\* Every host call, script, timer and future preserves the inductive
\* invariant: one step per action of Next.
LEMMA NextIInv == IInv /\ [Next]_vars => IInv'
<1> SUFFICES ASSUME IInv, [Next]_vars PROVE IInv'
  OBVIOUS
<1> USE DEF timerVars, jobVars, stackVars
<1>0. /\ futures \in Seq(Timer \cup {Pump})
      /\ frame \in Frame /\ running \in Timer \cup {None}
      /\ jobs \in Nat /\ fuel \in Nat /\ now \in Nat
      /\ asked \subseteq Timer /\ key \in [Timer -> Nat]
      /\ frame # "timer" => running = None
  BY DEF IInv, TypeOK
<1>1. CASE Evaluate
  BY <1>0, <1>1, QuietStep DEF Evaluate, Ready, Frame
<1>2. CASE Invoke
  BY <1>0, <1>2, QuietStep DEF Invoke, Ready, Frame
<1>3. CASE SettlePromise
  BY <1>0, <1>3, QuietStep DEF SettlePromise, Ready, Frame
<1>4. ASSUME NEW t \in Timer, Fire(t) PROVE IInv'
  BY <1>4, FireStep
<1>5. ASSUME NEW t \in Timeouts, CreateTimeout(t) PROVE IInv'
  <2>1. PICK k \in {now + 1} \cup (IF UniqueKeys THEN {} ELSE {now} \ {0}) :
          /\ now' = k
          /\ key' = [key EXCEPT ![t] = k]
          /\ clocks' = File(t, k)
    BY <1>5 DEF CreateTimeout
  <2>2. k \in Nat /\ t \in Timer
    BY <1>0 DEF Timer
  <2> QED
    BY <1>5, <2>1, <2>2, CreateStep DEF CreateTimeout
<1>6. ASSUME NEW t \in Intervals, CreateInterval(t) PROVE IInv'
  <2>1. PICK k \in Hashes :
          /\ key' = [key EXCEPT ![t] = k]
          /\ clocks' = File(t, k)
    BY <1>6 DEF CreateInterval
  <2>2. k \in Nat /\ t \in Timer
    BY ValueAssumption DEF Timer
  <2> QED
    BY <1>0, <1>6, <2>1, <2>2, CreateStep DEF CreateInterval
<1>7. ASSUME NEW t \in Timer, ClearHandle(t) PROVE IInv'
  <2>1. PICK id : id = ParseDuration(ChannelReply(key[t]))
    OBVIOUS
  <2>2. Clear(Plugin(t), id, <<>>)
    BY <1>7, <2>1 DEF ClearHandle
  <2> QED
    BY <1>0, <1>7, <2>2, ClearKeeps DEF ClearHandle
<1>8. ASSUME NEW t \in Timer, ClearNumber(t) PROVE IInv'
  <2>1. PICK id : id = ParseDuration(key[t])
    OBVIOUS
  <2>2. Clear(Plugin(t), id, <<>>)
    BY <1>8, <2>1 DEF ClearNumber
  <2>3. Plugin(t) \subseteq Timer
    BY DEF Plugin, Timer
  <2> QED
    BY <1>0, <1>8, <2>2, <2>3, ClearKeeps DEF ClearNumber
<1>9. CASE EnqueueJob
  BY <1>0, <1>9, QuietStep DEF EnqueueJob
<1>10. CASE MisuseHost
  BY <1>0, <1>10, QuietStep DEF MisuseHost, Frame
<1>11. CASE EvaluateReturn
  BY <1>0, <1>11, QuietStep DEF EvaluateReturn, Frame
<1>12. CASE InvokeReturn
  BY <1>0, <1>12, QuietStep DEF InvokeReturn, Frame
<1>13. CASE JobReturn
  BY <1>0, <1>13, QuietStep DEF JobReturn, NextJob, Frame
<1>14. ASSUME NEW t \in Timeouts, TimeoutReturn(t) PROVE IInv'
  <2>1. PICK id : id = key[t]
    OBVIOUS
  <2>2. Clear(Timeouts, id, <<Pump>>)
    BY <1>14, <2>1 DEF TimeoutReturn
  <2> QED
    BY <1>0, <1>14, <2>2, ClearKeeps DEF TimeoutReturn, Frame
<1>15. ASSUME NEW t \in Intervals, IntervalReturn(t) PROVE IInv'
  BY <1>0, <1>15, QuietStep DEF IntervalReturn, Frame
<1>16. CASE ScriptThrow
  BY <1>0, <1>16, QuietStep DEF ScriptThrow, Frame
<1>17. CASE RunPump
  BY <1>17, PumpStep
<1>18. ASSUME NEW t \in Timer, RunFree(t) PROVE IInv'
  BY <1>18, FreeStep
<1>19. CASE JobThrow
  BY <1>0, <1>19, QuietStep DEF JobThrow, Frame
<1>20. CASE UNCHANGED vars
  BY <1>0, <1>20, QuietStep DEF vars
<1> QED
  BY <1>1, <1>2, <1>3, <1>4, <1>5, <1>6, <1>7, <1>8, <1>9, <1>10, <1>11,
     <1>12, <1>13, <1>14, <1>15, <1>16, <1>17, <1>18, <1>19, <1>20
     DEF Next, HostCall, ScriptReturn, RunFuture

\* Every reachable state of the runtime satisfies the inductive invariant.
THEOREM Inductive == Spec => []IInv
BY InitIInv, NextIInv, PTL DEF Spec

\* The state of the runtime model keeps its type.
THEOREM TypeCorrect == Spec => []TypeOK
<1>1. IInv => TypeOK
  BY DEF IInv
<1> QED
  BY <1>1, Inductive, PTL

\* dupValue in createTimer and the deferred JS_FreeValue pair up: no timer
\* callback is released twice, for any number of timers, any collision of
\* keys, and any script that throws or misuses the host functions.
THEOREM NeverDoubleFree == Spec => []NoDoubleFree
<1>1. IInv => NoDoubleFree
  BY DEF IInv, Owned, NoDoubleFree
<1> QED
  BY <1>1, Inductive, PTL

\* A timer never calls, and is never inside, a callback that was released.
THEOREM NeverUseAfterFree == Spec => []NoUseAfterFree
<1>1. IInv => NoUseAfterFree
  BY DEF IInv, Owned, NoUseAfterFree
<1> QED
  BY <1>1, Inductive, PTL

-----------------------------------------------------------------------------
(* Promise jobs *)

\* Scheduling a task, or running another one, leaves y in the queue.
LEMMA QueueKeeps ==
  ASSUME NEW S, NEW q \in Seq(S), NEW x \in S, NEW y \in S
  PROVE  /\ Queued(Append(q, x), x)
         /\ Queued(q, y) => Queued(Append(q, x), y)
         /\ q # <<>> /\ Head(q) # y /\ Queued(q, y) => Queued(Tail(q), y)
<1>1. /\ DOMAIN Append(q, x) = DOMAIN q \cup {Len(q) + 1}
      /\ \A i \in DOMAIN q : Append(q, x)[i] = q[i]
      /\ Append(q, x)[Len(q) + 1] = x
  OBVIOUS
<1>2. ASSUME q # <<>>, Head(q) # y, Queued(q, y)
      PROVE  Queued(Tail(q), y)
  <2>1. PICK i \in DOMAIN q : q[i] = y
    BY <1>2 DEF Queued
  <2>2. i # 1 /\ i \in 1 .. Len(q)
    BY <1>2, <2>1
  <2>3. i - 1 \in DOMAIN Tail(q) /\ Tail(q)[i - 1] = q[i]
    BY <1>2, <2>2
  <2> QED
    BY <2>1, <2>3 DEF Queued
<1> QED
  BY <1>1, <1>2 DEF Queued

\* Interval.clear never takes the job loop out of the queue, and a one-shot
\* timer that ends with it schedules the loop.
LEMMA ClearPumps ==
  ASSUME IInv,
         NEW ts, NEW id, NEW after \in {<<>>, <<Pump>>},
         Clear(ts, id, after)
  PROVE  /\ Queued(futures, Pump) => Queued(futures', Pump)
         /\ after = <<Pump>> => Queued(futures', Pump)
<1> DEFINE S == Timer \cup {Pump}
<1>1. futures \in Seq(S) /\ Pump \in S
  BY DEF IInv, TypeOK
<1>2. PICK q \in Seq(S) : /\ Queued(futures, Pump) => Queued(q, Pump)
                          /\ futures' = q \o after
  <2>1. CASE futures' = futures \o after
    BY <1>1, <2>1
  <2>2. ASSUME NEW c \in Lookup(ts, id), futures' = Append(futures, c) \o after
        PROVE  \E q \in Seq(S) : /\ Queued(futures, Pump) => Queued(q, Pump)
                                 /\ futures' = q \o after
    <3>1. c \in S
      BY <2>2 DEF Lookup, IInv, TypeOK
    <3>2. /\ Append(futures, c) \in Seq(S)
          /\ Queued(futures, Pump) => Queued(Append(futures, c), Pump)
      BY <1>1, <3>1, QueueKeeps
    <3> QED
      BY <2>2, <3>2
  <2> QED
    BY <2>1, <2>2 DEF Clear
<1>3. CASE after = <<>>
  BY <1>2, <1>3
<1>4. CASE after = <<Pump>>
  <2>1. futures' = Append(q, Pump)
    BY <1>1, <1>2, <1>4, QueueConcat
  <2> QED
    BY <1>1, <2>1, QueueKeeps
<1> QED
  BY <1>3, <1>4

\* Every step but the return from Bridge.invoke and an exception leaves jobs
\* with the loop scheduled, unless they were stranded before it.
LEMMA NextPumped ==
  ASSUME IInv, [Next]_vars, frame # "invoke", ~ScriptThrow, ~JobThrow, ~Stranded
  PROVE  ~Stranded'
<1> USE DEF Stranded, timerVars, jobVars, stackVars
<1> DEFINE S == Timer \cup {Pump}
<1>0. futures \in Seq(S) /\ Pump \in S /\ Pump \notin Timer /\ jobs \in Nat
  BY TimerAssumption DEF IInv, TypeOK
<1>1. Queued(Append(futures, Pump), Pump)
  BY <1>0, QueueKeeps
<1>2. CASE futures' = Append(futures, Pump)
  BY <1>1, <1>2
<1>3. CASE UNCHANGED <<frame, futures, jobs>>
  BY <1>3
<1>4. CASE frame' # "idle" \/ jobs' = 0
  BY <1>4
<1>5. ASSUME NEW t \in Timer, Fire(t) PROVE ~Stranded'
  BY <1>4, <1>5 DEF Fire
<1>6. CASE HostCall
  BY <1>4, <1>6 DEF HostCall, Scripting, CreateTimeout, CreateInterval, ClearHandle, ClearNumber,
                    EnqueueJob, MisuseHost
<1>7. ASSUME NEW t \in Timeouts, TimeoutReturn(t) PROVE ~Stranded'
  <2>1. PICK id : id = key[t]
    OBVIOUS
  <2>2. Clear(Timeouts, id, <<Pump>>)
    BY <1>7, <2>1 DEF TimeoutReturn
  <2> QED
    BY <2>2, ClearPumps
<1>8. CASE RunPump
  BY <1>0, <1>4, <1>8 DEF RunPump, NextJob
<1>9. CASE JobReturn
  BY <1>0, <1>4, <1>9 DEF JobReturn, NextJob
<1>10. ASSUME NEW t \in Timer, RunFree(t) PROVE ~Stranded'
  <2>1. futures # <<>> /\ Head(futures) # Pump /\ futures' = Tail(futures)
    BY <1>0, <1>10 DEF RunFree
  <2>2. Queued(futures, Pump) => Queued(futures', Pump)
    BY <1>0, <2>1, QueueKeeps
  <2> QED
    BY <1>10, <2>2 DEF RunFree
<1>11. CASE Evaluate \/ Invoke
  BY <1>4, <1>11 DEF Evaluate, Invoke
<1>12. CASE SettlePromise \/ EvaluateReturn
  BY <1>2, <1>12 DEF SettlePromise, EvaluateReturn
<1>13. ASSUME NEW t \in Intervals, IntervalReturn(t) PROVE ~Stranded'
  BY <1>2, <1>13 DEF IntervalReturn
<1>14. CASE UNCHANGED vars
  BY <1>3, <1>14 DEF vars
<1>15. ~InvokeReturn
  BY DEF InvokeReturn
<1> QED
  BY <1>5, <1>6, <1>7, <1>8, <1>9, <1>10, <1>11, <1>12, <1>13, <1>14, <1>15
     DEF Next, ScriptReturn, RunFuture

\* Only a function called by Bridge.invoke, or an exception, strands jobs: for
\* any number of timers and jobs and for every script, whatever else ran last
\* (evaluateJavaScript, a timer, a JSPromise settled by the host, the job loop)
\* has scheduled the loop for the jobs there are.
THEOREM OnlyInvokeStrands == Spec => JobsPumped
<1>1. IInv /\ [Next]_vars =>
        [Stranded' => Stranded \/ frame = "invoke" \/ ScriptThrow \/ JobThrow]_vars
  BY NextPumped
<1> QED
  BY <1>1, Inductive, PTL DEF Spec, JobsPumped

-----------------------------------------------------------------------------
(* Who cancels a timer *)

\* Keys are unique among timeouts because the clock reading of a new timeout
\* is past all earlier ones; 0 is nobody's key; and the timeout whose callback
\* runs is over already, so the clear it ends with cancels nothing.
OwnKeys ==
  /\ \A t \in Timer : key[t] = 0 => state[t] = "none" /\ t \notin clocks
  /\ \A t \in Timeouts : key[t] <= now
  /\ \A t, u \in Timeouts : key[t] = key[u] /\ key[t] # 0 => t = u
  /\ \A t \in Timeouts : running = t => state[t] = "fired"
  /\ OnlyScriptCancels

\* Interval.clear stops the timer filed under the id and no other.
LEMMA ClearTarget ==
  ASSUME IInv, NEW ts, NEW id, NEW after, Clear(ts, id, after)
  PROVE  /\ clocks' \subseteq clocks
         /\ \A t \in Timer :
              \/ state'[t] = state[t]
              \/ t \in Lookup(ts, id) /\ state[t] = "active" /\ state'[t] = "cancelled"
BY DEF Clear, IInv, TypeOK, Lookup

\* A step that takes no new timer and stops none but those in `hit`.
LEMMA OwnKeysStep ==
  ASSUME IInv, OwnKeys, NEW hit,
         UNCHANGED <<key, now>>,
         clocks' \subseteq clocks,
         asked \cup hit \subseteq asked',
         \A t \in Timer : \/ state'[t] = state[t]
                          \/ /\ t \in hit
                             /\ state[t] = "active"
                             /\ state'[t] = "cancelled",
         running' \in {running, None}
  PROVE  OwnKeys'
<1> USE DEF OwnKeys, IInv, TypeOK
<1>1. Timeouts \subseteq Timer /\ None \notin Timer
  BY TimerAssumption DEF Timer
<1>2. \A t \in Timer : key'[t] = 0 => state'[t] = "none" /\ t \notin clocks'
  OBVIOUS
<1>3. \A t \in Timeouts : running' = t => state'[t] = "fired"
  BY <1>1
<1>4. OnlyScriptCancels'
  BY DEF OnlyScriptCancels
<1> QED
  BY <1>2, <1>3, <1>4

\* A new timer with a key of its own.
LEMMA OwnKeysCreate ==
  ASSUME IInv, OwnKeys, NEW t \in Timer, state[t] = "none",
         NEW k \in Nat \ {0},
         key' = [key EXCEPT ![t] = k],
         clocks' \subseteq clocks \cup {t},
         state' = [state EXCEPT ![t] = "active"],
         t \in Timeouts => k = now + 1 /\ now' = k,
         t \notin Timeouts => now' = now,
         UNCHANGED asked,
         UNCHANGED running
  PROVE  OwnKeys'
<1> USE DEF OwnKeys, IInv, TypeOK
<1>1. Timeouts \subseteq Timer /\ None \notin Timer
  BY TimerAssumption DEF Timer
<1>2. /\ key'[t] = k /\ state'[t] = "active"
      /\ \A u \in Timer : u # t => key'[u] = key[u] /\ state'[u] = state[u]
  OBVIOUS
<1>3. \A u \in Timer : key'[u] = 0 => state'[u] = "none" /\ u \notin clocks'
  BY <1>2
<1>4. \A u \in Timeouts : key[u] \in Nat /\ key[u] <= now /\ now \in Nat
  BY <1>1
<1>5. \A u \in Timeouts : key'[u] <= now'
  BY <1>1, <1>2, <1>4
<1>6. \A u, w \in Timeouts : key'[u] = key'[w] /\ key'[u] # 0 => u = w
  BY <1>1, <1>2, <1>4
<1>7. \A u \in Timeouts : running' = u => state'[u] = "fired"
  BY <1>1, <1>2
<1>8. OnlyScriptCancels'
  BY <1>2 DEF OnlyScriptCancels
<1> QED
  BY <1>3, <1>5, <1>6, <1>7, <1>8

\* No host call, script or future cancels a timer behind the script's back.
LEMMA NextOwnKeys ==
  ASSUME UniqueKeys, IInv, OwnKeys, [Next]_vars
  PROVE  OwnKeys'
<1> USE DEF timerVars, jobVars, stackVars
<1>0. /\ Timeouts \subseteq Timer /\ Intervals \subseteq Timer /\ None \notin Timer
      /\ Timeouts \cap Intervals = {}
      /\ now \in Nat /\ key \in [Timer -> Nat] /\ clocks \subseteq Timer
  BY TimerAssumption DEF Timer, IInv, TypeOK
<1>1. CASE UNCHANGED timerVars /\ running' \in {running, None}
  <2>1. asked \cup {} \subseteq asked'
    BY <1>1
  <2> QED
    BY <1>1, <2>1, OwnKeysStep
<1>2. ASSUME NEW t \in Timer, Fire(t) PROVE OwnKeys'
  <2>1. /\ state[t] = "active" /\ running' = t
        /\ state'[t] = IF t \in Timeouts THEN "fired" ELSE state[t]
        /\ \A u \in Timer : u # t => state'[u] = state[u]
        /\ UNCHANGED <<key, clocks, now, asked>>
    BY <1>2 DEF Fire, IInv, TypeOK
  <2>2. OnlyScriptCancels'
    BY <2>1 DEF OwnKeys, OnlyScriptCancels
  <2> QED
    BY <1>0, <2>1, <2>2 DEF OwnKeys
<1>3. ASSUME NEW t \in Timeouts, CreateTimeout(t) PROVE OwnKeys'
  <2>1. /\ now' = now + 1
        /\ key' = [key EXCEPT ![t] = now + 1]
        /\ clocks' = File(t, now + 1)
    BY <1>3 DEF CreateTimeout
  <2>2. clocks' \subseteq clocks \cup {t} /\ now + 1 \in Nat \ {0} /\ t \in Timer
    BY <1>0, <2>1 DEF File
  <2> QED
    BY <1>3, <2>1, <2>2, OwnKeysCreate DEF CreateTimeout
<1>4. ASSUME NEW t \in Intervals, CreateInterval(t) PROVE OwnKeys'
  <2>1. PICK k \in Hashes :
          /\ key' = [key EXCEPT ![t] = k]
          /\ clocks' = File(t, k)
    BY <1>4 DEF CreateInterval
  <2>2. /\ clocks' \subseteq clocks \cup {t}
        /\ k \in Nat \ {0} /\ t \in Timer /\ t \notin Timeouts
    BY <1>0, <2>1, ValueAssumption DEF File
  <2> QED
    BY <1>4, <2>1, <2>2, OwnKeysCreate DEF CreateInterval
<1>5. ASSUME NEW t \in Timer, ClearHandle(t) PROVE OwnKeys'
  <2>1. ParseDuration(ChannelReply(key[t])) = 0
    BY DEF ParseDuration, ChannelReply
  <2>2. Clear(Plugin(t), 0, <<>>)
    BY <1>5, <2>1 DEF ClearHandle
  <2>3. Lookup(Plugin(t), 0) = {}
    BY <1>0 DEF Lookup, OwnKeys
  <2>4. clocks' \subseteq clocks /\ \A u \in Timer : state'[u] = state[u]
    BY <2>2, <2>3, ClearTarget
  <2>5. asked \cup {} \subseteq asked'
    BY <1>5 DEF ClearHandle
  <2> QED
    BY <1>5, <2>4, <2>5, OwnKeysStep DEF ClearHandle
<1>6. ASSUME NEW t \in Timer, ClearNumber(t) PROVE OwnKeys'
  <2>1. ParseDuration(key[t]) = key[t]
    BY <1>0, ValueAssumption DEF ParseDuration
  <2>2. Clear(Plugin(t), key[t], <<>>)
    BY <1>6, <2>1 DEF ClearNumber
  <2> DEFINE hit == {u \in Plugin(t) : key[u] = key[t]}
  <2>3. Lookup(Plugin(t), key[t]) \subseteq hit
    BY DEF Lookup
  <2>4. /\ clocks' \subseteq clocks
        /\ \A u \in Timer : \/ state'[u] = state[u]
                            \/ u \in hit /\ state[u] = "active" /\ state'[u] = "cancelled"
    BY <2>2, <2>3, ClearTarget
  <2>5. asked \cup hit \subseteq asked'
    BY <1>6 DEF ClearNumber
  <2> HIDE DEF hit
  <2> QED
    BY <1>6, <2>4, <2>5, OwnKeysStep DEF ClearNumber
<1>7. ASSUME NEW t \in Timeouts, TimeoutReturn(t) PROVE OwnKeys'
  <2>1. /\ Clear(Timeouts, key[t], <<Pump>>)
        /\ running = t /\ running' = None
        /\ UNCHANGED <<key, now, asked>>
    BY <1>7 DEF TimeoutReturn
  <2>2. state[t] = "fired" /\ key[t] # 0
    BY <1>0, <2>1 DEF OwnKeys
  <2>3. \A u \in Lookup(Timeouts, key[t]) : u = t
    BY <2>2 DEF Lookup, OwnKeys
  <2>4. clocks' \subseteq clocks /\ \A u \in Timer : state'[u] = state[u]
    BY <2>1, <2>2, <2>3, ClearTarget
  <2>5. asked \cup {} \subseteq asked'
    BY <2>1
  <2> QED
    BY <2>1, <2>4, <2>5, OwnKeysStep
<1>8. ASSUME NEW t \in Intervals, IntervalReturn(t) PROVE OwnKeys'
  BY <1>1, <1>8 DEF IntervalReturn
<1>9. ASSUME NEW t \in Timer, RunFree(t) PROVE OwnKeys'
  <2>1. asked \cup {} \subseteq asked'
    BY <1>9 DEF RunFree
  <2> QED
    BY <1>9, <2>1, OwnKeysStep DEF RunFree
<1>10. CASE \/ Evaluate \/ Invoke \/ SettlePromise \/ EnqueueJob \/ MisuseHost
            \/ EvaluateReturn \/ InvokeReturn \/ JobReturn
            \/ ScriptThrow \/ RunPump \/ JobThrow
  BY <1>1, <1>10 DEF Evaluate, Invoke, SettlePromise, EnqueueJob, MisuseHost,
     EvaluateReturn, InvokeReturn, JobReturn, ScriptThrow, RunPump, JobThrow
<1>11. CASE UNCHANGED vars
  BY <1>1, <1>11 DEF vars
<1> QED
  BY <1>2, <1>3, <1>4, <1>5, <1>6, <1>7, <1>8, <1>9, <1>10, <1>11
     DEF Next, HostCall, ScriptReturn, RunFuture

\* If no two timers of a plugin get the same key, a timer is cancelled only
\* when the script asked for it, also with scripts that throw, clear by any
\* number, or clear a timer from its own callback.
THEOREM NeverCancelledUnasked ==
  ASSUME UniqueKeys
  PROVE  Spec => []OnlyScriptCancels
<1>1. Init => OwnKeys
  BY TimerAssumption DEF Init, OwnKeys, OnlyScriptCancels, Timer
<1>2. IInv /\ OwnKeys /\ [Next]_vars => OwnKeys'
  BY NextOwnKeys
<1>3. OwnKeys => OnlyScriptCancels
  BY DEF OwnKeys
<1> QED
  BY <1>1, <1>2, <1>3, Inductive, PTL DEF Spec

-----------------------------------------------------------------------------
(* What a timer owns is given back *)

\* NoLeak is not inductive: a reference that is owned is found again through
\* clocks or through the release that is queued for it, and a timer stays in
\* clocks only while it may fire, or while the callback runs whose closure
\* will clear it.
Traced(t) ==
  /\ held[t] # 0 => t \in clocks \/ Queued(futures, t)
  /\ t \in clocks => state[t] = "active" \/ (t \in Timeouts /\ running = t)

\* Interval.clear moves a reference from clocks to the queue, and loses none.
LEMMA ClearTraces ==
  ASSUME IInv, NEW ts, NEW id, NEW after \in {<<>>, <<Pump>>}, Clear(ts, id, after),
         NEW t \in Timer, held[t] # 0 => t \in clocks \/ Queued(futures, t)
  PROVE  /\ held[t] # 0 => t \in clocks' \/ Queued(futures', t)
         /\ t \in clocks' => t \in clocks /\ state'[t] = state[t]
         /\ Lookup(ts, id) = {t} => t \notin clocks'
<1> DEFINE S == Timer \cup {Pump}
<1>1. futures \in Seq(S) /\ Pump \in S /\ t \in S
  BY DEF IInv, TypeOK
<1>2. ASSUME NEW q \in Seq(S), futures' = q \o after, Queued(q, t)
      PROVE  Queued(futures', t)
  <2>1. futures' = q \/ futures' = Append(q, Pump)
    BY <1>1, <1>2, QueueConcat
  <2>2. Queued(Append(q, Pump), t)
    BY <1>1, <1>2, QueueKeeps
  <2> QED
    BY <1>2, <2>1, <2>2
<1>3. CASE Lookup(ts, id) = {} /\ futures' = futures \o after /\ UNCHANGED <<state, clocks>>
  BY <1>1, <1>2, <1>3
<1>4. ASSUME NEW c \in Lookup(ts, id),
             state' = [state EXCEPT ![c] = IF @ = "active" THEN "cancelled" ELSE @],
             futures' = Append(futures, c) \o after,
             clocks' = clocks \ {c}
      PROVE  /\ held[t] # 0 => t \in clocks' \/ Queued(futures', t)
             /\ t \in clocks' => t \in clocks /\ state'[t] = state[t]
             /\ Lookup(ts, id) = {t} => t \notin clocks'
  <2>1. c \in S
    BY <1>4 DEF Lookup, IInv, TypeOK
  <2>2. /\ Append(futures, c) \in Seq(S)
        /\ Queued(Append(futures, c), c)
        /\ Queued(futures, t) => Queued(Append(futures, c), t)
    BY <1>1, <2>1, QueueKeeps
  <2>3. Queued(futures, t) \/ t = c => Queued(futures', t)
    BY <1>2, <1>4, <2>2
  <2>4. t \in clocks' => t \in clocks /\ state'[t] = state[t]
    BY <1>4 DEF IInv, TypeOK
  <2>5. Lookup(ts, id) = {t} => t \notin clocks'
    BY <1>4
  <2> QED
    BY <1>4, <2>3, <2>4, <2>5
<1> QED
  BY <1>3, <1>4 DEF Clear

\* A new timer that replaces none in clocks is traced, and the others are.
LEMMA CreateTraces ==
  ASSUME IInv, NEW t \in Timer, NEW k,
         Lookup(Plugin(t), k) = {},
         clocks' = File(t, k),
         held' = [held EXCEPT ![t] = @ + 1],
         state' = [state EXCEPT ![t] = "active"],
         UNCHANGED <<futures, running>>,
         NEW u \in Timer, Traced(u)
  PROVE  Traced(u)'
<1>1. clocks' = clocks \cup {t}
  BY DEF File
<1> QED
  BY <1>1 DEF Traced, IInv, TypeOK

\* No host call, script, timer or future loses track of a reference.
LEMMA NextTraced ==
  ASSUME UniqueKeys, ~Faults, IInv, OwnKeys, [Next]_vars,
         \A t \in Timer : Traced(t)
  PROVE  \A t \in Timer : Traced(t)'
<1> SUFFICES ASSUME NEW u \in Timer PROVE Traced(u)'
  OBVIOUS
<1> USE DEF timerVars, jobVars, stackVars
<1> DEFINE S == Timer \cup {Pump}
<1>0. /\ Timeouts \subseteq Timer /\ Intervals \subseteq Timer /\ None \notin Timer
      /\ Timeouts \cap Intervals = {} /\ Pump \notin Timer
      /\ now \in Nat /\ key \in [Timer -> Nat] /\ clocks \subseteq Timer
      /\ futures \in Seq(S) /\ Pump \in S /\ u \in S
      /\ frame # "timer" => running = None
      /\ Traced(u)
  BY TimerAssumption DEF Timer, IInv, TypeOK
<1>1. Queued(futures, u) => Queued(Append(futures, Pump), u)
  BY <1>0, QueueKeeps
<1>2. CASE /\ UNCHANGED timerVars
           /\ futures' \in {futures, Append(futures, Pump)}
           /\ u \in Timeouts => running' = running \/ running = None
  BY <1>0, <1>1, <1>2 DEF Traced
<1>3. ASSUME NEW t \in Timer, Fire(t) PROVE Traced(u)'
  <2>1. running = None /\ running' = t /\ UNCHANGED <<clocks, held, futures>>
    BY <1>0, <1>3 DEF Fire, Ready
  <2>2. state'[u] = state[u] \/ (u \in Timeouts /\ u = t)
    BY <1>3 DEF Fire, IInv, TypeOK
  <2> QED
    BY <1>0, <2>1, <2>2 DEF Traced
<1>4. ASSUME NEW t \in Timeouts, CreateTimeout(t) PROVE Traced(u)'
  <2>1. t \in Timer /\ clocks' = File(t, now + 1)
    BY <1>0, <1>4 DEF CreateTimeout
  <2>2. \A c \in Timeouts : key[c] \in Nat /\ key[c] <= now
    BY <1>0 DEF OwnKeys
  <2>3. Lookup(Plugin(t), now + 1) = {}
    BY <1>0, <2>2 DEF Lookup, Plugin
  <2> QED
    BY <1>0, <1>4, <2>1, <2>3, CreateTraces DEF CreateTimeout
<1>5. ASSUME NEW t \in Intervals, CreateInterval(t) PROVE Traced(u)'
  <2>1. PICK k \in Hashes : clocks' = File(t, k) /\ \A c \in Intervals : key[c] # k
    BY <1>5 DEF CreateInterval
  <2>2. Lookup(Plugin(t), k) = {} /\ t \in Timer
    BY <1>0, <2>1 DEF Lookup, Plugin
  <2> QED
    BY <1>0, <1>5, <2>1, <2>2, CreateTraces DEF CreateInterval
<1>6. ASSUME NEW t \in Timer, ClearHandle(t) PROVE Traced(u)'
  <2>1. PICK id : id = ParseDuration(ChannelReply(key[t]))
    OBVIOUS
  <2>2. Clear(Plugin(t), id, <<>>) /\ UNCHANGED <<held, running>>
    BY <1>6, <2>1 DEF ClearHandle
  <2> QED
    BY <1>0, <2>2, ClearTraces DEF Traced
<1>7. ASSUME NEW t \in Timer, ClearNumber(t) PROVE Traced(u)'
  <2>1. PICK id : id = ParseDuration(key[t])
    OBVIOUS
  <2>2. Clear(Plugin(t), id, <<>>) /\ UNCHANGED <<held, running>>
    BY <1>7, <2>1 DEF ClearNumber
  <2> QED
    BY <1>0, <2>2, ClearTraces DEF Traced
<1>8. ASSUME NEW t \in Timeouts, TimeoutReturn(t) PROVE Traced(u)'
  <2>1. PICK id : id = key[t]
    OBVIOUS
  <2>2. /\ Clear(Timeouts, id, <<Pump>>)
        /\ running = t /\ running' = None /\ UNCHANGED held
    BY <1>8, <2>1 DEF TimeoutReturn
  <2>3. /\ held[u] # 0 => u \in clocks' \/ Queued(futures', u)
        /\ u \in clocks' => u \in clocks /\ state'[u] = state[u]
        /\ Lookup(Timeouts, id) = {u} => u \notin clocks'
    BY <1>0, <2>2, ClearTraces DEF Traced
  <2>4. t \in clocks => Lookup(Timeouts, id) = {t}
    BY <1>0, <2>1 DEF Lookup, OwnKeys
  <2> QED
    BY <1>0, <2>2, <2>3, <2>4 DEF Traced
<1>9. ASSUME NEW t \in Intervals, IntervalReturn(t) PROVE Traced(u)'
  <2>1. UNCHANGED timerVars /\ futures' = Append(futures, Pump) /\ running = t
    BY <1>9 DEF IntervalReturn
  <2> QED
    BY <1>0, <1>1, <2>1 DEF Traced
<1>10. ASSUME NEW t \in Timer, RunFree(t) PROVE Traced(u)'
  <2>1. /\ frame = "idle" /\ futures # <<>> /\ Head(futures) = t
        /\ futures' = Tail(futures)
        /\ held' = [held EXCEPT ![t] = @ - 1]
        /\ UNCHANGED <<state, clocks, running>>
    BY <1>10 DEF RunFree
  <2>2. CASE u = t
    <3>1. Queued(futures, t)
      BY <1>0, <2>1, <2>2, QueueTail
    <3>2. held[t] = 1 /\ held'[t] = 0
      BY <2>1, <3>1 DEF IInv, Owned, TypeOK
    <3> QED
      BY <1>0, <2>1, <2>2, <3>2 DEF Traced
  <2>3. CASE u # t
    <3>1. held'[u] = held[u]
      BY <2>1, <2>3 DEF IInv, TypeOK
    <3>2. Queued(futures, u) => Queued(futures', u)
      BY <1>0, <2>1, <2>3, QueueKeeps
    <3> QED
      BY <1>0, <2>1, <3>1, <3>2 DEF Traced
  <2> QED
    BY <2>2, <2>3
<1>11. CASE RunPump
  <2>1. Queued(futures, u) => Queued(futures', u)
    BY <1>0, <1>11, QueueKeeps DEF RunPump
  <2> QED
    BY <1>0, <1>11, <2>1 DEF RunPump, Traced
<1>12. CASE Evaluate \/ Invoke \/ SettlePromise \/ EnqueueJob \/ EvaluateReturn
            \/ InvokeReturn \/ JobReturn
  BY <1>2, <1>12 DEF Evaluate, Invoke, SettlePromise, EnqueueJob, EvaluateReturn,
     InvokeReturn, JobReturn
<1>13. CASE UNCHANGED vars
  BY <1>2, <1>13 DEF vars
<1>14. ~MisuseHost /\ ~ScriptThrow /\ ~JobThrow
  BY DEF MisuseHost, ScriptThrow, JobThrow
<1> QED
  BY <1>3, <1>4, <1>5, <1>6, <1>7, <1>8, <1>9, <1>10, <1>11, <1>12, <1>13, <1>14
     DEF Next, HostCall, ScriptReturn, RunFuture

\* Whatever the script creates and clears, in any order, what createTimer
\* duplicated is given back by the time the isolate is at rest, unless the
\* timer may still fire: if no two timers of a plugin share a key and scripts
\* do not throw.
THEOREM NothingLeaks ==
  ASSUME UniqueKeys, ~Faults
  PROVE  Spec => []NoLeak
<1> DEFINE AllTraced == \A t \in Timer : Traced(t)
<1>1. Init => OwnKeys /\ AllTraced
  BY TimerAssumption DEF Init, OwnKeys, OnlyScriptCancels, Timer, Traced
<1>2. IInv /\ OwnKeys /\ AllTraced /\ [Next]_vars => OwnKeys' /\ AllTraced'
  BY NextOwnKeys, NextTraced
<1>3. IInv /\ AllTraced => NoLeak
  BY TimerAssumption DEF IInv, TypeOK, Traced, Queued, NoLeak
<1> QED
  BY <1>1, <1>2, <1>3, Inductive, PTL DEF Spec

=============================================================================
