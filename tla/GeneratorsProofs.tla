-------------------------- MODULE GeneratorsProofs --------------------------
(***************************************************************************)
(* Proofs about Promises and Generators, for any number of promises,       *)
(* reactions, jobs and requests.                                           *)
(***************************************************************************)
EXTENDS Generators, TLAPS, FiniteSetTheorems

-----------------------------------------------------------------------------
(* Lists *)

\* A list with one element replaced.
LEMMA SeqExcept ==
  ASSUME NEW S, NEW l \in Seq(S), NEW i \in 1 .. Len(l), NEW x \in S,
         NEW d, d = [l EXCEPT ![i] = x]
  PROVE  /\ d \in Seq(S) /\ Len(d) = Len(l) /\ d[i] = x
         /\ \A j \in 1 .. Len(l) : j # i => d[j] = l[j]
OBVIOUS

\* A list with one element more.
LEMMA SeqAppend ==
  ASSUME NEW S, NEW l \in Seq(S), NEW x \in S, NEW d, d = Append(l, x)
  PROVE  /\ d \in Seq(S) /\ Len(d) = Len(l) + 1 /\ d[Len(l) + 1] = x
         /\ \A j \in 1 .. Len(l) : d[j] = l[j]
OBVIOUS

\* A list without its first element.
LEMMA SeqTail ==
  ASSUME NEW S, NEW l \in Seq(S), l # <<>>, NEW d, d = Tail(l)
  PROVE  /\ d \in Seq(S) /\ Len(d) = Len(l) - 1 /\ Len(l) > 0 /\ l[1] = Head(l) /\ l[1] \in S
         /\ \A j \in 1 .. Len(l) - 1 : d[j] = l[j + 1]
OBVIOUS

\* Two lists.
LEMMA SeqConcat ==
  ASSUME NEW S, NEW l \in Seq(S), NEW m \in Seq(S), NEW d, d = l \o m
  PROVE  /\ d \in Seq(S) /\ Len(d) = Len(l) + Len(m)
         /\ \A j \in 1 .. Len(l) : d[j] = l[j]
         /\ \A j \in 1 .. Len(m) : d[Len(l) + j] = m[j]
OBVIOUS

-----------------------------------------------------------------------------
(* The state of the engine *)

AnyValue   == Plain \cup {Thenable, Trap, None} \cup Nat
AnyOutcome == [reject : BOOLEAN, value : AnyValue]
AnyOf      == Nat \cup {None, "await", "return"} \cup (Nat \X Nat) \cup AnyOutcome
Kinds      == {"undefined", "script", "finally", "thunk", "resolve", "reject", "element",
               "resume", "generator"}
AnyHandler == [kind : Kinds, of : AnyOf]
AnyReaction == [on : Nat, n : Nat, cap : Nat \cup {None}, handler : AnyHandler]
AnyPromise == [outcome : AnyOutcome, reactions : [BOOLEAN -> Seq(AnyReaction)],
               thens : Nat, mirrors : Nat \cup {None}]
AnyPair    == [promise : Nat, resolved : BOOLEAN]
ReactionJobs == [type : {"reaction"}, reaction : AnyReaction, outcome : AnyOutcome]
ThenableJobs == [type : {"thenable"}, promise : Nat, thenable : Nat \cup {Thenable}]
Jobs       == ReactionJobs \cup ThenableJobs
AnyAsync   == [pair : Nat, active : BOOLEAN]
AnyGroup   == [magic : Combinators, items : Seq(Nat), pair : Nat, called : SUBSET (Nat \X BOOLEAN),
               values : Seq(AnyOutcome), remaining : Int, next : Nat \ {0}, open : BOOLEAN]
AnyEngine  == [promises : Seq(AnyPromise), pairs : Seq(AnyPair), jobs : Seq(Jobs),
               asyncs : Seq(AnyAsync), groups : Seq(AnyGroup)]

\* What there is of each kind.
Pr(s) == 1 .. Len(s.promises)
Pa(s) == 1 .. Len(s.pairs)
As(s) == 1 .. Len(s.asyncs)
Gr(s) == 1 .. Len(s.groups)

\* A promise is settled with a value that is there.
OkOutcome(s, o) ==
  o \in AnyOutcome /\ o.value # None /\ (o.value \in Nat => o.value \in Pr(s))

OkHandler(s, h) ==
  /\ h \in AnyHandler
  /\ h.kind \in {"resolve", "reject"} => h.of \in Pa(s)
  /\ h.kind = "element" => h.of \in Nat \X Nat /\ h.of[1] \in Gr(s)
  /\ h.kind = "thunk" => OkOutcome(s, h.of)
  /\ h.kind = "resume" => h.of \in As(s)

OkReaction(s, r) ==
  r \in AnyReaction /\ OkHandler(s, r.handler) /\ (r.cap = None \/ r.cap \in Pa(s))

OkJob(s, j) ==
  \/ j \in ReactionJobs /\ OkReaction(s, j.reaction) /\ OkOutcome(s, j.outcome)
  \/ j \in ThenableJobs /\ j.promise \in Pr(s) /\ (j.thenable = Thenable \/ j.thenable \in Pr(s))

\* Every reference is to something that is there.
OkPairs(s)  == \A r \in Pa(s) : s.pairs[r].promise \in Pr(s)
OkPromises(s) ==
  \A p \in Pr(s) : 
    /\ s.promises[p].outcome = Pending \/ OkOutcome(s, s.promises[p].outcome)
    /\ \A b \in BOOLEAN : \A i \in 1 .. Len(s.promises[p].reactions[b]) :
         OkReaction(s, s.promises[p].reactions[b][i])
OkJobs(s)   == \A i \in 1 .. Len(s.jobs) : OkJob(s, s.jobs[i])
OkAsyncs(s) == \A a \in As(s) : s.asyncs[a].pair \in Pa(s)
OkGroups(s) ==
  \A g \in Gr(s) :
    /\ s.groups[g].pair \in Pa(s)
    /\ \A i \in 1 .. Len(s.groups[g].items) : s.groups[g].items[i] \in Pr(s)

\* The handlers that resume an async function or the generator: they are in
\* both lists of a promise or in none.
IsWaker(h) == h.kind \in {"resume", "generator"}
Twins(f, r) ==
  /\ Len(f) = Len(r)
  /\ \A i \in 1 .. Len(f) :
       IsWaker(f[i].handler) \/ IsWaker(r[i].handler) => f[i].handler = r[i].handler
OkTwins(s) == \A p \in Pr(s) : Twins(s.promises[p].reactions[FALSE], s.promises[p].reactions[TRUE])

-----------------------------------------------------------------------------
(* Who may do what *)

\* Exactly one of the places in X and Y.
Single(X, Y) ==
  \/ \E x : X = {x} /\ Y = {}
  \/ \E y : X = {} /\ Y = {y}

\* The jobs of a list with handler h, or for promise p.
Cls(j) == IF j.type = "reaction" THEN <<"reaction", j.reaction.handler>> ELSE <<"thenable", j.promise>>
In(l, c) == {i \in 1 .. Len(l) : Cls(l[i]) = c}

\* The pairs that can settle p.
Open(s, p) == {r \in Pa(s) : s.pairs[r].promise = p /\ ~s.pairs[r].resolved}

Sole(s) ==
  \A p \in Pr(s) :
    /\ s.promises[p].outcome = Pending => Single(Open(s, p), In(s.jobs, <<"thenable", p>>))
    /\ s.promises[p].outcome # Pending => Open(s, p) = {} /\ In(s.jobs, <<"thenable", p>>) = {}

Good(s) ==
  /\ s \in AnyEngine
  /\ OkPairs(s) /\ OkPromises(s) /\ OkJobs(s) /\ OkAsyncs(s) /\ OkGroups(s)
  /\ OkTwins(s)
  /\ Sole(s)

\* The places of the reactions with handler h.
Waits(s, h) ==
  {x \in Pr(s) \X Nat : x[2] \in 1 .. Len(s.promises[x[1]].reactions[FALSE])
                         /\ s.promises[x[1]].reactions[FALSE][x[2]].handler = h}
Due(s, h) == In(s.jobs, <<"reaction", h>>)

Never(s, h) == Waits(s, h) = {} /\ Due(s, h) = {}
Once(s, h)  == Single(Waits(s, h), Due(s, h))

\* As often as before.
Keeps(s, t, h) == (Never(s, h) => Never(t, h)) /\ (Once(s, h) => Once(t, h))

\* More promises, pairs and groups, and the same async functions.
Grows(s, t) ==
  /\ Len(s.promises) <= Len(t.promises) /\ Len(s.pairs) <= Len(t.pairs)
  /\ Len(s.groups) <= Len(t.groups) /\ t.asyncs = s.asyncs
Quiet(s, t) == Grows(s, t) /\ \A h \in AnyHandler : IsWaker(h) => Keeps(s, t, h)

-----------------------------------------------------------------------------
(* Lists of jobs *)

\* The classes of jobs are told apart by their parts.
LEMMA ClsDiffer ==
  /\ \A x, y : <<"reaction", x>> # <<"thenable", y>>
  /\ \A x, y : <<"reaction", x>> = <<"reaction", y>> <=> x = y
  /\ \A x, y : <<"thenable", x>> = <<"thenable", y>> <=> x = y
OBVIOUS

\* A list of jobs, and d, the list after it was changed.
Added(l, j, d)  == l \in Seq(Jobs) /\ j \in Jobs /\ d = Append(l, j)
Taken(l, d)     == l \in Seq(Jobs) /\ l # <<>> /\ d = Tail(l)
Joined(l, m, d) == l \in Seq(Jobs) /\ m \in Seq(Jobs) /\ d = l \o m

\* JS_EnqueueJob adds one place, to one class of jobs.
LEMMA InAppend ==
  ASSUME NEW l, NEW j, NEW d, Added(l, j, d), NEW c
  PROVE  /\ Cls(j) = c => In(d, c) = In(l, c) \cup {Len(l) + 1}
         /\ Cls(j) # c => In(d, c) = In(l, c)
<1>1. PICK n \in Nat : n = Len(l)
  BY DEF Added
<1>2. Len(d) = n + 1 /\ d[n + 1] = j /\ \A i \in 1 .. n : d[i] = l[i]
  BY <1>1, SeqAppend DEF Added
<1> QED
  BY <1>1, <1>2 DEF In

\* Taking the first job off the list moves the others up by one place.
LEMMA InTail ==
  ASSUME NEW l, NEW d, Taken(l, d), NEW c
  PROVE  /\ In(l, c) = {} => In(d, c) = {}
         /\ In(l, c) = {1} => In(d, c) = {}
         /\ \A k : In(l, c) = {k} /\ k # 1 => In(d, c) = {k - 1}
         /\ Cls(Head(l)) = c <=> 1 \in In(l, c)
<1>1. PICK n \in Nat : n = Len(l)
  BY DEF Taken
<1>2. Len(d) = n - 1 /\ n > 0 /\ l[1] = Head(l) /\ \A i \in 1 .. n - 1 : d[i] = l[i + 1]
  BY <1>1, SeqTail DEF Taken
<1>3. \A i \in 1 .. n - 1 : i \in In(d, c) <=> i + 1 \in In(l, c)
  BY <1>1, <1>2 DEF In
<1>4. In(d, c) \subseteq 1 .. n - 1 /\ In(l, c) \subseteq 1 .. n
  BY <1>1, <1>2 DEF In
<1>5. ASSUME NEW k, In(l, c) = {k}, k # 1
      PROVE  In(d, c) = {k - 1}
  <2>1. k \in 1 .. n /\ k - 1 \in 1 .. n - 1 /\ (k - 1) + 1 = k
    BY <1>4, <1>5
  <2>2. k - 1 \in In(d, c)
    BY <1>3, <1>5, <2>1
  <2>3. \A i \in In(d, c) : i = k - 1
    BY <1>3, <1>4, <1>5, <2>1
  <2> QED
    BY <2>2, <2>3
<1>6. In(l, c) = {} \/ In(l, c) = {1} => In(d, c) = {}
  BY <1>3, <1>4
<1>7. Cls(Head(l)) = c <=> 1 \in In(l, c)
  BY <1>1, <1>2 DEF In
<1> QED
  BY <1>5, <1>6, <1>7

\* Several jobs at the end of the list.
LEMMA InConcat ==
  ASSUME NEW l, NEW m, NEW d, Joined(l, m, d), NEW c
  PROVE  /\ In(m, c) = {} => In(d, c) = In(l, c)
         /\ \A k : In(l, c) = {} /\ In(m, c) = {k} => In(d, c) = {Len(l) + k}
<1>1. PICK n \in Nat : n = Len(l)
  BY DEF Joined
<1>2. PICK k \in Nat : k = Len(m)
  BY DEF Joined
<1>3. Len(d) = n + k /\ (\A i \in 1 .. n : d[i] = l[i]) /\ \A i \in 1 .. k : d[n + i] = m[i]
  BY <1>1, <1>2, SeqConcat DEF Joined
<1>4. In(d, c) \subseteq 1 .. n + k /\ In(l, c) \subseteq 1 .. n /\ In(m, c) \subseteq 1 .. k
  BY <1>1, <1>2, <1>3 DEF In
<1>5. \A i \in 1 .. n : i \in In(d, c) <=> i \in In(l, c)
  BY <1>1, <1>3 DEF In
<1>6. \A i \in 1 .. k : n + i \in In(d, c) <=> i \in In(m, c)
  BY <1>1, <1>2, <1>3 DEF In
<1>7. \A i \in 1 .. n + k : i \in 1 .. n \/ \E j \in 1 .. k : i = n + j
  <2> SUFFICES ASSUME NEW i \in 1 .. n + k, ~(i \in 1 .. n) PROVE \E j \in 1 .. k : i = n + j
    OBVIOUS
  <2>1. i - n \in 1 .. k /\ i = n + (i - n)
    OBVIOUS
  <2> QED
    BY <2>1
<1>8. ASSUME In(m, c) = {} PROVE In(d, c) = In(l, c)
  BY <1>4, <1>5, <1>6, <1>7, <1>8
<1>9. ASSUME NEW j, In(l, c) = {}, In(m, c) = {j} PROVE In(d, c) = {n + j}
  <2>1. j \in 1 .. k /\ n + j \in In(d, c)
    BY <1>4, <1>6, <1>9
  <2>2. \A i \in In(d, c) : i = n + j
    <3> SUFFICES ASSUME NEW i \in In(d, c) PROVE i = n + j
      OBVIOUS
    <3>1. ~(i \in 1 .. n)
      BY <1>5, <1>9
    <3>2. PICK x \in 1 .. k : i = n + x
      BY <1>4, <1>7, <3>1
    <3>3. x \in In(m, c)
      BY <1>6, <3>2
    <3> QED
      BY <1>9, <3>2, <3>3
  <2> QED
    BY <2>1, <2>2
<1> QED
  BY <1>1, <1>8, <1>9

-----------------------------------------------------------------------------
(* What is there stays there *)

More(s, t) ==
  /\ Len(s.promises) <= Len(t.promises) /\ Len(s.pairs) <= Len(t.pairs)
  /\ Len(s.asyncs) <= Len(t.asyncs) /\ Len(s.groups) <= Len(t.groups)

\* The lists of the engine have lengths.
LEMMA EngineLens ==
  ASSUME NEW s \in AnyEngine
  PROVE  /\ Len(s.promises) \in Nat /\ Len(s.pairs) \in Nat
         /\ Len(s.asyncs) \in Nat /\ Len(s.groups) \in Nat
<1>1. s.promises \in Seq(AnyPromise) /\ s.pairs \in Seq(AnyPair)
  BY DEF AnyEngine
<1>2. s.asyncs \in Seq(AnyAsync) /\ s.groups \in Seq(AnyGroup)
  BY DEF AnyEngine
<1>3. Len(s.promises) \in Nat /\ Len(s.pairs) \in Nat
  BY <1>1
<1>4. Len(s.asyncs) \in Nat /\ Len(s.groups) \in Nat
  BY <1>2
<1> QED
  BY <1>3, <1>4

LEMMA LeqTrans ==
  ASSUME NEW a \in Nat, NEW b \in Nat, NEW c \in Nat, a <= b, b <= c
  PROVE  a <= c
OBVIOUS

\* What there was of each kind is still there.
LEMMA MoreIn ==
  ASSUME NEW s \in AnyEngine, NEW t \in AnyEngine, More(s, t)
  PROVE  /\ Pr(s) \subseteq Pr(t) /\ Pa(s) \subseteq Pa(t)
         /\ As(s) \subseteq As(t) /\ Gr(s) \subseteq Gr(t)
<1>1. /\ Len(s.promises) \in Nat /\ Len(s.pairs) \in Nat /\ Len(s.asyncs) \in Nat /\ Len(s.groups) \in Nat
      /\ Len(t.promises) \in Nat /\ Len(t.pairs) \in Nat /\ Len(t.asyncs) \in Nat /\ Len(t.groups) \in Nat
  BY EngineLens
<1> QED
  BY <1>1 DEF More, Pr, Pa, As, Gr

\* What referred to something that was there still does.
LEMMA MoreOk ==
  ASSUME NEW s \in AnyEngine, NEW t \in AnyEngine, More(s, t)
  PROVE  /\ \A o : OkOutcome(s, o) => OkOutcome(t, o)
         /\ \A h : OkHandler(s, h) => OkHandler(t, h)
         /\ \A r : OkReaction(s, r) => OkReaction(t, r)
         /\ \A j : OkJob(s, j) => OkJob(t, j)
<1>1. /\ Pr(s) \subseteq Pr(t) /\ Pa(s) \subseteq Pa(t)
      /\ As(s) \subseteq As(t) /\ Gr(s) \subseteq Gr(t)
  BY MoreIn
<1>2. \A o : OkOutcome(s, o) => OkOutcome(t, o)
  BY <1>1 DEF OkOutcome
<1>3. \A h : OkHandler(s, h) => OkHandler(t, h)
  BY <1>1, <1>2 DEF OkHandler
<1>4. \A r : OkReaction(s, r) => OkReaction(t, r)
  BY <1>1, <1>3 DEF OkReaction
<1>5. \A j : OkJob(s, j) => OkJob(t, j)
  BY <1>1, <1>2, <1>4 DEF OkJob
<1> QED
  BY <1>2, <1>3, <1>4, <1>5

\* What grows twice grows.
LEMMA GrowsTrans ==
  ASSUME NEW s, NEW t, NEW u, Good(s), Good(t), Good(u), Grows(s, t), Grows(t, u)
  PROVE  Grows(s, u)
<1>1. s \in AnyEngine /\ t \in AnyEngine /\ u \in AnyEngine
  BY DEF Good
<1>2. Len(s.promises) \in Nat /\ Len(s.pairs) \in Nat /\ Len(s.groups) \in Nat
  BY <1>1, EngineLens
<1>3. Len(t.promises) \in Nat /\ Len(t.pairs) \in Nat /\ Len(t.groups) \in Nat
  BY <1>1, EngineLens
<1>4. Len(u.promises) \in Nat /\ Len(u.pairs) \in Nat /\ Len(u.groups) \in Nat
  BY <1>1, EngineLens
<1>5. Len(s.promises) <= Len(u.promises)
  BY <1>2, <1>3, <1>4, LeqTrans DEF Grows
<1>6. Len(s.pairs) <= Len(u.pairs)
  BY <1>2, <1>3, <1>4, LeqTrans DEF Grows
<1>7. Len(s.groups) <= Len(u.groups)
  BY <1>2, <1>3, <1>4, LeqTrans DEF Grows
<1> QED
  BY <1>5, <1>6, <1>7 DEF Grows

\* Two quiet steps are one.
LEMMA QuietTrans ==
  ASSUME NEW s, NEW t, NEW u, Good(s), Good(t), Good(u), Quiet(s, t), Quiet(t, u)
  PROVE  Quiet(s, u)
<1>1. Grows(s, t) /\ Grows(t, u)
  BY DEF Quiet
<1>2. Grows(s, u)
  BY <1>1, GrowsTrans
<1> QED
  BY <1>2 DEF Quiet, Keeps

\* Grows is a case of More.
LEMMA GrowsMore ==
  ASSUME NEW s, NEW t, Good(s), Good(t), Grows(s, t)
  PROVE  More(s, t)
BY DEF Grows, More, AnyEngine, Good

\* Doing nothing is quiet.
LEMMA QuietSame ==
  ASSUME NEW s, Good(s)
  PROVE  Quiet(s, s)
BY DEF Quiet, Keeps, Grows, Good, AnyEngine

-----------------------------------------------------------------------------
(* The operations *)

\* The reactions of a promise become jobs: those that resume something are
\* then in the list of jobs, once each.
ToRun(s, p, o) == s.promises[p].reactions[o.reject]

\* fulfill_or_reject_promise: the jobs made of the reactions to an outcome.
LEMMA RunJobsOk ==
  ASSUME NEW s, Good(s), NEW p \in Pr(s), NEW o, OkOutcome(s, o),
         NEW run, run = ToRun(s, p, o),
         NEW jobs, jobs = [k \in DOMAIN run |-> ReactionJob(run[k], o)]
  PROVE  /\ jobs \in Seq(Jobs)
         /\ \A i \in 1 .. Len(jobs) : OkJob(s, jobs[i])
         /\ \A q : In(jobs, <<"thenable", q>>) = {}
         /\ \A h \in AnyHandler : IsWaker(h) =>
              \A i \in Nat : i \in In(jobs, <<"reaction", h>>) <=> <<p, i>> \in Waits(s, h)
<1>1. s.promises \in Seq(AnyPromise) /\ s.promises[p] \in AnyPromise /\ o \in AnyOutcome
  BY DEF Good, AnyEngine, Pr, OkOutcome
<1>2. run \in Seq(AnyReaction) /\ o.reject \in BOOLEAN
  BY <1>1 DEF AnyPromise, AnyOutcome, ToRun
<1>3. PICK n \in Nat : n = Len(run) /\ DOMAIN run = 1 .. n
  BY <1>2
<1>4. \A i \in 1 .. n : run[i] \in AnyReaction /\ OkReaction(s, run[i])
  <2>1. OkPromises(s)
    BY DEF Good
  <2>2. \A i \in 1 .. Len(run) : OkReaction(s, run[i])
    BY <1>2, <2>1 DEF OkPromises, ToRun
  <2> QED
    BY <1>2, <1>3, <2>2
<1>5. \A i \in 1 .. n : ReactionJob(run[i], o) \in ReactionJobs
  BY <1>1, <1>4 DEF ReactionJob, ReactionJobs
<1>6. jobs \in Seq(Jobs) /\ Len(jobs) = n /\ \A i \in 1 .. n : jobs[i] = ReactionJob(run[i], o)
  BY <1>3, <1>5 DEF Jobs
<1>7. \A i \in 1 .. n : jobs[i].type = "reaction" /\ jobs[i].reaction = run[i] /\ jobs[i].outcome = o
  <2> SUFFICES ASSUME NEW i \in 1 .. n
               PROVE  jobs[i].type = "reaction" /\ jobs[i].reaction = run[i] /\ jobs[i].outcome = o
    OBVIOUS
  <2>1. jobs[i] = [type |-> "reaction", reaction |-> run[i], outcome |-> o]
    BY <1>6 DEF ReactionJob
  <2> QED
    BY <2>1
<1>8. \A i \in 1 .. n : OkJob(s, jobs[i])
  BY <1>4, <1>5, <1>6, <1>7 DEF OkJob
<1>9. \A i \in 1 .. n : Cls(jobs[i]) = <<"reaction", run[i].handler>>
  BY <1>7 DEF Cls
<1>10. \A q : In(jobs, <<"thenable", q>>) = {}
  BY <1>6, <1>9, ClsDiffer DEF In
<1>11. ASSUME NEW h \in AnyHandler, IsWaker(h), NEW i \in Nat
       PROVE  i \in In(jobs, <<"reaction", h>>) <=> <<p, i>> \in Waits(s, h)
  <2>1. i \in In(jobs, <<"reaction", h>>) <=> i \in 1 .. n /\ run[i].handler = h
    BY <1>6, <1>9, ClsDiffer DEF In
  <2>2. PICK f : f = s.promises[p].reactions[FALSE]
    OBVIOUS
  <2>3. PICK g : g = s.promises[p].reactions[TRUE]
    OBVIOUS
  <2>4. Twins(f, g)
    BY <2>2, <2>3 DEF Good, OkTwins
  <2>5. run = f \/ run = g
    BY <1>2, <2>2, <2>3 DEF ToRun
  <2>6. Len(f) = n /\ (i \in 1 .. n => (run[i].handler = h <=> f[i].handler = h))
    BY <1>3, <1>11, <2>4, <2>5 DEF Twins
  <2>7. <<p, i>> \in Waits(s, h) <=> i \in 1 .. Len(f) /\ f[i].handler = h
    BY <2>2 DEF Waits
  <2> QED
    BY <2>1, <2>6, <2>7
<1> QED
  BY <1>6, <1>8, <1>10, <1>11

\* The pair r has been used.
Used(s, r) == [s EXCEPT !.pairs[r].resolved = TRUE]

Uses(s, r, p, t) ==
  Good(s) /\ r \in Pa(s) /\ ~s.pairs[r].resolved /\ p = s.pairs[r].promise /\ t = Used(s, r)

AfterUse(s, p, t) ==
  /\ t \in AnyEngine
  /\ t.promises = s.promises /\ t.jobs = s.jobs /\ t.asyncs = s.asyncs /\ t.groups = s.groups
  /\ Len(t.pairs) = Len(s.pairs) /\ OkPairs(t)
  /\ p \in Pr(s) /\ s.promises[p].outcome = Pending
  /\ Open(t, p) = {} /\ In(s.jobs, <<"thenable", p>>) = {}
  /\ \A q \in Pr(s) : q # p => Open(t, q) = Open(s, q)

\* already_resolved is set, and nothing else.
LEMMA UsedIs ==
  ASSUME NEW s, NEW r, NEW p, NEW t, Uses(s, r, p, t)
  PROVE  AfterUse(s, p, t)
<1>0. Good(s) /\ r \in Pa(s) /\ ~s.pairs[r].resolved /\ p = s.pairs[r].promise /\ t = Used(s, r)
  BY DEF Uses
<1>1. s \in AnyEngine /\ s.pairs \in Seq(AnyPair) /\ s.pairs[r] \in AnyPair
  BY <1>0 DEF Good, AnyEngine, Pa
<1>2. r \in 1 .. Len(s.pairs)
  BY <1>0 DEF Pa
<1>3. PICK x : x = [s.pairs[r] EXCEPT !.resolved = TRUE]
  OBVIOUS
<1>4. x \in AnyPair /\ x.promise = p /\ x.resolved
  BY <1>0, <1>1, <1>3 DEF AnyPair
<1>5. PICK pairs : pairs = [s.pairs EXCEPT ![r] = x]
  OBVIOUS
<1>6. /\ pairs \in Seq(AnyPair) /\ Len(pairs) = Len(s.pairs) /\ pairs[r] = x
      /\ \A q \in 1 .. Len(s.pairs) : q # r => pairs[q] = s.pairs[q]
  BY <1>1, <1>2, <1>4, <1>5, SeqExcept
<1>7. t = [s EXCEPT !.pairs = pairs]
  BY <1>0, <1>3, <1>5 DEF Used
<1>8. /\ t \in AnyEngine /\ t.pairs = pairs
      /\ t.promises = s.promises /\ t.jobs = s.jobs /\ t.asyncs = s.asyncs /\ t.groups = s.groups
  BY <1>1, <1>6, <1>7 DEF AnyEngine
<1>9. Pa(t) = Pa(s) /\ Pr(t) = Pr(s)
  BY <1>6, <1>8 DEF Pa, Pr
<1>10. \A q \in Pa(s) : t.pairs[q].promise = s.pairs[q].promise
  BY <1>0, <1>4, <1>6, <1>8 DEF Pa
<1>11. OkPairs(t)
  BY <1>0, <1>9, <1>10 DEF OkPairs, Good
<1>12. p \in Pr(s) /\ r \in Open(s, p)
  BY <1>0 DEF Good, OkPairs, Open
<1>13. s.promises[p].outcome = Pending /\ Single(Open(s, p), In(s.jobs, <<"thenable", p>>))
  BY <1>0, <1>12 DEF Good, Sole
<1>14. Open(s, p) = {r} /\ In(s.jobs, <<"thenable", p>>) = {}
  BY <1>12, <1>13 DEF Single
<1>15. \A q \in Pr(s) : Open(t, q) = Open(s, q) \ {r}
  BY <1>4, <1>6, <1>8, <1>9, <1>10 DEF Open, Pa
<1>16. \A q \in Pr(s) : q # p => r \notin Open(s, q)
  BY <1>0 DEF Open
<1>17. Open(t, p) = {}
  BY <1>12, <1>14, <1>15
<1>18. \A q \in Pr(s) : q # p => Open(t, q) = Open(s, q)
  BY <1>15, <1>16
<1> QED
  BY <1>6, <1>8, <1>11, <1>12, <1>13, <1>14, <1>17, <1>18 DEF AfterUse

\* The same pairs, and as many promises.
LEMMA SamePairs ==
  ASSUME NEW s, NEW t, t.pairs = s.pairs, Pr(t) = Pr(s), OkPairs(s)
  PROVE  OkPairs(t) /\ \A q : Open(t, q) = Open(s, q)
<1>1. Pa(t) = Pa(s)
  BY DEF Pa
<1>2. OkPairs(t)
  BY <1>1 DEF OkPairs
<1>3. \A q : Open(t, q) = Open(s, q)
  BY <1>1 DEF Open
<1> QED
  BY <1>2, <1>3

\* The references are as good as before when only jobs, or nothing, are added.
LEMMA RestOk ==
  ASSUME NEW s, Good(s), NEW t \in AnyEngine,
         Len(t.promises) = Len(s.promises), Len(t.pairs) = Len(s.pairs),
         t.asyncs = s.asyncs, t.groups = s.groups
  PROVE  /\ More(s, t) /\ Grows(s, t) /\ Pr(t) = Pr(s) /\ Pa(t) = Pa(s)
         /\ OkAsyncs(t) /\ OkGroups(t)
<1>1. s \in AnyEngine
  BY DEF Good
<1>2. /\ Len(s.promises) \in Nat /\ Len(s.pairs) \in Nat /\ Len(s.asyncs) \in Nat /\ Len(s.groups) \in Nat
  BY <1>1 DEF AnyEngine
<1>3. Pr(t) = Pr(s) /\ Pa(t) = Pa(s) /\ As(t) = As(s) /\ Gr(t) = Gr(s)
  BY DEF Pr, Pa, As, Gr
<1>4. More(s, t) /\ Grows(s, t)
  BY <1>2 DEF More, Grows
<1> QED
  <2>1. OkAsyncs(s) /\ OkGroups(s)
    BY DEF Good
  <2>2. OkAsyncs(t)
    BY <1>3, <2>1 DEF OkAsyncs
  <2>3. OkGroups(t)
    BY <1>3, <2>1 DEF OkGroups
  <2> QED
    BY <1>3, <1>4, <2>2, <2>3

\* Promises that did not change are as sound as before.
LEMMA SamePromises ==
  ASSUME NEW s, Good(s), NEW t \in AnyEngine, More(s, t), t.promises = s.promises
  PROVE  OkPromises(t) /\ OkTwins(t)
<1>1. s \in AnyEngine /\ Pr(t) = Pr(s)
  BY DEF Good, Pr
<1>2. \A o : OkOutcome(s, o) => OkOutcome(t, o)
  BY <1>1, MoreOk
<1>3. \A r : OkReaction(s, r) => OkReaction(t, r)
  BY <1>1, MoreOk
<1>4. OkPromises(t)
  BY <1>1, <1>2, <1>3 DEF OkPromises, Good
<1>5. OkTwins(t)
  BY <1>1 DEF OkTwins, Good
<1> QED
  BY <1>4, <1>5

\* resolve with a promise or a thenable: p waits for it.
LEMMA FollowOk ==
  ASSUME NEW s, Good(s), NEW r \in Pa(s), ~s.pairs[r].resolved, NEW p, p = s.pairs[r].promise,
         NEW v, v = Thenable \/ v \in Pr(s),
         NEW t, t = JS_EnqueueJob(Used(s, r), [type |-> "thenable", promise |-> p, thenable |-> v])
  PROVE  /\ Good(t) /\ Quiet(s, t)
<1>1. PICK u : u = Used(s, r) /\ AfterUse(s, p, u)
  BY UsedIs DEF Uses
<1>2. /\ u \in AnyEngine
      /\ u.promises = s.promises /\ u.jobs = s.jobs /\ u.asyncs = s.asyncs /\ u.groups = s.groups
      /\ Len(u.pairs) = Len(s.pairs) /\ OkPairs(u)
      /\ p \in Pr(s) /\ s.promises[p].outcome = Pending
      /\ Open(u, p) = {} /\ In(s.jobs, <<"thenable", p>>) = {}
      /\ \A q \in Pr(s) : q # p => Open(u, q) = Open(s, q)
  BY <1>1 DEF AfterUse
<1>3. PICK job : job = [type |-> "thenable", promise |-> p, thenable |-> v]
  OBVIOUS
<1>4. job \in ThenableJobs /\ job.promise = p /\ job.thenable = v /\ Cls(job) = <<"thenable", p>>
  BY <1>2, <1>3 DEF ThenableJobs, Pr, Cls
<1>5. PICK jobs : jobs = Append(s.jobs, job)
  OBVIOUS
<1>6. s.jobs \in Seq(Jobs) /\ job \in Jobs
  BY <1>4 DEF Good, AnyEngine, Jobs
<1>66. Added(s.jobs, job, jobs)
  BY <1>5, <1>6 DEF Added
<1>7. jobs \in Seq(Jobs) /\ Len(jobs) = Len(s.jobs) + 1 /\ jobs[Len(s.jobs) + 1] = job
      /\ \A i \in 1 .. Len(s.jobs) : jobs[i] = s.jobs[i]
  BY <1>5, <1>6, SeqAppend
<1>8. t = [u EXCEPT !.jobs = jobs]
  BY <1>1, <1>2, <1>3, <1>5 DEF JS_EnqueueJob
<1>9. /\ t \in AnyEngine /\ t.jobs = jobs /\ t.promises = s.promises /\ t.pairs = u.pairs
      /\ t.asyncs = s.asyncs /\ t.groups = s.groups
  BY <1>2, <1>7, <1>8 DEF AnyEngine
<1>10. /\ More(s, t) /\ Grows(s, t) /\ Pr(t) = Pr(s) /\ Pa(t) = Pa(s)
       /\ OkAsyncs(t) /\ OkGroups(t)
  BY <1>2, <1>9, RestOk
<1>11. s \in AnyEngine
  BY DEF Good
<1>12. OkPromises(t) /\ OkTwins(t)
  BY <1>9, <1>10, <1>11, SamePromises
<1>13. OkJobs(t)
  <2>1. \A i \in 1 .. Len(s.jobs) : OkJob(t, jobs[i])
    BY <1>7, <1>9, <1>10, <1>11, MoreOk DEF OkJobs, Good
  <2>2. OkJob(t, job)
    BY <1>2, <1>4, <1>10 DEF OkJob
  <2>3. Len(s.jobs) \in Nat
    BY <1>6
  <2> QED
    BY <1>7, <1>9, <2>1, <2>2, <2>3 DEF OkJobs
<1>14. OkPairs(t) /\ \A q : Open(t, q) = Open(u, q)
  <2>1. t.pairs = u.pairs /\ Pr(t) = Pr(u)
    BY <1>2, <1>9 DEF Pr
  <2> QED
    BY <1>2, <2>1, SamePairs
<1>15. Sole(t)
  <2> SUFFICES ASSUME NEW q \in Pr(s)
               PROVE  /\ t.promises[q].outcome = Pending => Single(Open(t, q), In(t.jobs, <<"thenable", q>>))
                      /\ t.promises[q].outcome # Pending => Open(t, q) = {} /\ In(t.jobs, <<"thenable", q>>) = {}
    BY <1>10 DEF Sole
  <2>1. CASE q = p
    <3>1. In(jobs, <<"thenable", p>>) = {Len(s.jobs) + 1}
      <4>1. PICK c : c = <<"thenable", p>>
        OBVIOUS
      <4>2. In(jobs, c) = In(s.jobs, c) \cup {Len(s.jobs) + 1}
        BY <1>4, <1>66, <4>1, InAppend
      <4> QED
        BY <1>2, <4>1, <4>2
    <3> QED
      BY <1>2, <1>9, <1>14, <2>1, <3>1 DEF Single
  <2>2. CASE q # p
    <3>1. PICK c : c = <<"thenable", q>>
      OBVIOUS
    <3>2. Cls(job) # c
      BY <1>4, <2>2, <3>1, ClsDiffer
    <3>3. In(jobs, <<"thenable", q>>) = In(s.jobs, <<"thenable", q>>)
      BY <1>66, <3>1, <3>2, InAppend
    <3> QED
      BY <1>2, <1>9, <1>14, <2>2, <3>3 DEF Good, Sole
  <2> QED
    BY <2>1, <2>2
<1>16. ASSUME NEW h PROVE Keeps(s, t, h)
  <2>1. Due(t, h) = Due(s, h)
    <3>1. PICK c : c = <<"reaction", h>>
      OBVIOUS
    <3>2. Cls(job) # c
      BY <1>4, <3>1, ClsDiffer
    <3>3. In(jobs, c) = In(s.jobs, c)
      BY <1>66, <3>2, InAppend
    <3> QED
      BY <1>9, <3>1, <3>3 DEF Due
  <2>2. Waits(t, h) = Waits(s, h)
    BY <1>9, <1>10 DEF Waits
  <2> QED
    BY <2>1, <2>2 DEF Keeps, Never, Once
<1> QED
  BY <1>9, <1>10, <1>12, <1>13, <1>14, <1>15, <1>16 DEF Good, Quiet

\* fulfill_or_reject_promise, called by the pair that may: p is settled and
\* its reactions become jobs.
LEMMA SettleOk ==
  ASSUME NEW s, Good(s), NEW r \in Pa(s), ~s.pairs[r].resolved, NEW p, p = s.pairs[r].promise,
         NEW o, OkOutcome(s, o), NEW t, t = fulfill_or_reject_promise(Used(s, r), p, o)
  PROVE  Good(t) /\ Quiet(s, t)
<1>1. PICK u : u = Used(s, r) /\ AfterUse(s, p, u)
  BY UsedIs DEF Uses
<1>2. /\ u \in AnyEngine
      /\ u.promises = s.promises /\ u.jobs = s.jobs /\ u.asyncs = s.asyncs /\ u.groups = s.groups
      /\ Len(u.pairs) = Len(s.pairs) /\ OkPairs(u)
      /\ p \in Pr(s) /\ s.promises[p].outcome = Pending
      /\ Open(u, p) = {} /\ In(s.jobs, <<"thenable", p>>) = {}
      /\ \A q \in Pr(s) : q # p => Open(u, q) = Open(s, q)
  BY <1>1 DEF AfterUse
<1>3. PICK run : run = ToRun(s, p, o)
  OBVIOUS
<1>4. PICK jobs : jobs = [k \in DOMAIN run |-> ReactionJob(run[k], o)]
  OBVIOUS
<1>5. /\ jobs \in Seq(Jobs)
      /\ \A i \in 1 .. Len(jobs) : OkJob(s, jobs[i])
      /\ \A q : In(jobs, <<"thenable", q>>) = {}
      /\ \A h \in AnyHandler : IsWaker(h) =>
           \A i \in Nat : i \in In(jobs, <<"reaction", h>>) <=> <<p, i>> \in Waits(s, h)
  BY <1>2, <1>3, <1>4, RunJobsOk
<1>6. /\ s \in AnyEngine /\ s.promises \in Seq(AnyPromise) /\ s.promises[p] \in AnyPromise
      /\ s.jobs \in Seq(Jobs) /\ o \in AnyOutcome /\ p \in 1 .. Len(s.promises)
  BY <1>2 DEF Good, AnyEngine, Pr, OkOutcome
<1>7. PICK x : x = [s.promises[p] EXCEPT !.outcome = o, !.reactions = [b \in BOOLEAN |-> <<>>]]
  OBVIOUS
<1>8. x \in AnyPromise /\ x.outcome = o /\ \A b \in BOOLEAN : x.reactions[b] = <<>>
  <2>1. PICK e : e = [b \in BOOLEAN |-> <<>>]
    OBVIOUS
  <2>2. e \in [BOOLEAN -> Seq(AnyReaction)] /\ \A b \in BOOLEAN : e[b] = <<>>
    BY <2>1
  <2>3. x = [s.promises[p] EXCEPT !.outcome = o, !.reactions = e]
    BY <1>7, <2>1
  <2>4. x \in AnyPromise /\ x.outcome = o /\ x.reactions = e
    BY <1>6, <2>2, <2>3 DEF AnyPromise
  <2> QED
    BY <2>2, <2>4
<1>9. o # Pending
  BY DEF Pending, OkOutcome
<1>10. PICK P : P = [s.promises EXCEPT ![p] = x]
  OBVIOUS
<1>11. /\ P \in Seq(AnyPromise) /\ Len(P) = Len(s.promises) /\ P[p] = x
       /\ \A q \in 1 .. Len(s.promises) : q # p => P[q] = s.promises[q]
  BY <1>6, <1>8, <1>10, SeqExcept
<1>12. PICK list : list = s.jobs \o jobs
  OBVIOUS
<1>13. Joined(s.jobs, jobs, list)
  BY <1>5, <1>6, <1>12 DEF Joined
<1>14. /\ list \in Seq(Jobs) /\ Len(list) = Len(s.jobs) + Len(jobs)
       /\ \A j \in 1 .. Len(s.jobs) : list[j] = s.jobs[j]
       /\ \A j \in 1 .. Len(jobs) : list[Len(s.jobs) + j] = jobs[j]
  BY <1>5, <1>6, <1>12, SeqConcat
<1>15. t = [u EXCEPT !.promises = P, !.jobs = list]
  BY <1>1, <1>2, <1>3, <1>4, <1>7, <1>10, <1>12 DEF fulfill_or_reject_promise, ToRun
<1>16. /\ t \in AnyEngine /\ t.jobs = list /\ t.promises = P /\ t.pairs = u.pairs
       /\ t.asyncs = s.asyncs /\ t.groups = s.groups
  BY <1>2, <1>11, <1>14, <1>15 DEF AnyEngine
<1>17. /\ More(s, t) /\ Grows(s, t) /\ Pr(t) = Pr(s) /\ Pa(t) = Pa(s)
       /\ OkAsyncs(t) /\ OkGroups(t)
  BY <1>2, <1>11, <1>16, RestOk
<1>18. /\ \A y : OkOutcome(s, y) => OkOutcome(t, y)
       /\ \A y : OkReaction(s, y) => OkReaction(t, y)
       /\ \A y : OkJob(s, y) => OkJob(t, y)
  BY <1>6, <1>16, <1>17, MoreOk
<1>19. OkPromises(t)
  <2> SUFFICES ASSUME NEW q \in Pr(s)
               PROVE  /\ t.promises[q].outcome = Pending \/ OkOutcome(t, t.promises[q].outcome)
                      /\ \A b \in BOOLEAN : \A i \in 1 .. Len(t.promises[q].reactions[b]) :
                           OkReaction(t, t.promises[q].reactions[b][i])
    BY <1>17 DEF OkPromises
  <2>1. CASE q = p
    <3>1. t.promises[q] = x /\ \A b \in BOOLEAN : Len(x.reactions[b]) = 0
      BY <1>8, <1>11, <1>16, <2>1
    <3> QED
      BY <1>8, <1>18, <3>1
  <2>2. CASE q # p
    <3>1. t.promises[q] = s.promises[q]
      BY <1>11, <1>16, <2>2 DEF Pr
    <3> QED
      BY <1>18, <3>1 DEF Good, OkPromises
  <2> QED
    BY <2>1, <2>2
<1>20. OkTwins(t)
  <2> SUFFICES ASSUME NEW q \in Pr(s)
               PROVE  Twins(t.promises[q].reactions[FALSE], t.promises[q].reactions[TRUE])
    BY <1>17 DEF OkTwins
  <2>1. CASE q = p
    <3>1. t.promises[q] = x /\ x.reactions[FALSE] = <<>> /\ x.reactions[TRUE] = <<>>
      BY <1>8, <1>11, <1>16, <2>1
    <3> QED
      BY <3>1 DEF Twins
  <2>2. CASE q # p
    <3>1. t.promises[q] = s.promises[q]
      BY <1>11, <1>16, <2>2 DEF Pr
    <3> QED
      BY <3>1 DEF Good, OkTwins
  <2> QED
    BY <2>1, <2>2
<1>21. OkJobs(t)
  <2>1. PICK n \in Nat : n = Len(s.jobs)
    BY <1>6
  <2>2. PICK m \in Nat : m = Len(jobs)
    BY <1>5
  <2>3. \A i \in 1 .. n : OkJob(t, list[i])
    BY <1>14, <1>18, <2>1 DEF Good, OkJobs
  <2>4. \A i \in 1 .. m : OkJob(t, list[n + i])
    BY <1>5, <1>14, <1>18, <2>1, <2>2
  <2>5. \A i \in 1 .. n + m : i \in 1 .. n \/ (i - n \in 1 .. m /\ n + (i - n) = i)
    OBVIOUS
  <2> QED
    BY <1>14, <1>16, <2>1, <2>2, <2>3, <2>4, <2>5 DEF OkJobs
<1>22. OkPairs(t) /\ \A q : Open(t, q) = Open(u, q)
  <2>1. Pr(u) = Pr(s)
    BY <1>2 DEF Pr
  <2>2. t.pairs = u.pairs /\ Pr(t) = Pr(u)
    BY <1>16, <1>17, <2>1
  <2> QED
    BY <1>2, <2>2, SamePairs
<1>23. \A q : In(list, <<"thenable", q>>) = In(s.jobs, <<"thenable", q>>)
  <2> SUFFICES ASSUME NEW q PROVE In(list, <<"thenable", q>>) = In(s.jobs, <<"thenable", q>>)
    OBVIOUS
  <2>1. PICK c : c = <<"thenable", q>>
    OBVIOUS
  <2>2. In(jobs, c) = {}
    BY <1>5, <2>1
  <2> QED
    BY <1>13, <2>1, <2>2, InConcat
<1>24. Sole(t)
  <2> SUFFICES ASSUME NEW q \in Pr(s)
               PROVE  /\ t.promises[q].outcome = Pending => Single(Open(t, q), In(t.jobs, <<"thenable", q>>))
                      /\ t.promises[q].outcome # Pending => Open(t, q) = {} /\ In(t.jobs, <<"thenable", q>>) = {}
    BY <1>17 DEF Sole
  <2>1. CASE q = p
    BY <1>2, <1>8, <1>9, <1>11, <1>16, <1>22, <1>23, <2>1
  <2>2. CASE q # p
    <3>1. t.promises[q] = s.promises[q]
      BY <1>11, <1>16, <2>2 DEF Pr
    <3> QED
      BY <1>2, <1>16, <1>22, <1>23, <2>2, <3>1 DEF Good, Sole
  <2> QED
    BY <2>1, <2>2
<1>25. ASSUME NEW h \in AnyHandler, IsWaker(h) PROVE Keeps(s, t, h)
  <2>1. PICK c : c = <<"reaction", h>>
    OBVIOUS
  <2>2. \A i \in Nat : i \in In(jobs, c) <=> <<p, i>> \in Waits(s, h)
    BY <1>5, <1>25, <2>1
  <2>3. /\ In(jobs, c) = {} => In(list, c) = In(s.jobs, c)
        /\ \A k : In(s.jobs, c) = {} /\ In(jobs, c) = {k} => In(list, c) = {Len(s.jobs) + k}
    BY <1>13, InConcat
  <2>4. In(jobs, c) \subseteq Nat
    BY DEF In
  <2>5. \A y : y \in Waits(t, h) <=> y \in Waits(s, h) /\ y[1] # p
    <3> SUFFICES ASSUME NEW y \in Pr(s) \X Nat PROVE y \in Waits(t, h) <=> y \in Waits(s, h) /\ y[1] # p
      BY <1>17 DEF Waits
    <3>1. CASE y[1] = p
      <4>1. t.promises[y[1]].reactions[FALSE] = <<>>
        BY <1>8, <1>11, <1>16, <3>1
      <4>2. 1 .. Len(t.promises[y[1]].reactions[FALSE]) = {}
        BY <4>1
      <4> QED
        BY <3>1, <4>2 DEF Waits
    <3>2. CASE y[1] # p
      <4>1. t.promises[y[1]] = s.promises[y[1]]
        BY <1>11, <1>16, <3>2 DEF Pr
      <4> QED
        BY <1>17, <3>2, <4>1 DEF Waits
    <3> QED
      BY <3>1, <3>2
  <2>6. Due(t, h) = In(list, c) /\ Due(s, h) = In(s.jobs, c)
    BY <1>16, <2>1 DEF Due
  <2>7. \A y : y \in Waits(s, h) => y = <<y[1], y[2]>> /\ y[2] \in Nat
    BY DEF Waits
  <2>8. ASSUME Waits(s, h) = {} PROVE Waits(t, h) = {} /\ Due(t, h) = Due(s, h)
    BY <2>2, <2>3, <2>4, <2>5, <2>6, <2>8
  <2>9. ASSUME NEW y, Waits(s, h) = {y}, Due(s, h) = {} PROVE Once(t, h)
    <3>1. y = <<y[1], y[2]>> /\ y[2] \in Nat
      BY <2>7, <2>9
    <3>2. CASE y[1] = p
      <4>1. Waits(t, h) = {}
        BY <2>5, <2>9, <3>2
      <4>2. PICK k : k = y[2]
        OBVIOUS
      <4>3. y = <<p, k>> /\ k \in Nat
        BY <3>1, <3>2, <4>2
      <4>4. \A i \in Nat : <<p, i>> \in Waits(s, h) <=> i = k
        BY <2>9, <4>3
      <4>5. In(jobs, c) = {k}
        BY <2>2, <2>4, <4>3, <4>4
      <4>6. Due(t, h) = {Len(s.jobs) + k}
        BY <2>3, <2>6, <2>9, <4>5
      <4> QED
        BY <4>1, <4>6 DEF Once, Single
    <3>3. CASE y[1] # p
      <4>1. Waits(t, h) = {y}
        BY <2>5, <2>9, <3>3
      <4>2. \A i \in Nat : <<p, i>> \notin Waits(s, h)
        BY <2>9, <3>3
      <4>3. In(jobs, c) = {}
        BY <2>2, <2>4, <4>2
      <4> QED
        BY <2>3, <2>6, <2>9, <4>1, <4>3 DEF Once, Single
    <3> QED
      BY <3>2, <3>3
  <2> QED
    BY <2>8, <2>9 DEF Keeps, Never, Once, Single
<1> QED
  BY <1>16, <1>17, <1>19, <1>20, <1>21, <1>22, <1>24, <1>25 DEF Good, Quiet

\* js_promise_resolve_function_call: a call of a function of pair r.
Calls(s, r, c, t) ==
  Good(s) /\ r \in Pa(s) /\ OkOutcome(s, c) /\ t = js_promise_resolve_function_call(s, r, c)

\* The values of the script and of the engine are there in every state.
LEMMA ErrorOk ==
  ASSUME NEW s
  PROVE  /\ \A v \in Plain \cup {Thenable, Trap} : OkOutcome(s, Value(v)) /\ OkOutcome(s, Reason(v))
         /\ OkOutcome(s, Reason(Error))
BY PromiseAssumption DEF OkOutcome, AnyOutcome, AnyValue, Value, Reason

\* js_promise_resolve_function_call keeps the state sound, and nobody is
\* woken more often or less often than before.
LEMMA CallOk ==
  ASSUME NEW s, NEW r, NEW c, NEW t, Calls(s, r, c, t)
  PROVE  Good(t) /\ Quiet(s, t)
<1>1. Good(s) /\ r \in Pa(s) /\ OkOutcome(s, c) /\ t = js_promise_resolve_function_call(s, r, c)
  BY DEF Calls
<1>2. PICK p : p = s.pairs[r].promise
  OBVIOUS
<1>3. CASE s.pairs[r].resolved
  BY <1>1, <1>3, QuietSame DEF js_promise_resolve_function_call
<1>4. CASE ~s.pairs[r].resolved
  <2>1. \/ /\ ~c.reject /\ Follows(p, c.value)
           /\ t = JS_EnqueueJob(Used(s, r), [type |-> "thenable", promise |-> p, thenable |-> c.value])
        \/ t = fulfill_or_reject_promise(Used(s, r), p, Reason(Error))
        \/ t = fulfill_or_reject_promise(Used(s, r), p, c)
    BY <1>1, <1>2, <1>4 DEF js_promise_resolve_function_call, Used
  <2>2. CASE /\ ~c.reject /\ Follows(p, c.value)
             /\ t = JS_EnqueueJob(Used(s, r), [type |-> "thenable", promise |-> p, thenable |-> c.value])
    <3>1. PICK v : v = c.value
      OBVIOUS
    <3>2. v = Thenable \/ v \in Pr(s)
      BY <1>1, <2>2, <3>1, PromiseAssumption DEF Follows, IsPromise, Promises, OkOutcome
    <3>3. t = JS_EnqueueJob(Used(s, r), [type |-> "thenable", promise |-> p, thenable |-> v])
      BY <2>2, <3>1
    <3> QED
      BY <1>1, <1>2, <1>4, <3>2, <3>3, FollowOk
  <2>3. CASE t = fulfill_or_reject_promise(Used(s, r), p, Reason(Error))
    <3>1. PICK o : o = Reason(Error)
      OBVIOUS
    <3>2. OkOutcome(s, o) /\ t = fulfill_or_reject_promise(Used(s, r), p, o)
      BY <2>3, <3>1, ErrorOk
    <3> QED
      BY <1>1, <1>2, <1>4, <3>2, SettleOk
  <2>4. CASE t = fulfill_or_reject_promise(Used(s, r), p, c)
    BY <1>1, <1>2, <1>4, <2>4, SettleOk
  <2> QED
    BY <2>1, <2>2, <2>3, <2>4
<1> QED
  BY <1>3, <1>4

\* js_new_promise_capability: a promise, and a pair that can settle it.
IsNew(s, t) ==
  /\ Good(t) /\ Quiet(s, t)
  /\ Len(t.promises) = Len(s.promises) + 1 /\ Len(t.pairs) = Len(s.pairs) + 1
  /\ t.pairs[Len(t.pairs)].promise = Len(t.promises)
  /\ Newest(t) \in Pr(t) /\ NewestPair(t) \in Pa(t)
  /\ t.groups = s.groups /\ t.jobs = s.jobs

\* js_new_promise_capability keeps the state sound: the new promise is pending
\* and has its one pair.
LEMMA NewOk ==
  ASSUME NEW s, Good(s), NEW t, t = js_new_promise_capability(s)
  PROVE  IsNew(s, t)
<1>1. PICK n \in Nat : n = Len(s.promises)
  BY DEF Good, AnyEngine
<1>2. PICK k \in Nat : k = Len(s.pairs)
  BY DEF Good, AnyEngine
<1>3. PICK e : e = [b \in BOOLEAN |-> <<>>]
  OBVIOUS
<1>4. e \in [BOOLEAN -> Seq(AnyReaction)] /\ \A b \in BOOLEAN : e[b] = <<>>
  BY <1>3
<1>5. PICK x : x = [outcome |-> Pending, reactions |-> e, thens |-> 0, mirrors |-> None]
  OBVIOUS
<1>6. x \in AnyPromise /\ x.outcome = Pending /\ x.reactions = e
  BY <1>4, <1>5 DEF AnyPromise, AnyOutcome, AnyValue, Pending
<1>7. PICK y : y = [promise |-> n + 1, resolved |-> FALSE]
  OBVIOUS
<1>8. y \in AnyPair /\ y.promise = n + 1 /\ ~y.resolved
  BY <1>7 DEF AnyPair
<1>9. PICK P : P = Append(s.promises, x)
  OBVIOUS
<1>10. PICK Q : Q = Append(s.pairs, y)
  OBVIOUS
<1>11. s \in AnyEngine /\ s.promises \in Seq(AnyPromise) /\ s.pairs \in Seq(AnyPair) /\ s.jobs \in Seq(Jobs)
  BY DEF Good, AnyEngine
<1>12. P \in Seq(AnyPromise) /\ Len(P) = n + 1 /\ P[n + 1] = x /\ \A i \in 1 .. n : P[i] = s.promises[i]
  BY <1>1, <1>6, <1>9, <1>11, SeqAppend
<1>13. Q \in Seq(AnyPair) /\ Len(Q) = k + 1 /\ Q[k + 1] = y /\ \A i \in 1 .. k : Q[i] = s.pairs[i]
  BY <1>2, <1>8, <1>10, <1>11, SeqAppend
<1>14. t = [s EXCEPT !.promises = P, !.pairs = Q]
  BY <1>1, <1>3, <1>5, <1>7, <1>9, <1>10 DEF js_new_promise_capability, js_create_resolving_functions
<1>15. /\ t \in AnyEngine /\ t.promises = P /\ t.pairs = Q
       /\ t.jobs = s.jobs /\ t.asyncs = s.asyncs /\ t.groups = s.groups
  BY <1>11, <1>12, <1>13, <1>14 DEF AnyEngine
<1>16. Pr(s) = 1 .. n /\ Pa(s) = 1 .. k /\ Pr(t) = 1 .. n + 1 /\ Pa(t) = 1 .. k + 1
  BY <1>1, <1>2, <1>12, <1>13, <1>15 DEF Pr, Pa
<1>17. More(s, t) /\ Grows(s, t)
  <2>1. Len(s.asyncs) \in Nat /\ Len(s.groups) \in Nat
    BY <1>11, EngineLens
  <2> QED
    BY <1>1, <1>2, <1>12, <1>13, <1>15, <2>1 DEF More, Grows
<1>18. /\ \A z : OkOutcome(s, z) => OkOutcome(t, z)
       /\ \A z : OkReaction(s, z) => OkReaction(t, z)
       /\ \A z : OkJob(s, z) => OkJob(t, z)
  BY <1>11, <1>15, <1>17, MoreOk
<1>19. OkAsyncs(t) /\ OkGroups(t)
  <2>1. OkAsyncs(s) /\ OkGroups(s)
    BY DEF Good
  <2>2. Pr(s) \subseteq Pr(t) /\ Pa(s) \subseteq Pa(t)
    BY <1>11, <1>15, <1>17, MoreIn
  <2>3. As(t) = As(s) /\ Gr(t) = Gr(s)
    BY <1>15 DEF As, Gr
  <2>4. OkAsyncs(t)
    BY <1>15, <2>1, <2>2, <2>3 DEF OkAsyncs
  <2>5. OkGroups(t)
    BY <1>15, <2>1, <2>2, <2>3 DEF OkGroups
  <2> QED
    BY <2>4, <2>5
<1>20. OkJobs(t)
  BY <1>15, <1>18 DEF OkJobs, Good
<1>21. \A q \in Pr(t) : q = n + 1 \/ (q \in Pr(s) /\ t.promises[q] = s.promises[q])
  BY <1>12, <1>15, <1>16
<1>22. t.promises[n + 1] = x
  BY <1>12, <1>15
<1>23. \A b \in BOOLEAN : Len(x.reactions[b]) = 0
  BY <1>4, <1>6
<1>24. OkPromises(t)
  <2> SUFFICES ASSUME NEW q \in Pr(t)
               PROVE  /\ t.promises[q].outcome = Pending \/ OkOutcome(t, t.promises[q].outcome)
                      /\ \A b \in BOOLEAN : \A i \in 1 .. Len(t.promises[q].reactions[b]) :
                           OkReaction(t, t.promises[q].reactions[b][i])
    BY DEF OkPromises
  <2>1. CASE q = n + 1
    BY <1>6, <1>22, <1>23, <2>1
  <2>2. CASE q \in Pr(s) /\ t.promises[q] = s.promises[q]
    BY <1>18, <2>2 DEF Good, OkPromises
  <2> QED
    BY <1>21, <2>1, <2>2
<1>25. OkTwins(t)
  <2> SUFFICES ASSUME NEW q \in Pr(t)
               PROVE  Twins(t.promises[q].reactions[FALSE], t.promises[q].reactions[TRUE])
    BY DEF OkTwins
  <2>1. CASE q = n + 1
    <3>1. t.promises[q].reactions[FALSE] = <<>> /\ t.promises[q].reactions[TRUE] = <<>>
      BY <1>4, <1>6, <1>22, <2>1
    <3> QED
      BY <3>1 DEF Twins
  <2>2. CASE q \in Pr(s) /\ t.promises[q] = s.promises[q]
    BY <2>2 DEF Good, OkTwins
  <2> QED
    BY <1>21, <2>1, <2>2
<1>26. \A r \in Pa(s) : t.pairs[r] = s.pairs[r] /\ s.pairs[r].promise \in 1 .. n
  BY <1>13, <1>15, <1>16 DEF Good, OkPairs
<1>27. t.pairs[k + 1].promise = n + 1 /\ ~t.pairs[k + 1].resolved
  BY <1>8, <1>13, <1>15
<1>28. OkPairs(t)
  <2> SUFFICES ASSUME NEW r \in 1 .. k + 1 PROVE t.pairs[r].promise \in 1 .. n + 1
    BY <1>16 DEF OkPairs
  <2>1. r \in 1 .. k \/ r = k + 1
    OBVIOUS
  <2> QED
    BY <1>16, <1>26, <1>27, <2>1
<1>29. Open(t, n + 1) = {k + 1} /\ \A q \in 1 .. n : Open(t, q) = Open(s, q)
  <2>1. \A r \in Pa(t) : r = k + 1 \/ r \in Pa(s)
    BY <1>16
  <2>2. k + 1 \in Pa(t) /\ Pa(s) \subseteq Pa(t) /\ \A q \in 1 .. n : q # n + 1
    BY <1>16
  <2> QED
    BY <1>26, <1>27, <2>1, <2>2 DEF Open
<1>30. In(s.jobs, <<"thenable", n + 1>>) = {}
  <2> SUFFICES ASSUME NEW i \in 1 .. Len(s.jobs), Cls(s.jobs[i]) = <<"thenable", n + 1>> PROVE FALSE
    BY DEF In
  <2>1. OkJob(s, s.jobs[i])
    BY DEF Good, OkJobs
  <2>2. s.jobs[i].type # "reaction" /\ s.jobs[i].promise = n + 1
    BY ClsDiffer DEF Cls
  <2>3. s.jobs[i].promise \in 1 .. n
    BY <1>16, <2>1, <2>2 DEF OkJob, ReactionJobs
  <2> QED
    BY <2>2, <2>3
<1>31. Sole(t)
  <2> SUFFICES ASSUME NEW q \in Pr(t)
               PROVE  /\ t.promises[q].outcome = Pending => Single(Open(t, q), In(t.jobs, <<"thenable", q>>))
                      /\ t.promises[q].outcome # Pending => Open(t, q) = {} /\ In(t.jobs, <<"thenable", q>>) = {}
    BY DEF Sole
  <2>1. CASE q = n + 1
    BY <1>6, <1>15, <1>22, <1>29, <1>30, <2>1 DEF Single
  <2>2. CASE q \in Pr(s) /\ t.promises[q] = s.promises[q]
    BY <1>15, <1>16, <1>29, <2>2 DEF Good, Sole
  <2> QED
    BY <1>21, <2>1, <2>2
<1>32. Good(t)
  BY <1>15, <1>19, <1>20, <1>24, <1>25, <1>28, <1>31 DEF Good
<1>33. ASSUME NEW h PROVE Keeps(s, t, h)
  <2>1. Due(t, h) = Due(s, h)
    BY <1>15 DEF Due
  <2>2. \A z : z \in Waits(t, h) <=> z \in Waits(s, h)
    <3>a. Pr(s) \subseteq Pr(t)
      BY <1>16
    <3>b. \A z : z \in Waits(s, h) \/ z \in Waits(t, h) => z \in Pr(t) \X Nat
      BY <3>a DEF Waits
    <3> SUFFICES ASSUME NEW z, z \in Pr(t) \X Nat PROVE z \in Waits(t, h) <=> z \in Waits(s, h)
      BY <3>b
    <3>1. CASE z[1] = n + 1
      <4>0. t.promises[z[1]] = x
        BY <1>22, <3>1
      <4>1. 1 .. Len(t.promises[z[1]].reactions[FALSE]) = {}
        <5>1. x.reactions[FALSE] = <<>>
          BY <1>4, <1>6
        <5>2. 1 .. Len(<<>>) = {}
          OBVIOUS
        <5> QED
          BY <4>0, <5>1, <5>2
      <4>2. z[1] \notin Pr(s)
        BY <1>16, <3>1
      <4> QED
        BY <4>1, <4>2 DEF Waits
    <3>2. CASE z[1] \in Pr(s) /\ t.promises[z[1]] = s.promises[z[1]]
      BY <3>2 DEF Waits
    <3> QED
      BY <1>21, <3>1, <3>2
  <2>3. Waits(t, h) = Waits(s, h)
    BY <2>2
  <2> QED
    BY <2>1, <2>3 DEF Keeps, Never, Once
<1>34. Newest(t) \in Pr(t) /\ NewestPair(t) \in Pa(t)
  BY <1>12, <1>13, <1>15, <1>16 DEF Newest, NewestPair
<1> QED
  BY <1>1, <1>2, <1>12, <1>13, <1>15, <1>17, <1>27, <1>32, <1>33, <1>34 DEF IsNew, Quiet

\* One promise is given other reactions, or a note of whose outcome it repeats.
Changes(s, p, x, t) ==
  /\ Good(s) /\ p \in Pr(s)
  /\ x \in AnyPromise /\ x.outcome = s.promises[p].outcome
  /\ \A b \in BOOLEAN : \A i \in 1 .. Len(x.reactions[b]) : OkReaction(s, x.reactions[b][i])
  /\ Twins(x.reactions[FALSE], x.reactions[TRUE])
  /\ t = [s EXCEPT !.promises = [@ EXCEPT ![p] = x]]

\* The places on p where h waits.
WaitsOn(x, p, h) ==
  {y \in {p} \X Nat : y[2] \in 1 .. Len(x.reactions[FALSE]) /\ x.reactions[FALSE][y[2]].handler = h}

AfterChange(s, p, x, t) ==
  /\ Good(t) /\ Grows(s, t) /\ Pr(t) = Pr(s) /\ Pa(t) = Pa(s)
  /\ t.pairs = s.pairs /\ t.jobs = s.jobs /\ t.groups = s.groups
  /\ t.promises[p] = x
  /\ \A h : Due(t, h) = Due(s, h)
  /\ \A h, y : y \in Waits(t, h) <=> y \in WaitsOn(x, p, h) \/ (y \in Waits(s, h) /\ y[1] # p)

\* A change of one promise that leaves its outcome alone.
LEMMA ChangeOk ==
  ASSUME NEW s, NEW p, NEW x, NEW t, Changes(s, p, x, t)
  PROVE  AfterChange(s, p, x, t)
<1>1. /\ Good(s) /\ p \in Pr(s) /\ x \in AnyPromise /\ x.outcome = s.promises[p].outcome
      /\ \A b \in BOOLEAN : \A i \in 1 .. Len(x.reactions[b]) : OkReaction(s, x.reactions[b][i])
      /\ Twins(x.reactions[FALSE], x.reactions[TRUE])
  BY DEF Changes
<1>2. PICK P : P = [s.promises EXCEPT ![p] = x]
  OBVIOUS
<1>3. s \in AnyEngine /\ s.promises \in Seq(AnyPromise) /\ p \in 1 .. Len(s.promises)
  BY <1>1 DEF Good, AnyEngine, Pr
<1>4. /\ P \in Seq(AnyPromise) /\ Len(P) = Len(s.promises) /\ P[p] = x
      /\ \A q \in 1 .. Len(s.promises) : q # p => P[q] = s.promises[q]
  BY <1>1, <1>2, <1>3, SeqExcept
<1>5. t = [s EXCEPT !.promises = P]
  BY <1>2 DEF Changes
<1>6. /\ t \in AnyEngine /\ t.promises = P /\ t.pairs = s.pairs /\ t.jobs = s.jobs
      /\ t.asyncs = s.asyncs /\ t.groups = s.groups
  BY <1>3, <1>4, <1>5 DEF AnyEngine
<1>7. /\ More(s, t) /\ Grows(s, t) /\ Pr(t) = Pr(s) /\ Pa(t) = Pa(s)
      /\ OkAsyncs(t) /\ OkGroups(t)
  BY <1>1, <1>4, <1>6, RestOk
<1>8. /\ \A z : OkOutcome(s, z) => OkOutcome(t, z)
      /\ \A z : OkReaction(s, z) => OkReaction(t, z)
      /\ \A z : OkJob(s, z) => OkJob(t, z)
  BY <1>3, <1>6, <1>7, MoreOk
<1>9. t.promises[p] = x /\ \A q \in Pr(s) : q # p => t.promises[q] = s.promises[q]
  BY <1>4, <1>6 DEF Pr
<1>10. OkPromises(t)
  <2> SUFFICES ASSUME NEW q \in Pr(s)
               PROVE  /\ t.promises[q].outcome = Pending \/ OkOutcome(t, t.promises[q].outcome)
                      /\ \A b \in BOOLEAN : \A i \in 1 .. Len(t.promises[q].reactions[b]) :
                           OkReaction(t, t.promises[q].reactions[b][i])
    BY <1>7 DEF OkPromises
  <2>1. CASE q = p
    BY <1>1, <1>8, <1>9, <2>1 DEF Good, OkPromises
  <2>2. CASE q # p
    BY <1>1, <1>8, <1>9, <2>2 DEF Good, OkPromises
  <2> QED
    BY <2>1, <2>2
<1>11. OkTwins(t)
  BY <1>1, <1>7, <1>9 DEF OkTwins, Good
<1>12. OkJobs(t)
  BY <1>1, <1>6, <1>8 DEF OkJobs, Good
<1>13. OkPairs(t)
  BY <1>1, <1>6, <1>7 DEF OkPairs, Good
<1>14. Sole(t)
  <2>1. \A q \in Pr(s) : t.promises[q].outcome = s.promises[q].outcome
    BY <1>1, <1>9
  <2>2. \A q : Open(t, q) = Open(s, q)
    BY <1>6, <1>7 DEF Open
  <2> QED
    BY <1>1, <1>6, <1>7, <2>1, <2>2 DEF Sole, Good
<1>15. \A h : Due(t, h) = Due(s, h)
  BY <1>6 DEF Due
<1>16. ASSUME NEW h, NEW y
       PROVE  y \in Waits(t, h) <=> y \in WaitsOn(x, p, h) \/ (y \in Waits(s, h) /\ y[1] # p)
  <2>1. y \in Waits(t, h) \/ y \in WaitsOn(x, p, h) \/ y \in Waits(s, h) => y \in Pr(s) \X Nat
    BY <1>1, <1>7 DEF Waits, WaitsOn
  <2>2. CASE y \in Pr(s) \X Nat /\ y[1] = p
    BY <1>7, <1>9, <2>2 DEF Waits, WaitsOn
  <2>3. CASE y \in Pr(s) \X Nat /\ y[1] # p
    BY <1>7, <1>9, <2>3 DEF Waits, WaitsOn
  <2> QED
    BY <2>1, <2>2, <2>3
<1> QED
  BY <1>6, <1>7, <1>9, <1>10, <1>11, <1>12, <1>13, <1>14, <1>15, <1>16 DEF AfterChange, Good

\* When it keeps its reactions, nothing is resumed more or less often.
LEMMA ChangeQuiet ==
  ASSUME NEW s, NEW p, NEW x, NEW t, AfterChange(s, p, x, t), Good(s), p \in Pr(s),
         x.reactions = s.promises[p].reactions
  PROVE  Quiet(s, t)
<1>1. ASSUME NEW h PROVE Keeps(s, t, h)
  <2>1. \A y : y \in Waits(s, h) /\ y[1] = p <=> y \in WaitsOn(x, p, h)
    BY DEF Waits, WaitsOn
  <2>2. \A y : y \in Waits(t, h) <=> y \in WaitsOn(x, p, h) \/ (y \in Waits(s, h) /\ y[1] # p)
    BY DEF AfterChange
  <2>3. Waits(t, h) = Waits(s, h)
    BY <2>1, <2>2
  <2>4. Due(t, h) = Due(s, h)
    BY DEF AfterChange
  <2> QED
    BY <2>3, <2>4 DEF Keeps, Never, Once
<1> QED
  BY <1>1 DEF Quiet, AfterChange

\* A reaction job at the end of the list.
Enqueues(s, job, t) ==
  Good(s) /\ OkJob(s, job) /\ job \in ReactionJobs /\ t = JS_EnqueueJob(s, job)
AfterEnqueue(s, job, t) ==
  /\ Good(t) /\ Grows(s, t) /\ Pr(t) = Pr(s) /\ Pa(t) = Pa(s)
  /\ t.pairs = s.pairs /\ t.promises = s.promises /\ t.groups = s.groups
  /\ \A h : Waits(t, h) = Waits(s, h)
  /\ \A h : h # job.reaction.handler => Due(t, h) = Due(s, h)
  /\ Due(t, job.reaction.handler) = Due(s, job.reaction.handler) \cup {Len(s.jobs) + 1}

\* JS_EnqueueJob with a reaction: what it resumes is due once more.
LEMMA EnqueueOk ==
  ASSUME NEW s, NEW job, NEW t, Enqueues(s, job, t)
  PROVE  AfterEnqueue(s, job, t)
<1>1. Good(s) /\ OkJob(s, job) /\ job \in ReactionJobs /\ t = JS_EnqueueJob(s, job)
  BY DEF Enqueues
<1>2. s \in AnyEngine /\ s.jobs \in Seq(Jobs) /\ job \in Jobs
  BY <1>1 DEF Good, AnyEngine, Jobs
<1>3. PICK jobs : jobs = Append(s.jobs, job)
  OBVIOUS
<1>4. jobs \in Seq(Jobs) /\ Len(jobs) = Len(s.jobs) + 1 /\ jobs[Len(s.jobs) + 1] = job
      /\ \A i \in 1 .. Len(s.jobs) : jobs[i] = s.jobs[i]
  BY <1>2, <1>3, SeqAppend
<1>5. t = [s EXCEPT !.jobs = jobs]
  BY <1>1, <1>3 DEF JS_EnqueueJob
<1>6. /\ t \in AnyEngine /\ t.jobs = jobs /\ t.promises = s.promises /\ t.pairs = s.pairs
      /\ t.asyncs = s.asyncs /\ t.groups = s.groups
  BY <1>2, <1>4, <1>5 DEF AnyEngine
<1>7. /\ More(s, t) /\ Grows(s, t) /\ Pr(t) = Pr(s) /\ Pa(t) = Pa(s)
      /\ OkAsyncs(t) /\ OkGroups(t)
  BY <1>1, <1>6, RestOk
<1>8. OkPromises(t) /\ OkTwins(t)
  BY <1>1, <1>6, <1>7, SamePromises
<1>9. OkJobs(t)
  <2>1. \A z : OkJob(s, z) => OkJob(t, z)
    BY <1>2, <1>6, <1>7, MoreOk
  <2>2. \A i \in 1 .. Len(s.jobs) : OkJob(t, jobs[i])
    BY <1>1, <1>4, <2>1 DEF OkJobs, Good
  <2>3. OkJob(t, job)
    BY <1>1, <2>1
  <2>4. Len(s.jobs) \in Nat
    BY <1>2
  <2> QED
    BY <1>4, <1>6, <2>2, <2>3, <2>4 DEF OkJobs
<1>10. OkPairs(t) /\ \A q : Open(t, q) = Open(s, q)
  BY <1>1, <1>6, <1>7 DEF OkPairs, Open, Good
<1>11. Added(s.jobs, job, jobs)
  BY <1>2, <1>3 DEF Added
<1>12. PICK d : d = Cls(job)
  OBVIOUS
<1>13. d = <<"reaction", job.reaction.handler>>
  BY <1>1, <1>12 DEF Cls, ReactionJobs
<1>14. In(jobs, d) = In(s.jobs, d) \cup {Len(s.jobs) + 1} /\ \A c : c # d => In(jobs, c) = In(s.jobs, c)
  BY <1>11, <1>12, InAppend
<1>15. \A q : In(jobs, <<"thenable", q>>) = In(s.jobs, <<"thenable", q>>)
  BY <1>13, <1>14, ClsDiffer
<1>16. Sole(t)
  BY <1>1, <1>6, <1>7, <1>10, <1>15 DEF Sole, Good
<1>17. \A h : Waits(t, h) = Waits(s, h)
  BY <1>6, <1>7 DEF Waits
<1>18. \A h : h # job.reaction.handler => Due(t, h) = Due(s, h)
  BY <1>6, <1>13, <1>14, ClsDiffer DEF Due
<1>19. Due(t, job.reaction.handler) = Due(s, job.reaction.handler) \cup {Len(s.jobs) + 1}
  BY <1>6, <1>13, <1>14 DEF Due
<1> QED
  BY <1>6, <1>7, <1>8, <1>9, <1>10, <1>16, <1>17, <1>18, <1>19 DEF AfterEnqueue, Good

\* perform_promise_then: a reaction with handlers f and g on p.
Registers(s, p, f, g, cap, t) ==
  /\ Good(s) /\ p \in Pr(s) /\ OkHandler(s, f) /\ OkHandler(s, g) /\ (cap = None \/ cap \in Pa(s))
  /\ IsWaker(f) \/ IsWaker(g) => f = g
  /\ t = perform_promise_then(s, p, f, g, cap)

AfterThen(s, f, t) ==
  /\ Good(t) /\ Grows(s, t) /\ Pr(t) = Pr(s) /\ Pa(t) = Pa(s)
  /\ t.pairs = s.pairs /\ t.groups = s.groups
  /\ \A h \in AnyHandler : IsWaker(h) /\ h # f => Keeps(s, t, h)
  /\ IsWaker(f) /\ Never(s, f) => Once(t, f)

\* The reaction data.
Reaction(p, n, cap, h) == [on |-> p, n |-> n, cap |-> cap, handler |-> h]

\* perform_promise_then: a reaction waits, or is due at once.
LEMMA ThenOk ==
  ASSUME NEW s, NEW p, NEW f, NEW g, NEW cap, NEW t, Registers(s, p, f, g, cap, t)
  PROVE  AfterThen(s, f, t)
<1>1. /\ Good(s) /\ p \in Pr(s) /\ OkHandler(s, f) /\ OkHandler(s, g) /\ (cap = None \/ cap \in Pa(s))
      /\ IsWaker(f) \/ IsWaker(g) => f = g
  BY DEF Registers
<1>2. /\ s \in AnyEngine /\ s.promises \in Seq(AnyPromise) /\ p \in 1 .. Len(s.promises)
      /\ s.promises[p] \in AnyPromise /\ p \in Nat /\ f \in AnyHandler /\ g \in AnyHandler
      /\ cap \in Nat \cup {None}
  BY <1>1 DEF Good, AnyEngine, Pr, Pa, OkHandler
<1>3. PICK old : old = s.promises[p]
  OBVIOUS
<1>4. PICK n : n = old.thens + 1
  OBVIOUS
<1>5. old \in AnyPromise /\ n \in Nat
  BY <1>2, <1>3, <1>4 DEF AnyPromise
<1>6. PICK F : F = Reaction(p, n, cap, f)
  OBVIOUS
<1>7. PICK G : G = Reaction(p, n, cap, g)
  OBVIOUS
<1>8. /\ F \in AnyReaction /\ F.handler = f /\ F.cap = cap
      /\ G \in AnyReaction /\ G.handler = g /\ G.cap = cap
  BY <1>2, <1>5, <1>6, <1>7 DEF AnyReaction, Reaction
<1>9. OkReaction(s, F) /\ OkReaction(s, G)
  BY <1>1, <1>8 DEF OkReaction
<1>10. PICK rd : rd = [b \in BOOLEAN |-> [on |-> p, n |-> n, cap |-> cap, handler |-> IF b THEN g ELSE f]]
  OBVIOUS
<1>11. rd[FALSE] = F /\ rd[TRUE] = G
  BY <1>6, <1>7, <1>10 DEF Reaction
<1>12. PICK w : w = [old EXCEPT !.thens = n]
  OBVIOUS
<1>13. w \in AnyPromise /\ w.outcome = old.outcome /\ w.reactions = old.reactions
  BY <1>5, <1>12 DEF AnyPromise
<1>14. PICK u : u = [s EXCEPT !.promises = [@ EXCEPT ![p] = w]]
  OBVIOUS
<1>15. u = [s EXCEPT !.promises[p].thens = n]
  BY <1>3, <1>12, <1>14
<1>16. u.promises = [s.promises EXCEPT ![p] = w] /\ u.promises[p] = w
  BY <1>2, <1>14 DEF AnyEngine
<1>17. CASE old.outcome # Pending
  <2>1. Changes(s, p, w, u)
    BY <1>1, <1>3, <1>13, <1>14 DEF Changes, Good, OkPromises, OkTwins
  <2>2. AfterChange(s, p, w, u)
    BY <2>1, ChangeOk
  <2>3. Quiet(s, u)
    BY <1>1, <1>3, <1>13, <2>2, ChangeQuiet
  <2>4. PICK o : o = old.outcome
    OBVIOUS
  <2>5. PICK R : R = rd[o.reject]
    OBVIOUS
  <2>6. o \in AnyOutcome /\ OkOutcome(s, o)
    BY <1>1, <1>3, <1>5, <1>17, <2>4 DEF Good, OkPromises, AnyPromise
  <2>7. R = F \/ R = G
    <3>1. o.reject \in BOOLEAN
      BY <2>6 DEF AnyOutcome
    <3> QED
      BY <1>11, <2>5, <3>1
  <2>8. PICK job : job = ReactionJob(R, o)
    OBVIOUS
  <2>9. job \in ReactionJobs /\ job.reaction = R /\ job.outcome = o
    BY <1>8, <2>6, <2>7, <2>8 DEF ReactionJobs, ReactionJob
  <2>10. Good(u) /\ Grows(s, u) /\ Pr(u) = Pr(s) /\ Pa(u) = Pa(s) /\ u.pairs = s.pairs /\ u.groups = s.groups
    BY <2>2 DEF AfterChange
  <2>11. OkJob(u, job)
    <3>1. More(s, u) /\ s \in AnyEngine /\ u \in AnyEngine
      BY <1>1, <2>10, GrowsMore DEF Good
    <3>2. OkReaction(u, R) /\ OkOutcome(u, o)
      BY <1>9, <2>6, <2>7, <3>1, MoreOk
    <3> QED
      BY <2>9, <3>2 DEF OkJob
  <2>12. t = JS_EnqueueJob(u, job)
    BY <1>3, <1>4, <1>10, <1>15, <1>17, <2>4, <2>5, <2>8 DEF Registers, perform_promise_then
  <2>13. AfterEnqueue(u, job, t)
    BY <2>9, <2>10, <2>11, <2>12, EnqueueOk DEF Enqueues
  <2>14. PICK k : k = R.handler
    OBVIOUS
  <2>15. /\ Good(t) /\ Grows(u, t) /\ Pr(t) = Pr(u) /\ Pa(t) = Pa(u)
         /\ t.pairs = u.pairs /\ t.groups = u.groups
         /\ \A h : Waits(t, h) = Waits(u, h)
         /\ \A h : h # k => Due(t, h) = Due(u, h)
         /\ Due(t, k) = Due(u, k) \cup {Len(u.jobs) + 1}
    BY <2>9, <2>13, <2>14 DEF AfterEnqueue
  <2>16. k = f \/ k = g
    BY <1>8, <2>7, <2>14
  <2>17. ASSUME NEW h \in AnyHandler, IsWaker(h), h # f PROVE Keeps(s, t, h)
    <3>1. h # k
      BY <1>1, <2>16, <2>17
    <3>2. Waits(t, h) = Waits(u, h) /\ Due(t, h) = Due(u, h)
      BY <2>15, <3>1
    <3>3. Keeps(s, u, h)
      BY <2>3, <2>17 DEF Quiet
    <3> QED
      BY <3>2, <3>3 DEF Keeps, Never, Once
  <2>18. ASSUME IsWaker(f), Never(s, f) PROVE Once(t, f)
    <3>1. k = f
      BY <1>1, <2>16, <2>18
    <3>2. Never(u, f)
      BY <1>2, <2>3, <2>18 DEF Quiet, Keeps
    <3>3. Waits(t, f) = {} /\ Due(t, f) = {Len(u.jobs) + 1}
      BY <2>15, <3>1, <3>2 DEF Never
    <3> QED
      BY <3>3 DEF Once, Single
  <2>19. Grows(s, t)
    <3>1. t.asyncs = s.asyncs /\ t.groups = s.groups /\ t.pairs = s.pairs /\ t.promises = u.promises
      BY <2>10, <2>13, <2>15 DEF AfterEnqueue, Grows
    <3> QED
      BY <2>10, <3>1 DEF Grows
  <2> QED
    BY <2>10, <2>15, <2>17, <2>18, <2>19 DEF AfterThen
<1>18. CASE old.outcome = Pending
  <2>1. PICK A : A = old.reactions[FALSE]
    OBVIOUS
  <2>2. PICK B : B = old.reactions[TRUE]
    OBVIOUS
  <2>3. A \in Seq(AnyReaction) /\ B \in Seq(AnyReaction)
    BY <1>5, <2>1, <2>2 DEF AnyPromise
  <2>4. PICK e : e = [b \in BOOLEAN |-> Append(old.reactions[b], rd[b])]
    OBVIOUS
  <2>5. PICK C : C = Append(A, F)
    OBVIOUS
  <2>6. PICK D : D = Append(B, G)
    OBVIOUS
  <2>7. e[FALSE] = C /\ e[TRUE] = D /\ DOMAIN e = BOOLEAN /\ e = [b \in BOOLEAN |-> e[b]]
    BY <1>11, <2>1, <2>2, <2>4, <2>5, <2>6
  <2>8. C \in Seq(AnyReaction) /\ Len(C) = Len(A) + 1 /\ C[Len(A) + 1] = F /\ \A j \in 1 .. Len(A) : C[j] = A[j]
    BY <1>8, <2>3, <2>5, SeqAppend
  <2>9. D \in Seq(AnyReaction) /\ Len(D) = Len(B) + 1 /\ D[Len(B) + 1] = G /\ \A j \in 1 .. Len(B) : D[j] = B[j]
    BY <1>8, <2>3, <2>6, SeqAppend
  <2>10. \A b \in BOOLEAN : b = FALSE \/ b = TRUE
    OBVIOUS
  <2>11. e \in [BOOLEAN -> Seq(AnyReaction)]
    BY <2>7, <2>8, <2>9, <2>10
  <2>12. PICK x : x = [w EXCEPT !.reactions = e]
    OBVIOUS
  <2>13. x \in AnyPromise /\ x.outcome = old.outcome /\ x.reactions = e
    BY <1>13, <2>11, <2>12 DEF AnyPromise
  <2>14. PICK m \in Nat : m = Len(A)
    BY <2>3
  <2>15. Twins(A, B)
    BY <1>1, <1>3, <2>1, <2>2 DEF Good, OkTwins
  <2>16. Len(B) = m
    BY <2>14, <2>15 DEF Twins
  <2>17. \A i \in 1 .. m + 1 : i \in 1 .. m \/ i = m + 1
    OBVIOUS
  <2>18. Twins(C, D)
    <3>1. \A i \in 1 .. m : IsWaker(C[i].handler) \/ IsWaker(D[i].handler) => C[i].handler = D[i].handler
      BY <2>8, <2>9, <2>14, <2>15, <2>16 DEF Twins
    <3>2. IsWaker(C[m + 1].handler) \/ IsWaker(D[m + 1].handler) => C[m + 1].handler = D[m + 1].handler
      BY <1>1, <1>8, <2>8, <2>9, <2>14, <2>16
    <3> QED
      BY <2>8, <2>9, <2>14, <2>16, <2>17, <3>1, <3>2 DEF Twins
  <2>19. (\A i \in 1 .. m : OkReaction(s, A[i])) /\ \A i \in 1 .. m : OkReaction(s, B[i])
    BY <1>1, <1>3, <2>1, <2>2, <2>14, <2>16 DEF Good, OkPromises
  <2>20. (\A i \in 1 .. Len(C) : OkReaction(s, C[i])) /\ \A i \in 1 .. Len(D) : OkReaction(s, D[i])
    BY <1>9, <2>8, <2>9, <2>14, <2>16, <2>17, <2>19
  <2>21. \A b \in BOOLEAN : \A i \in 1 .. Len(x.reactions[b]) : OkReaction(s, x.reactions[b][i])
    BY <2>7, <2>10, <2>13, <2>20
  <2>22. t = [u EXCEPT !.promises[p].reactions = e]
    <3>1. t = [u EXCEPT !.promises[p].reactions = [b \in BOOLEAN |-> Append(@[b], rd[b])]]
      BY <1>3, <1>4, <1>10, <1>15, <1>18 DEF Registers, perform_promise_then
    <3>2. u.promises[p].reactions = old.reactions
      BY <1>13, <1>16
    <3>3. [b \in BOOLEAN |-> Append(u.promises[p].reactions[b], rd[b])] = e
      BY <2>4, <3>2
    <3> QED
      BY <3>1, <3>3
  <2>23. t = [s EXCEPT !.promises = [@ EXCEPT ![p] = x]]
    <3>1. t = [u EXCEPT !.promises = [@ EXCEPT ![p] = x]]
      BY <1>16, <2>12, <2>22
    <3>2. PICK P : P = [s.promises EXCEPT ![p] = x]
      OBVIOUS
    <3>3. [u.promises EXCEPT ![p] = x] = P
      BY <1>2, <1>16, <3>2
    <3>4. t = [u EXCEPT !.promises = P]
      BY <3>1, <3>3
    <3>5. t = [s EXCEPT !.promises = P]
      BY <1>2, <1>14, <3>4 DEF AnyEngine
    <3> QED
      BY <3>2, <3>5
  <2>24. Changes(s, p, x, t)
    BY <1>1, <1>3, <2>7, <2>13, <2>18, <2>21, <2>23 DEF Changes
  <2>25. AfterChange(s, p, x, t)
    BY <2>24, ChangeOk
  <2>26. /\ \A h : Due(t, h) = Due(s, h)
         /\ \A h, y : y \in Waits(t, h) <=> y \in WaitsOn(x, p, h) \/ (y \in Waits(s, h) /\ y[1] # p)
    BY <2>25 DEF AfterChange
  <2>27. \A h, y : y \in WaitsOn(x, p, h) <=> (y = <<p, m + 1>> /\ f = h) \/ (y \in Waits(s, h) /\ y[1] = p)
    <3> SUFFICES ASSUME NEW h, NEW y
                 PROVE  y \in WaitsOn(x, p, h) <=> (y = <<p, m + 1>> /\ f = h) \/ (y \in Waits(s, h) /\ y[1] = p)
      OBVIOUS
    <3>1. y \in WaitsOn(x, p, h) <=> y \in {p} \X Nat /\ y[2] \in 1 .. m + 1 /\ C[y[2]].handler = h
      BY <2>7, <2>8, <2>13, <2>14 DEF WaitsOn
    <3>2. y \in Waits(s, h) /\ y[1] = p <=> y \in {p} \X Nat /\ y[2] \in 1 .. m /\ A[y[2]].handler = h
      BY <1>1, <1>3, <2>1, <2>14 DEF Waits
    <3>3. y = <<p, m + 1>> <=> y \in {p} \X Nat /\ y[2] = m + 1
      OBVIOUS
    <3>4. \A i \in 1 .. m + 1 : C[i].handler = h <=> (i = m + 1 /\ f = h) \/ (i \in 1 .. m /\ A[i].handler = h)
      BY <1>8, <2>8, <2>14
    <3>5. m + 1 \in 1 .. m + 1 /\ \A i \in 1 .. m : i \in 1 .. m + 1
      OBVIOUS
    <3> QED
      BY <3>1, <3>2, <3>3, <3>4, <3>5
  <2>28. ASSUME NEW h, h # f PROVE Keeps(s, t, h)
    <3>1. \A y : y \in Waits(t, h) <=> y \in Waits(s, h)
      BY <2>26, <2>27, <2>28
    <3>2. Waits(t, h) = Waits(s, h)
      BY <3>1
    <3> QED
      BY <2>26, <3>2 DEF Keeps, Never, Once
  <2>29. ASSUME Never(s, f) PROVE Once(t, f)
    <3>1. Waits(t, f) = {<<p, m + 1>>}
      <4>1. \A y : y \in Waits(t, f) <=> y = <<p, m + 1>>
        BY <2>26, <2>27, <2>29 DEF Never
      <4> QED
        BY <4>1
    <3>2. Due(t, f) = {}
      BY <2>26, <2>29 DEF Never
    <3> QED
      BY <3>1, <3>2 DEF Once, Single
  <2> QED
    BY <2>25, <2>28, <2>29 DEF AfterThen, AfterChange
<1> QED
  BY <1>17, <1>18

-----------------------------------------------------------------------------
(* What is made of the operations *)

\* What was there, or in order, still is.
LEMMA Later ==
  ASSUME NEW s, NEW t, Good(s), Good(t), Grows(s, t)
  PROVE  /\ \A o : OkOutcome(s, o) => OkOutcome(t, o)
         /\ \A h : OkHandler(s, h) => OkHandler(t, h)
         /\ \A r : OkReaction(s, r) => OkReaction(t, r)
         /\ Pr(s) \subseteq Pr(t) /\ Pa(s) \subseteq Pa(t) /\ As(s) \subseteq As(t) /\ Gr(s) \subseteq Gr(t)
<1>1. More(s, t) /\ s \in AnyEngine /\ t \in AnyEngine
  BY GrowsMore DEF Good
<1>2. \A o : OkOutcome(s, o) => OkOutcome(t, o)
  BY <1>1, MoreOk
<1>3. \A h : OkHandler(s, h) => OkHandler(t, h)
  BY <1>1, MoreOk
<1>4. \A r : OkReaction(s, r) => OkReaction(t, r)
  BY <1>1, MoreOk
<1>5. Pr(s) \subseteq Pr(t) /\ Pa(s) \subseteq Pa(t) /\ As(s) \subseteq As(t) /\ Gr(s) \subseteq Gr(t)
  BY <1>1, MoreIn
<1> QED
  BY <1>2, <1>3, <1>4, <1>5

\* A reaction that resumes nothing is quiet.
LEMMA ThenQuiet ==
  ASSUME NEW s, NEW f, NEW t, AfterThen(s, f, t), ~IsWaker(f)
  PROVE  Good(t) /\ Quiet(s, t)
BY DEF AfterThen, Quiet

\* The handlers of the script and of the engine.
LEMMA HandlersOk ==
  ASSUME NEW s, Good(s)
  PROVE  /\ \A k \in {"undefined", "script", "finally"} :
              OkHandler(s, Handler(k, None)) /\ ~IsWaker(Handler(k, None))
         /\ \A k \in {"resolve", "reject"} : \A r \in Pa(s) :
              OkHandler(s, Handler(k, r)) /\ ~IsWaker(Handler(k, r))
         /\ \A g \in Gr(s), i \in Nat :
              OkHandler(s, Handler("element", <<g, i>>)) /\ ~IsWaker(Handler("element", <<g, i>>))
         /\ \A o : OkOutcome(s, o) => OkHandler(s, Handler("thunk", o)) /\ ~IsWaker(Handler("thunk", o))
         /\ \A a \in As(s) : OkHandler(s, Handler("resume", a)) /\ IsWaker(Handler("resume", a))
         /\ \A w \in {"await", "return"} : OkHandler(s, Handler("generator", w)) /\ IsWaker(Handler("generator", w))
<1>1. Pa(s) \subseteq Nat /\ As(s) \subseteq Nat /\ Gr(s) \subseteq Nat
  BY DEF Pa, As, Gr
<1>3. /\ Nat \subseteq AnyOf /\ None \in AnyOf /\ "await" \in AnyOf /\ "return" \in AnyOf
      /\ (Nat \X Nat) \subseteq AnyOf /\ AnyOutcome \subseteq AnyOf
  BY DEF AnyOf
<1>4. ASSUME NEW k \in {"undefined", "script", "finally"}
      PROVE  OkHandler(s, Handler(k, None)) /\ ~IsWaker(Handler(k, None))
  <2>1. PICK h : h = Handler(k, None)
    OBVIOUS
  <2>x. None \in AnyOf
    BY <1>3
  <2>2. h \in AnyHandler /\ h.kind = k
    BY <2>x, <2>1 DEF Handler, AnyHandler, Kinds
  <2> QED
    BY <2>1, <2>2 DEF OkHandler, IsWaker
<1>5. ASSUME NEW k \in {"resolve", "reject"}, NEW r \in Pa(s)
      PROVE  OkHandler(s, Handler(k, r)) /\ ~IsWaker(Handler(k, r))
  <2>1. PICK h : h = Handler(k, r)
    OBVIOUS
  <2>x. r \in AnyOf
    BY <1>1, <1>3
  <2>2. h \in AnyHandler /\ h.kind = k /\ h.of = r
    BY <2>x, <2>1 DEF Handler, AnyHandler, Kinds
  <2> QED
    BY <2>1, <2>2 DEF OkHandler, IsWaker
<1>6. ASSUME NEW g \in Gr(s), NEW i \in Nat
      PROVE  OkHandler(s, Handler("element", <<g, i>>)) /\ ~IsWaker(Handler("element", <<g, i>>))
  <2>1. PICK x : x = <<g, i>>
    OBVIOUS
  <2>2. x \in Nat \X Nat /\ x[1] \in Gr(s)
    BY <1>1, <2>1
  <2>3. PICK h : h = Handler("element", x)
    OBVIOUS
  <2>x. x \in AnyOf
    BY <1>3, <2>2
  <2>4. h \in AnyHandler /\ h.kind = "element" /\ h.of = x
    BY <2>x, <2>3 DEF Handler, AnyHandler, Kinds
  <2>5. OkHandler(s, h) /\ ~IsWaker(h)
    BY <2>2, <2>4 DEF OkHandler, IsWaker
  <2> QED
    BY <2>1, <2>3, <2>5
<1>7. ASSUME NEW o, OkOutcome(s, o)
      PROVE  OkHandler(s, Handler("thunk", o)) /\ ~IsWaker(Handler("thunk", o))
  <2>1. o \in AnyOutcome
    BY <1>7 DEF OkOutcome
  <2>2. PICK h : h = Handler("thunk", o)
    OBVIOUS
  <2>x. o \in AnyOf
    BY <1>3, <2>1
  <2>3. h \in AnyHandler /\ h.kind = "thunk" /\ h.of = o
    BY <2>x, <2>2 DEF Handler, AnyHandler, Kinds
  <2> QED
    BY <1>7, <2>2, <2>3 DEF OkHandler, IsWaker
<1>8. ASSUME NEW a \in As(s) PROVE OkHandler(s, Handler("resume", a)) /\ IsWaker(Handler("resume", a))
  <2>1. PICK h : h = Handler("resume", a)
    OBVIOUS
  <2>x. a \in AnyOf
    BY <1>1, <1>3
  <2>2. h \in AnyHandler /\ h.kind = "resume" /\ h.of = a
    BY <2>x, <2>1 DEF Handler, AnyHandler, Kinds
  <2> QED
    BY <2>1, <2>2 DEF OkHandler, IsWaker
<1>9. ASSUME NEW w \in {"await", "return"}
      PROVE  OkHandler(s, Handler("generator", w)) /\ IsWaker(Handler("generator", w))
  <2>1. PICK h : h = Handler("generator", w)
    OBVIOUS
  <2>x. w \in AnyOf
    BY <1>3
  <2>2. h \in AnyHandler /\ h.kind = "generator"
    BY <2>x, <2>1 DEF Handler, AnyHandler, Kinds
  <2> QED
    BY <2>1, <2>2 DEF OkHandler, IsWaker
<1> QED
  BY <1>4, <1>5, <1>6, <1>7, <1>8, <1>9

\* Promise.resolve and Promise.reject: a promise.
LEMMA ResolveOk ==
  ASSUME NEW s, Good(s), NEW c, OkOutcome(s, c), NEW x, x = js_promise_resolve(s, c)
  PROVE  Good(x[1]) /\ Quiet(s, x[1]) /\ x[2] \in Pr(x[1])
<1>1. CASE ~c.reject /\ IsPromise(c.value)
  <2>1. x[1] = s /\ x[2] = c.value
    BY <1>1 DEF js_promise_resolve
  <2>2. c.value \in Pr(s)
    BY <1>1, PromiseAssumption DEF IsPromise, Promises, OkOutcome
  <2> QED
    BY <2>1, <2>2, QuietSame
<1>2. CASE ~(~c.reject /\ IsPromise(c.value))
  <2>1. PICK t : t = js_new_promise_capability(s)
    OBVIOUS
  <2>2. IsNew(s, t)
    BY <2>1, NewOk
  <2>3. PICK r : r = NewestPair(t)
    OBVIOUS
  <2>4. PICK u : u = js_promise_resolve_function_call(t, r, c)
    OBVIOUS
  <2>5. x = <<u, Newest(t)>>
    BY <1>2, <2>1, <2>3, <2>4 DEF js_promise_resolve
  <2>6. Good(t) /\ Quiet(s, t) /\ Newest(t) \in Pr(t) /\ r \in Pa(t)
    BY <2>2, <2>3 DEF IsNew
  <2>7. OkOutcome(t, c)
    BY <2>6, Later DEF Quiet
  <2>8. Good(u) /\ Quiet(t, u)
    BY <2>4, <2>6, <2>7, CallOk DEF Calls
  <2>9. Quiet(s, u)
    BY <2>6, <2>8, QuietTrans
  <2>10. Newest(t) \in Pr(u)
    BY <2>6, <2>8, Later DEF Quiet
  <2> QED
    BY <2>5, <2>8, <2>9, <2>10
<1> QED
  BY <1>1, <1>2

\* then: a new promise and a reaction for it.
LEMMA ThenCallOk ==
  ASSUME NEW s, Good(s), NEW p \in Pr(s), NEW f, NEW g, OkHandler(s, f), OkHandler(s, g),
         ~IsWaker(f), ~IsWaker(g), NEW t, t = js_promise_then(s, p, f, g)
  PROVE  Good(t) /\ Quiet(s, t) /\ Newest(t) \in Pr(t) /\ Len(t.promises) = Len(s.promises) + 1
<1>1. PICK u : u = js_new_promise_capability(s)
  OBVIOUS
<1>2. IsNew(s, u)
  BY <1>1, NewOk
<1>3. PICK r : r = NewestPair(u)
  OBVIOUS
<1>4. /\ Good(u) /\ Quiet(s, u) /\ r \in Pa(u) /\ Len(u.promises) = Len(s.promises) + 1
      /\ Newest(u) \in Pr(u)
  BY <1>2, <1>3 DEF IsNew
<1>5. p \in Pr(u) /\ OkHandler(u, f) /\ OkHandler(u, g)
  BY <1>4, Later DEF Quiet
<1>6. t = perform_promise_then(u, p, f, g, r)
  BY <1>1, <1>3 DEF js_promise_then
<1>7. AfterThen(u, f, t)
  BY <1>4, <1>5, <1>6, ThenOk DEF Registers
<1>8. Good(t) /\ Quiet(u, t)
  BY <1>7, ThenQuiet
<1>9. Quiet(s, t)
  BY <1>4, <1>8, QuietTrans
<1>10. Pr(t) = Pr(u)
  BY <1>7 DEF AfterThen
<1>11. Len(t.promises) = Len(u.promises)
  <2>1. Len(t.promises) \in Nat /\ Len(u.promises) \in Nat
    BY <1>4, <1>8 DEF Good, AnyEngine
  <2> QED
    BY <1>10, <2>1 DEF Pr
<1> QED
  BY <1>4, <1>8, <1>9, <1>10, <1>11 DEF Newest

\* The end of a reaction job keeps the state sound.
LEMMA CompleteOk ==
  ASSUME NEW s, Good(s), NEW cap, cap = None \/ cap \in Pa(s), NEW c, OkOutcome(s, c),
         NEW t, t = Complete(s, cap, c)
  PROVE  Good(t) /\ Quiet(s, t)
BY CallOk, QuietSame DEF Complete, Calls

-----------------------------------------------------------------------------
(* The list of jobs *)

AfterTake(s, k, t) ==
  /\ Good(t) /\ Grows(s, t) /\ Pr(t) = Pr(s) /\ Pa(t) = Pa(s) /\ Gr(t) = Gr(s)
  /\ t.promises = s.promises /\ t.pairs = s.pairs /\ t.groups = s.groups /\ t.asyncs = s.asyncs
  /\ \A h : h # k => Keeps(s, t, h)
  /\ ~Never(s, k) /\ (Once(s, k) => Never(t, k))

\* A reaction is taken off the list.
Takes(s, job, t) ==
  /\ Good(s) /\ s.jobs # <<>> /\ job = Head(s.jobs) /\ job.type = "reaction"
  /\ t = [s EXCEPT !.jobs = Tail(@)]

\* JS_ExecutePendingJob: the first reaction is taken off the list.
LEMMA TakeOk ==
  ASSUME NEW s, NEW job, NEW t, Takes(s, job, t)
  PROVE  /\ AfterTake(s, job.reaction.handler, t)
         /\ OkReaction(t, job.reaction) /\ OkOutcome(t, job.outcome)
<1>1. /\ Good(s) /\ s.jobs # <<>> /\ job = Head(s.jobs) /\ job.type = "reaction"
      /\ t = [s EXCEPT !.jobs = Tail(@)]
  BY DEF Takes
<1>2. s \in AnyEngine /\ s.jobs \in Seq(Jobs)
  BY <1>1 DEF Good, AnyEngine
<1>3. PICK jobs : jobs = Tail(s.jobs)
  OBVIOUS
<1>4. PICK n \in Nat : n = Len(s.jobs)
  BY <1>2
<1>5. jobs \in Seq(Jobs) /\ Len(jobs) = n - 1 /\ n > 0 /\ s.jobs[1] = job
      /\ \A i \in 1 .. n - 1 : jobs[i] = s.jobs[i + 1]
  BY <1>1, <1>2, <1>3, <1>4, SeqTail
<1>6. /\ t \in AnyEngine /\ t.jobs = jobs /\ t.promises = s.promises /\ t.pairs = s.pairs
      /\ t.asyncs = s.asyncs /\ t.groups = s.groups
  BY <1>1, <1>2, <1>3, <1>5 DEF AnyEngine
<1>7. /\ More(s, t) /\ Grows(s, t) /\ Pr(t) = Pr(s) /\ Pa(t) = Pa(s)
      /\ OkAsyncs(t) /\ OkGroups(t)
  BY <1>1, <1>6, RestOk
<1>8. OkPromises(t) /\ OkTwins(t)
  BY <1>1, <1>6, <1>7, SamePromises
<1>9. \A z : OkJob(s, z) => OkJob(t, z)
  BY <1>2, <1>6, <1>7, MoreOk
<1>10. \A i \in 1 .. n : OkJob(t, s.jobs[i])
  BY <1>1, <1>4, <1>9 DEF OkJobs, Good
<1>11. OkJobs(t)
  <2>1. \A i \in 1 .. n - 1 : i + 1 \in 1 .. n
    OBVIOUS
  <2> QED
    BY <1>5, <1>6, <1>10, <2>1 DEF OkJobs
<1>12. OkPairs(t) /\ \A q : Open(t, q) = Open(s, q)
  BY <1>1, <1>6, <1>7 DEF OkPairs, Open, Good
<1>13. OkJob(t, job) /\ job \in ReactionJobs /\ OkReaction(t, job.reaction) /\ OkOutcome(t, job.outcome)
  <2>1. OkJob(t, job)
    BY <1>5, <1>10
  <2> QED
    BY <1>1, <2>1 DEF OkJob, ThenableJobs
<1>14. PICK d : d = Cls(job)
  OBVIOUS
<1>15. d = <<"reaction", job.reaction.handler>>
  BY <1>1, <1>14 DEF Cls
<1>16. Taken(s.jobs, jobs)
  BY <1>1, <1>2, <1>3 DEF Taken
<1>17. \A c : /\ In(s.jobs, c) = {} => In(jobs, c) = {}
              /\ In(s.jobs, c) = {1} => In(jobs, c) = {}
              /\ \A y : In(s.jobs, c) = {y} /\ y # 1 => In(jobs, c) = {y - 1}
              /\ d = c <=> 1 \in In(s.jobs, c)
  BY <1>1, <1>14, <1>16, InTail
<1>18. \A c : c # d => /\ In(s.jobs, c) = {} => In(jobs, c) = {}
                       /\ \A y : In(s.jobs, c) = {y} => In(jobs, c) = {y - 1}
  BY <1>17
<1>19. ASSUME NEW X, NEW c, c # d, Single(X, In(s.jobs, c))
       PROVE  Single(X, In(jobs, c))
  BY <1>18, <1>19 DEF Single
<1>20. Sole(t)
  <2> SUFFICES ASSUME NEW q \in Pr(s)
               PROVE  /\ t.promises[q].outcome = Pending => Single(Open(t, q), In(t.jobs, <<"thenable", q>>))
                      /\ t.promises[q].outcome # Pending => Open(t, q) = {} /\ In(t.jobs, <<"thenable", q>>) = {}
    BY <1>7 DEF Sole
  <2>1. PICK c : c = <<"thenable", q>>
    OBVIOUS
  <2>2. c # d
    BY <1>15, <2>1, ClsDiffer
  <2>3. /\ s.promises[q].outcome = Pending => Single(Open(s, q), In(s.jobs, c))
        /\ s.promises[q].outcome # Pending => Open(s, q) = {} /\ In(s.jobs, c) = {}
    BY <1>1, <2>1 DEF Good, Sole
  <2>4. /\ s.promises[q].outcome = Pending => Single(Open(s, q), In(jobs, c))
        /\ s.promises[q].outcome # Pending => Open(s, q) = {} /\ In(jobs, c) = {}
    BY <1>18, <1>19, <2>2, <2>3
  <2> QED
    BY <1>6, <1>12, <2>1, <2>4
<1>21. Good(t)
  BY <1>6, <1>7, <1>8, <1>11, <1>12, <1>20 DEF Good
<1>22. \A h : Waits(t, h) = Waits(s, h)
  BY <1>6, <1>7 DEF Waits
<1>23. ASSUME NEW h, h # job.reaction.handler PROVE Keeps(s, t, h)
  <2>1. PICK c : c = <<"reaction", h>>
    OBVIOUS
  <2>2. c # d
    BY <1>15, <1>23, <2>1, ClsDiffer
  <2>3. Due(s, h) = In(s.jobs, c) /\ Due(t, h) = In(jobs, c)
    BY <1>6, <2>1 DEF Due
  <2> QED
    BY <1>18, <1>19, <1>22, <2>2, <2>3 DEF Keeps, Never, Once
<1>24. PICK k : k = job.reaction.handler
  OBVIOUS
<1>25. Due(s, k) = In(s.jobs, d) /\ Due(t, k) = In(jobs, d)
  BY <1>6, <1>15, <1>24 DEF Due
<1>26. 1 \in In(s.jobs, d)
  BY <1>17
<1>27. ~Never(s, k)
  BY <1>25, <1>26 DEF Never
<1>28. ASSUME Once(s, k) PROVE Never(t, k)
  <2>1. Waits(s, k) = {} /\ In(s.jobs, d) = {1}
    BY <1>25, <1>26, <1>28 DEF Once, Single
  <2> QED
    BY <1>17, <1>22, <1>25, <2>1 DEF Never
<1>29. AfterTake(s, k, t)
  BY <1>6, <1>7, <1>21, <1>23, <1>24, <1>27, <1>28 DEF AfterTake, Gr
<1> QED
  BY <1>13, <1>24, <1>29

\* js_promise_resolve_thenable_job, up to the call of then.
Adopts(s, job, t) ==
  /\ Good(s) /\ s.jobs # <<>> /\ job = Head(s.jobs) /\ job.type = "thenable"
  /\ t = js_create_resolving_functions([s EXCEPT !.jobs = Tail(@)], job.promise)

\* js_promise_resolve_thenable_job: the job's authority over the promise
\* passes to a new pair.
LEMMA AdoptOk ==
  ASSUME NEW s, NEW job, NEW t, Adopts(s, job, t)
  PROVE  /\ Good(t) /\ Quiet(s, t) /\ Pr(t) = Pr(s) /\ NewestPair(t) \in Pa(t)
         /\ job.promise \in Pr(t) /\ (job.thenable = Thenable \/ job.thenable \in Pr(t))
<1>1. /\ Good(s) /\ s.jobs # <<>> /\ job = Head(s.jobs) /\ job.type = "thenable"
      /\ t = js_create_resolving_functions([s EXCEPT !.jobs = Tail(@)], job.promise)
  BY DEF Adopts
<1>2. s \in AnyEngine /\ s.jobs \in Seq(Jobs) /\ s.pairs \in Seq(AnyPair)
  BY <1>1 DEF Good, AnyEngine
<1>3. PICK jobs : jobs = Tail(s.jobs)
  OBVIOUS
<1>4. PICK n \in Nat : n = Len(s.jobs)
  BY <1>2
<1>5. jobs \in Seq(Jobs) /\ Len(jobs) = n - 1 /\ n > 0 /\ s.jobs[1] = job
      /\ \A i \in 1 .. n - 1 : jobs[i] = s.jobs[i + 1]
  BY <1>1, <1>2, <1>3, <1>4, SeqTail
<1>6. PICK p : p = job.promise
  OBVIOUS
<1>7. PICK k \in Nat : k = Len(s.pairs)
  BY <1>2
<1>8. OkJob(s, job)
  BY <1>1, <1>4, <1>5 DEF Good, OkJobs
<1>9. p \in Pr(s) /\ p \in Nat /\ (job.thenable = Thenable \/ job.thenable \in Pr(s))
  BY <1>1, <1>6, <1>8 DEF OkJob, ReactionJobs, Pr
<1>10. PICK y : y = [promise |-> p, resolved |-> FALSE]
  OBVIOUS
<1>11. y \in AnyPair /\ y.promise = p /\ ~y.resolved
  BY <1>9, <1>10 DEF AnyPair
<1>12. PICK Q : Q = Append(s.pairs, y)
  OBVIOUS
<1>13. Q \in Seq(AnyPair) /\ Len(Q) = k + 1 /\ Q[k + 1] = y /\ \A i \in 1 .. k : Q[i] = s.pairs[i]
  BY <1>2, <1>7, <1>11, <1>12, SeqAppend
<1>14. t = [s EXCEPT !.jobs = jobs, !.pairs = Q]
  BY <1>1, <1>3, <1>6, <1>10, <1>12 DEF js_create_resolving_functions
<1>15. /\ t \in AnyEngine /\ t.jobs = jobs /\ t.pairs = Q /\ t.promises = s.promises
       /\ t.asyncs = s.asyncs /\ t.groups = s.groups
  BY <1>2, <1>5, <1>13, <1>14 DEF AnyEngine
<1>16. Pr(t) = Pr(s) /\ Pa(s) = 1 .. k /\ Pa(t) = 1 .. k + 1
  BY <1>7, <1>13, <1>15 DEF Pr, Pa
<1>17. More(s, t) /\ Grows(s, t)
  <2>1. Len(s.asyncs) \in Nat /\ Len(s.groups) \in Nat /\ Len(s.promises) \in Nat
    BY <1>2 DEF AnyEngine
  <2> QED
    BY <1>7, <1>13, <1>15, <2>1 DEF More, Grows
<1>18. OkAsyncs(t) /\ OkGroups(t)
  <2>1. Pa(s) \subseteq Pa(t) /\ As(t) = As(s) /\ Gr(t) = Gr(s)
    BY <1>15, <1>16 DEF As, Gr
  <2>2. OkAsyncs(t)
    BY <1>1, <1>15, <2>1 DEF OkAsyncs, Good
  <2>3. OkGroups(t)
    BY <1>1, <1>15, <1>16, <2>1 DEF OkGroups, Good
  <2> QED
    BY <2>2, <2>3
<1>19. OkPromises(t) /\ OkTwins(t)
  BY <1>1, <1>15, <1>17, SamePromises
<1>20. OkJobs(t)
  <2>1. \A z : OkJob(s, z) => OkJob(t, z)
    BY <1>2, <1>15, <1>17, MoreOk
  <2>2. \A i \in 1 .. n : OkJob(t, s.jobs[i])
    BY <1>1, <1>4, <2>1 DEF OkJobs, Good
  <2>3. \A i \in 1 .. n - 1 : i + 1 \in 1 .. n
    OBVIOUS
  <2> QED
    BY <1>5, <1>15, <2>2, <2>3 DEF OkJobs
<1>21. \A r \in Pa(s) : t.pairs[r] = s.pairs[r] /\ s.pairs[r].promise \in Pr(s)
  BY <1>1, <1>13, <1>15, <1>16 DEF Good, OkPairs
<1>22. t.pairs[k + 1].promise = p /\ ~t.pairs[k + 1].resolved
  BY <1>11, <1>13, <1>15
<1>23. \A r \in Pa(t) : r = k + 1 \/ r \in Pa(s)
  BY <1>16
<1>24. k + 1 \in Pa(t) /\ k + 1 \notin Pa(s) /\ Pa(s) \subseteq Pa(t)
  BY <1>16
<1>25. OkPairs(t)
  BY <1>9, <1>16, <1>21, <1>22, <1>23 DEF OkPairs
<1>26. \A q : q # p => Open(t, q) = Open(s, q)
  BY <1>21, <1>22, <1>23, <1>24 DEF Open
<1>27. Open(t, p) = Open(s, p) \cup {k + 1}
  BY <1>21, <1>22, <1>23, <1>24 DEF Open
<1>28. PICK d : d = Cls(job)
  OBVIOUS
<1>29. d = <<"thenable", p>>
  BY <1>1, <1>6, <1>28 DEF Cls
<1>30. Taken(s.jobs, jobs)
  BY <1>1, <1>2, <1>3 DEF Taken
<1>31. \A c : /\ In(s.jobs, c) = {} => In(jobs, c) = {}
              /\ In(s.jobs, c) = {1} => In(jobs, c) = {}
              /\ \A z : In(s.jobs, c) = {z} /\ z # 1 => In(jobs, c) = {z - 1}
              /\ d = c <=> 1 \in In(s.jobs, c)
  BY <1>1, <1>28, <1>30, InTail
<1>32. \A c : c # d => /\ In(s.jobs, c) = {} => In(jobs, c) = {}
                       /\ \A z : In(s.jobs, c) = {z} => In(jobs, c) = {z - 1}
  BY <1>31
<1>33. ASSUME NEW X, NEW c, c # d, Single(X, In(s.jobs, c))
       PROVE  Single(X, In(jobs, c))
  BY <1>32, <1>33 DEF Single
<1>34. 1 \in In(s.jobs, d)
  BY <1>31
<1>35. s.promises[p].outcome = Pending /\ Open(s, p) = {} /\ In(s.jobs, d) = {1}
  BY <1>1, <1>9, <1>29, <1>34 DEF Good, Sole, Single
<1>36. Sole(t)
  <2> SUFFICES ASSUME NEW q \in Pr(s)
               PROVE  /\ t.promises[q].outcome = Pending => Single(Open(t, q), In(t.jobs, <<"thenable", q>>))
                      /\ t.promises[q].outcome # Pending => Open(t, q) = {} /\ In(t.jobs, <<"thenable", q>>) = {}
    BY <1>16 DEF Sole
  <2>1. CASE q = p
    <3>1. Open(t, p) = {k + 1} /\ In(jobs, d) = {}
      BY <1>27, <1>31, <1>35
    <3> QED
      BY <1>15, <1>29, <1>35, <2>1, <3>1 DEF Single
  <2>2. CASE q # p
    <3>1. PICK c : c = <<"thenable", q>>
      OBVIOUS
    <3>2. c # d
      BY <1>29, <2>2, <3>1, ClsDiffer
    <3>3. /\ s.promises[q].outcome = Pending => Single(Open(s, q), In(s.jobs, c))
          /\ s.promises[q].outcome # Pending => Open(s, q) = {} /\ In(s.jobs, c) = {}
      BY <1>1, <3>1 DEF Good, Sole
    <3>4. /\ s.promises[q].outcome = Pending => Single(Open(s, q), In(jobs, c))
          /\ s.promises[q].outcome # Pending => Open(s, q) = {} /\ In(jobs, c) = {}
      BY <1>32, <1>33, <3>2, <3>3
    <3> QED
      BY <1>15, <1>26, <2>2, <3>1, <3>4
  <2> QED
    BY <2>1, <2>2
<1>37. Good(t)
  BY <1>15, <1>18, <1>19, <1>20, <1>25, <1>36 DEF Good
<1>38. ASSUME NEW h PROVE Keeps(s, t, h)
  <2>1. PICK c : c = <<"reaction", h>>
    OBVIOUS
  <2>2. c # d
    BY <1>29, <2>1, ClsDiffer
  <2>3. Due(s, h) = In(s.jobs, c) /\ Due(t, h) = In(jobs, c)
    BY <1>15, <2>1 DEF Due
  <2>4. Waits(t, h) = Waits(s, h)
    BY <1>15, <1>16 DEF Waits
  <2> QED
    BY <1>32, <1>33, <2>2, <2>3, <2>4 DEF Keeps, Never, Once
<1>39. NewestPair(t) \in Pa(t)
  BY <1>13, <1>15, <1>16 DEF NewestPair
<1> QED
  BY <1>6, <1>9, <1>16, <1>17, <1>37, <1>38, <1>39 DEF Quiet

-----------------------------------------------------------------------------
(* Groups and async functions *)

Regroups(s, G, t) ==
  /\ Good(s) /\ G \in Seq(AnyGroup) /\ Len(s.groups) <= Len(G)
  /\ \A g \in 1 .. Len(G) :
       /\ G[g].pair \in Pa(s)
       /\ \A i \in 1 .. Len(G[g].items) : G[g].items[i] \in Pr(s)
  /\ t = [s EXCEPT !.groups = G]

\* A change of the groups only.
LEMMA GroupsOk ==
  ASSUME NEW s, NEW G, NEW t, Regroups(s, G, t)
  PROVE  /\ Good(t) /\ Quiet(s, t) /\ t.groups = G /\ t.promises = s.promises /\ t.pairs = s.pairs
         /\ Pr(t) = Pr(s) /\ Pa(t) = Pa(s)
<1>1. /\ Good(s) /\ G \in Seq(AnyGroup) /\ Len(s.groups) <= Len(G)
      /\ \A g \in 1 .. Len(G) :
           /\ G[g].pair \in Pa(s)
           /\ \A i \in 1 .. Len(G[g].items) : G[g].items[i] \in Pr(s)
      /\ t = [s EXCEPT !.groups = G]
  BY DEF Regroups
<1>2. s \in AnyEngine
  BY <1>1 DEF Good
<1>3. /\ t \in AnyEngine /\ t.groups = G /\ t.promises = s.promises /\ t.pairs = s.pairs
      /\ t.asyncs = s.asyncs /\ t.jobs = s.jobs
  BY <1>1, <1>2 DEF AnyEngine
<1>4. Pr(t) = Pr(s) /\ Pa(t) = Pa(s) /\ As(t) = As(s)
  BY <1>3 DEF Pr, Pa, As
<1>5. More(s, t) /\ Grows(s, t)
  <2>1. Len(s.promises) \in Nat /\ Len(s.pairs) \in Nat /\ Len(s.asyncs) \in Nat
    BY <1>2 DEF AnyEngine
  <2> QED
    BY <1>1, <1>3, <2>1 DEF More, Grows
<1>6. OkPromises(t) /\ OkTwins(t)
  BY <1>1, <1>3, <1>5, SamePromises
<1>7. OkJobs(t)
  <2>1. \A z : OkJob(s, z) => OkJob(t, z)
    BY <1>2, <1>3, <1>5, MoreOk
  <2> QED
    BY <1>1, <1>3, <2>1 DEF OkJobs, Good
<1>8. OkAsyncs(t) /\ OkPairs(t)
  BY <1>1, <1>3, <1>4 DEF OkAsyncs, OkPairs, Good
<1>9. OkGroups(t)
  BY <1>1, <1>3, <1>4 DEF OkGroups, Gr
<1>10. \A q : Open(t, q) = Open(s, q)
  BY <1>3, <1>4 DEF Open
<1>11. Sole(t)
  BY <1>1, <1>3, <1>4, <1>10 DEF Sole, Good
<1>12. \A h : Waits(t, h) = Waits(s, h) /\ Due(t, h) = Due(s, h)
  BY <1>3, <1>4 DEF Waits, Due
<1>13. \A h : Keeps(s, t, h)
  BY <1>12 DEF Keeps, Never, Once
<1> QED
  BY <1>3, <1>4, <1>5, <1>6, <1>7, <1>8, <1>9, <1>11, <1>13 DEF Good, Quiet

\* The data of the async functions change, or there is one more.
Reasyncs(s, A, t) ==
  /\ Good(s) /\ A \in Seq(AnyAsync) /\ Len(s.asyncs) <= Len(A)
  /\ \A a \in 1 .. Len(A) : A[a].pair \in Pa(s)
  /\ t = [s EXCEPT !.asyncs = A]

\* A change of the async functions only.
LEMMA AsyncsOk ==
  ASSUME NEW s, NEW A, NEW t, Reasyncs(s, A, t)
  PROVE  /\ Good(t) /\ More(s, t) /\ t.asyncs = A /\ t.pairs = s.pairs
         /\ Pr(t) = Pr(s) /\ Pa(t) = Pa(s) /\ Gr(t) = Gr(s)
         /\ \A h : (Never(t, h) <=> Never(s, h)) /\ (Once(t, h) <=> Once(s, h))
<1>1. /\ Good(s) /\ A \in Seq(AnyAsync) /\ Len(s.asyncs) <= Len(A)
      /\ \A a \in 1 .. Len(A) : A[a].pair \in Pa(s)
      /\ t = [s EXCEPT !.asyncs = A]
  BY DEF Reasyncs
<1>2. s \in AnyEngine
  BY <1>1 DEF Good
<1>3. /\ t \in AnyEngine /\ t.asyncs = A /\ t.promises = s.promises /\ t.pairs = s.pairs
      /\ t.groups = s.groups /\ t.jobs = s.jobs
  BY <1>1, <1>2 DEF AnyEngine
<1>4. Pr(t) = Pr(s) /\ Pa(t) = Pa(s) /\ Gr(t) = Gr(s)
  BY <1>3 DEF Pr, Pa, Gr
<1>5. More(s, t)
  <2>1. Len(s.promises) \in Nat /\ Len(s.pairs) \in Nat /\ Len(s.groups) \in Nat
    BY <1>2 DEF AnyEngine
  <2> QED
    BY <1>1, <1>3, <2>1 DEF More
<1>6. OkPromises(t) /\ OkTwins(t)
  BY <1>1, <1>3, <1>5, SamePromises
<1>7. OkJobs(t)
  <2>1. \A z : OkJob(s, z) => OkJob(t, z)
    BY <1>2, <1>3, <1>5, MoreOk
  <2> QED
    BY <1>1, <1>3, <2>1 DEF OkJobs, Good
<1>8. OkGroups(t) /\ OkPairs(t)
  BY <1>1, <1>3, <1>4 DEF OkGroups, OkPairs, Good
<1>9. OkAsyncs(t)
  BY <1>1, <1>3, <1>4 DEF OkAsyncs, As
<1>10. \A q : Open(t, q) = Open(s, q)
  BY <1>3, <1>4 DEF Open
<1>11. Sole(t)
  BY <1>1, <1>3, <1>4, <1>10 DEF Sole, Good
<1>12. \A h : Waits(t, h) = Waits(s, h) /\ Due(t, h) = Due(s, h)
  BY <1>3, <1>4 DEF Waits, Due
<1>13. \A h : (Never(t, h) <=> Never(s, h)) /\ (Once(t, h) <=> Once(s, h))
  BY <1>12 DEF Never, Once
<1> QED
  BY <1>3, <1>4, <1>5, <1>6, <1>7, <1>8, <1>9, <1>11, <1>13 DEF Good

\* One group changes, not its items nor its promise.
Recounts(s, g, x, t) ==
  /\ Good(s) /\ g \in Gr(s) /\ x \in AnyGroup
  /\ x.pair = s.groups[g].pair /\ x.items = s.groups[g].items
  /\ t = [s EXCEPT !.groups = [@ EXCEPT ![g] = x]]

\* A change of one group that keeps its pair and items.
LEMMA GroupOk ==
  ASSUME NEW s, NEW g, NEW x, NEW t, Recounts(s, g, x, t)
  PROVE  /\ Good(t) /\ Quiet(s, t) /\ Gr(t) = Gr(s) /\ t.groups[g] = x
         /\ Pr(t) = Pr(s) /\ Pa(t) = Pa(s)
<1>1. /\ Good(s) /\ g \in Gr(s) /\ x \in AnyGroup
      /\ x.pair = s.groups[g].pair /\ x.items = s.groups[g].items
      /\ t = [s EXCEPT !.groups = [@ EXCEPT ![g] = x]]
  BY DEF Recounts
<1>2. s \in AnyEngine /\ s.groups \in Seq(AnyGroup) /\ g \in 1 .. Len(s.groups)
  BY <1>1 DEF Good, AnyEngine, Gr
<1>3. PICK G : G = [s.groups EXCEPT ![g] = x]
  OBVIOUS
<1>4. /\ G \in Seq(AnyGroup) /\ Len(G) = Len(s.groups) /\ G[g] = x
      /\ \A j \in 1 .. Len(s.groups) : j # g => G[j] = s.groups[j]
  BY <1>1, <1>2, <1>3, SeqExcept
<1>5. \A j \in 1 .. Len(s.groups) : G[j].pair = s.groups[j].pair /\ G[j].items = s.groups[j].items
  BY <1>1, <1>4
<1>6. \A j \in 1 .. Len(G) :
        /\ G[j].pair \in Pa(s)
        /\ \A i \in 1 .. Len(G[j].items) : G[j].items[i] \in Pr(s)
  BY <1>1, <1>4, <1>5 DEF Good, OkGroups, Gr
<1>7. t = [s EXCEPT !.groups = G]
  BY <1>1, <1>3
<1>8. Len(s.groups) \in Nat
  BY <1>2
<1>9. Regroups(s, G, t)
  BY <1>1, <1>4, <1>6, <1>7, <1>8 DEF Regroups
<1>10. /\ Good(t) /\ Quiet(s, t) /\ t.groups = G /\ Pr(t) = Pr(s) /\ Pa(t) = Pa(s)
  BY <1>9, GroupsOk
<1> QED
  BY <1>4, <1>10 DEF Gr

\* js_promise_all and js_promise_race, up to their loop.
LEMMA AllOk ==
  ASSUME NEW s, Good(s), NEW magic \in Combinators, NEW items \in Seq(Pr(s)),
         NEW t, t = js_promise_all(s, magic, items)
  PROVE  Good(t) /\ Quiet(s, t) /\ Len(s.promises) + 1 \in Pr(t)
<1>1. PICK u : u = js_new_promise_capability(s)
  OBVIOUS
<1>2. IsNew(s, u)
  BY <1>1, NewOk
<1>3. PICK r : r = NewestPair(u)
  OBVIOUS
<1>4. /\ Good(u) /\ Quiet(s, u) /\ r \in Pa(u) /\ r \in Nat /\ Newest(u) \in Pr(u)
      /\ Newest(u) = Len(s.promises) + 1
  BY <1>2, <1>3 DEF IsNew, Pa, Newest
<1>5. PICK x : x = NewGroup(magic, items, r)
  OBVIOUS
<1>6. items \in Seq(Nat)
  <2>1. Pr(s) \subseteq Nat
    BY DEF Pr
  <2> QED
    BY <2>1
<1>7. PICK v : v = [i \in DOMAIN items |-> Pending]
  OBVIOUS
<1>8. v \in Seq(AnyOutcome)
  <2>1. PICK n \in Nat : DOMAIN items = 1 .. n
    BY <1>6
  <2>2. Pending \in AnyOutcome
    BY DEF Pending, AnyOutcome, AnyValue
  <2> QED
    BY <1>7, <2>1, <2>2
<1>9. x = [magic |-> magic, items |-> items, pair |-> r, called |-> {},
           values |-> v, remaining |-> 1, next |-> 1, open |-> TRUE]
  BY <1>5, <1>7 DEF NewGroup
<1>10. x \in AnyGroup /\ x.pair = r /\ x.items = items
  BY <1>4, <1>6, <1>8, <1>9 DEF AnyGroup
<1>11. PICK G : G = Append(u.groups, x)
  OBVIOUS
<1>12. u.groups \in Seq(AnyGroup)
  BY <1>4 DEF Good, AnyEngine
<1>13. /\ G \in Seq(AnyGroup) /\ Len(G) = Len(u.groups) + 1 /\ G[Len(u.groups) + 1] = x
       /\ \A j \in 1 .. Len(u.groups) : G[j] = u.groups[j]
  BY <1>10, <1>11, <1>12, SeqAppend
<1>14. t = [u EXCEPT !.groups = G]
  BY <1>1, <1>3, <1>5, <1>11 DEF js_promise_all
<1>15. PICK n \in Nat : n = Len(u.groups)
  BY <1>12
<1>16. Pr(s) \subseteq Pr(u)
  BY <1>4, Later DEF Quiet
<1>17. \A i \in 1 .. Len(items) : items[i] \in Pr(u)
  BY <1>16
<1>18. \A j \in 1 .. n : /\ G[j].pair \in Pa(u)
                         /\ \A i \in 1 .. Len(G[j].items) : G[j].items[i] \in Pr(u)
  BY <1>4, <1>13, <1>15 DEF Good, OkGroups, Gr
<1>19. \A j \in 1 .. Len(G) : /\ G[j].pair \in Pa(u)
                              /\ \A i \in 1 .. Len(G[j].items) : G[j].items[i] \in Pr(u)
  <2>1. \A j \in 1 .. n + 1 : j \in 1 .. n \/ j = n + 1
    OBVIOUS
  <2>2. Len(G) = n + 1 /\ G[n + 1] = x
    BY <1>13, <1>15
  <2> QED
    BY <1>4, <1>10, <1>17, <1>18, <2>1, <2>2
<1>20. Regroups(u, G, t)
  BY <1>4, <1>13, <1>14, <1>15, <1>19 DEF Regroups
<1>21. Good(t) /\ Quiet(u, t) /\ Pr(t) = Pr(u)
  BY <1>20, GroupsOk
<1>22. Quiet(s, t)
  BY <1>4, <1>21, QuietTrans
<1> QED
  BY <1>4, <1>21, <1>22

\* What the promise of a group may be settled with.
LEMMA GroupEndOk ==
  ASSUME NEW s, Good(s), NEW g \in Gr(s), NEW o, o \in {Reason(Error), Value(List)},
         NEW t, t = js_promise_resolve_function_call(s, s.groups[g].pair, o)
  PROVE  Good(t) /\ Quiet(s, t)
<1>1. OkOutcome(s, o)
  BY ErrorOk, PromiseAssumption
<1>2. s.groups[g].pair \in Pa(s)
  BY DEF Good, OkGroups
<1> QED
  BY <1>1, <1>2, CallOk DEF Calls

\* A turn of the loop of js_promise_all keeps the state sound.
LEMMA AddItemOk ==
  ASSUME NEW s, Good(s), NEW g \in Gr(s), s.groups[g].next <= Len(s.groups[g].items),
         NEW t, t = AddItem(s, g)
  PROVE  Good(t) /\ Quiet(s, t)
<1>1. PICK group : group = s.groups[g]
  OBVIOUS
<1>2. group \in AnyGroup /\ s \in AnyEngine
  BY <1>1 DEF Good, AnyEngine, Gr
<1>3. /\ group.magic \in Combinators /\ group.items \in Seq(Nat) /\ group.next \in Nat \ {0}
      /\ group.remaining \in Int
  BY <1>2 DEF AnyGroup
<1>4. group.next \in 1 .. Len(group.items)
  BY <1>1, <1>3
<1>5. PICK p : p = group.items[group.next]
  OBVIOUS
<1>6. p \in Pr(s) /\ group.pair \in Pa(s)
  BY <1>1, <1>4, <1>5 DEF Good, OkGroups
<1>7. PICK x : x = [group EXCEPT !.next = @ + 1, !.remaining = @ + 1]
  OBVIOUS
<1>8. x \in AnyGroup /\ x.pair = group.pair /\ x.items = group.items
  <2>1. group.next + 1 \in Nat \ {0} /\ group.remaining + 1 \in Int
    BY <1>3
  <2> QED
    BY <1>2, <1>7, <2>1 DEF AnyGroup
<1>9. PICK u : u = [s EXCEPT !.groups = [@ EXCEPT ![g] = x]]
  OBVIOUS
<1>10. u = [s EXCEPT !.groups[g].next = @ + 1, !.groups[g].remaining = @ + 1]
  BY <1>1, <1>2, <1>7, <1>9 DEF AnyEngine, Gr
<1>11. Good(u) /\ Quiet(s, u) /\ Gr(u) = Gr(s) /\ Pr(u) = Pr(s) /\ Pa(u) = Pa(s)
  BY <1>1, <1>8, <1>9, GroupOk DEF Recounts
<1>12. PICK e : e = Handler("element", <<g, group.next>>)
  OBVIOUS
<1>13. PICK f : f = IF group.magic \in {"all", "allSettled"} THEN e ELSE Handler("resolve", group.pair)
  OBVIOUS
<1>14. PICK k : k = IF group.magic \in {"any", "allSettled"} THEN e ELSE Handler("reject", group.pair)
  OBVIOUS
<1>15. OkHandler(u, e) /\ ~IsWaker(e)
  <2>1. g \in Gr(u) /\ group.next \in Nat
    BY <1>3, <1>11
  <2> QED
    BY <1>11, <1>12, <2>1, HandlersOk
<1>16. /\ OkHandler(u, Handler("resolve", group.pair)) /\ ~IsWaker(Handler("resolve", group.pair))
       /\ OkHandler(u, Handler("reject", group.pair)) /\ ~IsWaker(Handler("reject", group.pair))
  BY <1>6, <1>11, HandlersOk
<1>17. OkHandler(u, f) /\ ~IsWaker(f) /\ OkHandler(u, k) /\ ~IsWaker(k)
  BY <1>13, <1>14, <1>15, <1>16
<1>18. t = perform_promise_then(u, p, f, k, None)
  BY <1>1, <1>5, <1>10, <1>12, <1>13, <1>14 DEF AddItem
<1>19. AfterThen(u, f, t)
  BY <1>6, <1>11, <1>17, <1>18, ThenOk DEF Registers
<1>20. Good(t) /\ Quiet(u, t)
  BY <1>17, <1>19, ThenQuiet
<1> QED
  BY <1>11, <1>20, QuietTrans

\* The end of js_promise_all keeps the state sound.
LEMMA EndItemsOk ==
  ASSUME NEW s, Good(s), NEW g \in Gr(s), NEW t, t = EndItems(s, g)
  PROVE  Good(t) /\ Quiet(s, t)
<1>1. PICK group : group = s.groups[g]
  OBVIOUS
<1>2. group \in AnyGroup /\ s \in AnyEngine
  BY <1>1 DEF Good, AnyEngine, Gr
<1>3. PICK x : x = [group EXCEPT !.open = FALSE, !.remaining = @ - 1]
  OBVIOUS
<1>4. x \in AnyGroup /\ x.pair = group.pair /\ x.items = group.items
  <2>1. group.remaining - 1 \in Int
    BY <1>2 DEF AnyGroup
  <2> QED
    BY <1>2, <1>3, <2>1 DEF AnyGroup
<1>5. PICK u : u = [s EXCEPT !.groups = [@ EXCEPT ![g] = x]]
  OBVIOUS
<1>6. u = [s EXCEPT !.groups[g].open = FALSE, !.groups[g].remaining = @ - 1]
  BY <1>1, <1>2, <1>3, <1>5 DEF AnyEngine, Gr
<1>7. Good(u) /\ Quiet(s, u) /\ Gr(u) = Gr(s) /\ u.groups[g] = x
  <2>1. Recounts(s, g, x, u)
    BY <1>1, <1>4, <1>5 DEF Recounts
  <2> QED
    BY <2>1, GroupOk
<1>8. PICK o : o = IF group.magic = "any" THEN Reason(Error) ELSE Value(List)
  OBVIOUS
<1>9. t = u \/ t = js_promise_resolve_function_call(u, u.groups[g].pair, o)
  BY <1>1, <1>4, <1>6, <1>7, <1>8 DEF EndItems
<1>10. CASE t = u
  BY <1>7, <1>10
<1>11. CASE t = js_promise_resolve_function_call(u, u.groups[g].pair, o)
  <2>1. Good(t) /\ Quiet(u, t)
    BY <1>7, <1>8, <1>11, GroupEndOk
  <2> QED
    BY <1>7, <2>1, QuietTrans
<1> QED
  BY <1>9, <1>10, <1>11

\* js_promise_all_resolve_element keeps the state sound.
LEMMA ElementOk ==
  ASSUME NEW s, Good(s), NEW g \in Gr(s), NEW i \in Nat, NEW o, OkOutcome(s, o),
         NEW t, t = js_promise_all_resolve_element(s, g, i, o)
  PROVE  Good(t) /\ Quiet(s, t)
<1>1. PICK group : group = s.groups[g]
  OBVIOUS
<1>2. group \in AnyGroup /\ s \in AnyEngine /\ o \in AnyOutcome
  BY <1>1 DEF Good, AnyEngine, Gr, OkOutcome
<1>3. PICK vs : vs = [group.values EXCEPT ![i] = o]
  OBVIOUS
<1>4. vs \in Seq(AnyOutcome)
  <2>1. group.values \in Seq(AnyOutcome)
    BY <1>2 DEF AnyGroup
  <2>2. CASE i \in 1 .. Len(group.values)
    BY <1>2, <1>3, <2>1, <2>2, SeqExcept
  <2>3. CASE i \notin 1 .. Len(group.values)
    <3>1. i \notin DOMAIN group.values
      BY <2>1, <2>3
    <3>2. vs = group.values
      BY <1>3, <2>1, <3>1
    <3> QED
      BY <2>1, <3>2
  <2> QED
    BY <2>2, <2>3
<1>5. PICK cs : cs = group.called \cup {<<i, o.reject>>}
  OBVIOUS
<1>6. cs \in SUBSET (Nat \X BOOLEAN)
  BY <1>2, <1>5 DEF AnyGroup, AnyOutcome
<1>7. PICK x : x = [group EXCEPT !.called = cs, !.values = vs, !.remaining = @ - 1]
  OBVIOUS
<1>8. x \in AnyGroup /\ x.pair = group.pair /\ x.items = group.items
  <2>1. group.remaining - 1 \in Int
    BY <1>2 DEF AnyGroup
  <2> QED
    BY <1>2, <1>4, <1>6, <1>7, <2>1 DEF AnyGroup
<1>9. PICK u : u = [s EXCEPT !.groups = [@ EXCEPT ![g] = x]]
  OBVIOUS
<1>10. u = [s EXCEPT !.groups[g].called = @ \cup {<<i, o.reject>>},
                     !.groups[g].values[i] = o,
                     !.groups[g].remaining = @ - 1]
  <2>1. u = [s EXCEPT !.groups[g].called = cs, !.groups[g].values = vs, !.groups[g].remaining = @ - 1]
    BY <1>1, <1>2, <1>7, <1>9 DEF AnyEngine, Gr
  <2> QED
    BY <1>1, <1>2, <1>3, <1>5, <2>1 DEF AnyEngine, Gr
<1>11. Good(u) /\ Quiet(s, u) /\ Gr(u) = Gr(s) /\ u.groups[g] = x
  <2>1. Recounts(s, g, x, u)
    BY <1>1, <1>8, <1>9 DEF Recounts
  <2> QED
    BY <2>1, GroupOk
<1>12. PICK c : c = IF group.magic = "any" THEN Reason(Error) ELSE Value(List)
  OBVIOUS
<1>13. t = s \/ t = u \/ t = js_promise_resolve_function_call(u, u.groups[g].pair, c)
  BY <1>1, <1>8, <1>10, <1>11, <1>12 DEF js_promise_all_resolve_element
<1>14. CASE t = s
  BY <1>14, QuietSame
<1>15. CASE t = u
  BY <1>11, <1>15
<1>16. CASE t = js_promise_resolve_function_call(u, u.groups[g].pair, c)
  <2>1. Good(t) /\ Quiet(u, t)
    BY <1>11, <1>12, <1>16, GroupEndOk
  <2> QED
    BY <1>11, <2>1, QuietTrans
<1> QED
  BY <1>13, <1>14, <1>15, <1>16

-----------------------------------------------------------------------------
(* finally, and async functions *)

\* The history variable mirrors has no effect on the rest.
LEMMA MirrorOk ==
  ASSUME NEW s, Good(s), NEW p \in Pr(s), NEW m \in Nat, NEW t, t = [s EXCEPT !.promises[p].mirrors = m]
  PROVE  Good(t) /\ Quiet(s, t) /\ Pr(t) = Pr(s) /\ Pa(t) = Pa(s)
<1>1. s \in AnyEngine /\ s.promises[p] \in AnyPromise
  BY DEF Good, AnyEngine, Pr
<1>2. PICK x : x = [s.promises[p] EXCEPT !.mirrors = m]
  OBVIOUS
<1>3. x \in AnyPromise /\ x.outcome = s.promises[p].outcome /\ x.reactions = s.promises[p].reactions
  BY <1>1, <1>2 DEF AnyPromise
<1>4. t = [s EXCEPT !.promises = [@ EXCEPT ![p] = x]]
  BY <1>2
<1>5. Changes(s, p, x, t)
  BY <1>3, <1>4 DEF Changes, Good, OkPromises, OkTwins
<1>6. AfterChange(s, p, x, t)
  BY <1>5, ChangeOk
<1>7. Quiet(s, t)
  BY <1>3, <1>6, ChangeQuiet
<1> QED
  BY <1>6, <1>7 DEF AfterChange

\* A promise is a value that is there.
LEMMA PromiseValue ==
  ASSUME NEW s, NEW p \in Pr(s)
  PROVE  OkOutcome(s, Value(p))
BY PromiseAssumption DEF OkOutcome, AnyOutcome, AnyValue, Value, Pr

\* js_promise_then_finally_func keeps the state sound.
LEMMA FinallyOk ==
  ASSUME NEW s, Good(s), NEW reaction, OkReaction(s, reaction), NEW o, OkOutcome(s, o),
         NEW c, OkOutcome(s, c), NEW t, t = js_promise_then_finally_func(s, reaction, o, c)
  PROVE  Good(t) /\ Quiet(s, t)
<1>0. (reaction.cap = None \/ reaction.cap \in Pa(s)) /\ reaction.on \in Nat
  BY DEF OkReaction, AnyReaction
<1>1. CASE c.reject
  BY <1>0, <1>1, CompleteOk DEF js_promise_then_finally_func
<1>2. CASE ~c.reject
  <2>1. PICK x : x = js_promise_resolve(s, c)
    OBVIOUS
  <2>2. PICK a : a = x[1]
    OBVIOUS
  <2>3. PICK q : q = x[2]
    OBVIOUS
  <2>4. Good(a) /\ Quiet(s, a) /\ q \in Pr(a)
    BY <2>1, <2>2, <2>3, ResolveOk
  <2>5. PICK f : f = Handler("thunk", o)
    OBVIOUS
  <2>6. OkHandler(s, f) /\ ~IsWaker(f) /\ OkHandler(s, NoHandler) /\ ~IsWaker(NoHandler)
    BY <2>5, HandlersOk DEF NoHandler
  <2>7. OkHandler(a, f) /\ OkHandler(a, NoHandler)
    BY <2>4, <2>6, Later DEF Quiet
  <2>8. PICK b : b = js_new_promise_capability(a)
    OBVIOUS
  <2>9. IsNew(a, b)
    BY <2>4, <2>8, NewOk
  <2>10. PICK m : m = Newest(b)
    OBVIOUS
  <2>11. PICK r : r = NewestPair(b)
    OBVIOUS
  <2>12. Good(b) /\ Quiet(a, b) /\ m \in Pr(b) /\ r \in Pa(b)
    BY <2>9, <2>10, <2>11 DEF IsNew
  <2>13. PICK d : d = IF c.value \in Plain THEN [b EXCEPT !.promises[m].mirrors = reaction.on] ELSE b
    OBVIOUS
  <2>14. Good(d) /\ Quiet(b, d) /\ Pr(d) = Pr(b) /\ Pa(d) = Pa(b)
    BY <1>0, <2>12, <2>13, MirrorOk, QuietSame
  <2>15. Quiet(a, d)
    BY <2>4, <2>12, <2>14, QuietTrans
  <2>16. q \in Pr(d) /\ OkHandler(d, f) /\ OkHandler(d, NoHandler)
    BY <2>4, <2>7, <2>14, <2>15, Later DEF Quiet
  <2>17. PICK e : e = perform_promise_then(d, q, f, NoHandler, r)
    OBVIOUS
  <2>18. AfterThen(d, f, e)
    BY <2>6, <2>12, <2>14, <2>16, <2>17, ThenOk DEF Registers
  <2>19. Good(e) /\ Quiet(d, e) /\ Pr(e) = Pr(d)
    BY <2>6, <2>18, ThenQuiet DEF AfterThen
  <2>20. t = Complete(e, reaction.cap, Value(m))
    BY <1>2, <2>1, <2>2, <2>3, <2>5, <2>8, <2>10, <2>11, <2>13, <2>17 DEF js_promise_then_finally_func
  <2>21. Quiet(s, d)
    BY <2>4, <2>14, <2>15, QuietTrans
  <2>22. Quiet(s, e)
    BY <2>14, <2>19, <2>21, QuietTrans
  <2>23. reaction.cap = None \/ reaction.cap \in Pa(e)
    BY <1>0, <2>19, <2>22, Later DEF Quiet
  <2>24. OkOutcome(e, Value(m))
    BY <2>12, <2>14, <2>19, PromiseValue
  <2>25. Good(t) /\ Quiet(e, t)
    BY <2>19, <2>20, <2>23, <2>24, CompleteOk
  <2> QED
    BY <2>19, <2>22, <2>25, QuietTrans
<1> QED
  BY <1>1, <1>2

\* One more reaction will resume h, the others as before.
Wakes(s, h, t) ==
  /\ Good(t) /\ Grows(s, t)
  /\ \A k \in AnyHandler : IsWaker(k) /\ k # h => Keeps(s, t, k)
  /\ Never(s, h) => Once(t, h)

\* An await registers one reaction that resumes, on one promise.
LEMMA AwaitOk ==
  ASSUME NEW s, Good(s), NEW v, OkOutcome(s, Value(v)), NEW h, OkHandler(s, h), IsWaker(h),
         NEW x, x = js_promise_resolve(s, Value(v)),
         NEW t, t = perform_promise_then(x[1], x[2], h, h, None)
  PROVE  Wakes(s, h, t)
<1>1. PICK a : a = x[1]
  OBVIOUS
<1>2. PICK q : q = x[2]
  OBVIOUS
<1>3. PICK c : c = Value(v)
  OBVIOUS
<1>4. OkOutcome(s, c) /\ x = js_promise_resolve(s, c)
  BY <1>3
<1>5. Good(a) /\ Quiet(s, a) /\ q \in Pr(a)
  BY <1>1, <1>2, <1>4, ResolveOk
<1>6. OkHandler(a, h) /\ h \in AnyHandler
  BY <1>5, Later DEF Quiet, OkHandler
<1>7. Registers(a, q, h, h, None, t)
  BY <1>1, <1>2, <1>5, <1>6 DEF Registers
<1>8. AfterThen(a, h, t)
  BY <1>7, ThenOk
<1>9. Good(t) /\ Grows(a, t) /\ (\A k \in AnyHandler : IsWaker(k) /\ k # h => Keeps(a, t, k))
      /\ (Never(a, h) => Once(t, h))
  BY <1>8 DEF AfterThen
<1>10. Grows(s, t)
  <2>1. Grows(s, a)
    BY <1>5 DEF Quiet
  <2> QED
    BY <1>5, <1>9, <2>1, GrowsTrans
<1>11. \A k \in AnyHandler : IsWaker(k) => Keeps(s, a, k)
  BY <1>5 DEF Quiet
<1>12. \A k \in AnyHandler : IsWaker(k) /\ k # h => Keeps(s, t, k)
  BY <1>9, <1>11 DEF Keeps
<1>13. Never(s, h) => Once(t, h)
  BY <1>6, <1>9, <1>11 DEF Keeps
<1> QED
  BY <1>9, <1>10, <1>12, <1>13 DEF Wakes

\* Nothing resumes a function that was not called yet.
LEMMA FreshNever ==
  ASSUME NEW s, Good(s), NEW a, a \notin As(s)
  PROVE  Never(s, Handler("resume", a))
<1>1. PICK h : h = Handler("resume", a)
  OBVIOUS
<1>2. h.kind = "resume" /\ h.of = a
  BY <1>1 DEF Handler
<1>3. ~OkHandler(s, h)
  BY <1>2 DEF OkHandler
<1>4. ASSUME NEW y \in Waits(s, h) PROVE FALSE
  <2>1. PICK f : f = s.promises[y[1]].reactions[FALSE]
    OBVIOUS
  <2>2. y[1] \in Pr(s) /\ y[2] \in 1 .. Len(f) /\ f[y[2]].handler = h
    BY <1>4, <2>1 DEF Waits
  <2>3. OkReaction(s, f[y[2]])
    BY <2>1, <2>2 DEF Good, OkPromises
  <2> QED
    BY <1>3, <2>2, <2>3 DEF OkReaction
<1>5. ASSUME NEW i \in Due(s, h) PROVE FALSE
  <2>1. i \in 1 .. Len(s.jobs) /\ Cls(s.jobs[i]) = <<"reaction", h>>
    BY <1>5 DEF Due, In
  <2>2. s.jobs[i].type = "reaction" /\ s.jobs[i].reaction.handler = h
    BY <2>1, ClsDiffer DEF Cls
  <2>3. OkJob(s, s.jobs[i])
    BY <2>1 DEF Good, OkJobs
  <2>4. OkReaction(s, s.jobs[i].reaction)
    BY <2>2, <2>3 DEF OkJob, ThenableJobs
  <2> QED
    BY <1>3, <2>2, <2>4 DEF OkReaction
<1>6. Waits(s, h) = {} /\ Due(s, h) = {}
  BY <1>4, <1>5
<1> QED
  BY <1>1, <1>6 DEF Never

\* The handlers that resume are told apart by what they resume.
LEMMA HandlersDiffer ==
  /\ \A x, y : Handler("resume", x) = Handler("resume", y) <=> x = y
  /\ \A x, y : Handler("generator", x) = Handler("generator", y) <=> x = y
  /\ \A x, y : Handler("generator", x) # Handler("resume", y)
BY DEF Handler

\* Async function a is resumed once when it awaits, and not at all otherwise.
AsOnce(s, a) ==
  /\ s.asyncs[a].active => Once(s, Handler("resume", a))
  /\ ~s.asyncs[a].active => Never(s, Handler("resume", a))

Eng(s) == Good(s) /\ \A a \in As(s) : AsOnce(s, a)

KeepsGen(s, t) == \A w \in {"await", "return"} : Keeps(s, t, Handler("generator", w))

\* What was there is still there.
Stays(s, t) == Pr(s) \subseteq Pr(t) /\ Pa(s) \subseteq Pa(t)

\* A step of the engine that is none of the generator's.
Fine(s, t) == Eng(t) /\ KeepsGen(s, t) /\ Stays(s, t)

\* A quiet step keeps the async functions and the generator woken as they were.
LEMMA QuietFine ==
  ASSUME NEW s, NEW t, Eng(s), Good(t), Quiet(s, t)
  PROVE  Fine(s, t)
<1>1. Good(s) /\ Grows(s, t)
  BY DEF Eng, Quiet
<1>2. As(t) = As(s) /\ t.asyncs = s.asyncs
  BY <1>1 DEF Grows, As
<1>3. \A a \in As(s) : Keeps(s, t, Handler("resume", a))
  <2> SUFFICES ASSUME NEW a \in As(s) PROVE Keeps(s, t, Handler("resume", a))
    OBVIOUS
  <2>1. PICK h : h = Handler("resume", a)
    OBVIOUS
  <2>2. OkHandler(s, h) /\ IsWaker(h)
    BY <1>1, <2>1, HandlersOk
  <2> QED
    BY <2>1, <2>2 DEF Quiet, OkHandler
<1>4. \A a \in As(t) : AsOnce(t, a)
  BY <1>2, <1>3 DEF AsOnce, Eng, Keeps
<1>5. KeepsGen(s, t)
  <2> SUFFICES ASSUME NEW w \in {"await", "return"} PROVE Keeps(s, t, Handler("generator", w))
    BY DEF KeepsGen
  <2>1. PICK h : h = Handler("generator", w)
    OBVIOUS
  <2>2. OkHandler(s, h) /\ IsWaker(h)
    BY <1>1, <2>1, HandlersOk
  <2> QED
    BY <2>1, <2>2 DEF Quiet, OkHandler
<1>6. Stays(s, t)
  BY <1>1, Later DEF Stays
<1> QED
  BY <1>4, <1>5, <1>6 DEF Eng, Fine

\* One step after the other.
LEMMA FineTrans ==
  ASSUME NEW s, NEW t, NEW u, Fine(s, t), Fine(t, u)
  PROVE  Fine(s, u)
BY DEF Fine, KeepsGen, Keeps, Stays

\* So does a call of a resolving function.
LEMMA FineCalls ==
  ASSUME NEW s, NEW r, NEW c, NEW t, Eng(s), Calls(s, r, c, t)
  PROVE  Fine(s, t)
BY CallOk, QuietFine

\* js_async_function_resume, for function a that nothing else will resume.
Resumable(s, a) ==
  /\ Good(s) /\ a \in As(s) /\ s.asyncs[a].active /\ Never(s, Handler("resume", a))
  /\ \A b \in As(s) : b # a => AsOnce(s, b)

\* js_async_function_resume: the function ends, or awaits again and is then
\* woken once.
LEMMA ResumeOk ==
  ASSUME NEW s, NEW a, Resumable(s, a), NEW ends \in BOOLEAN, NEW c, OkOutcome(s, c),
         NEW t, t = js_async_function_resume(s, a, ends, c)
  PROVE  Fine(s, t)
<1>1. /\ Good(s) /\ a \in As(s) /\ s.asyncs[a].active /\ Never(s, Handler("resume", a))
      /\ \A b \in As(s) : b # a => AsOnce(s, b)
  BY DEF Resumable
<1>2. /\ \A b \in As(s) : Handler("resume", b) \in AnyHandler /\ IsWaker(Handler("resume", b))
                          /\ OkHandler(s, Handler("resume", b))
      /\ \A w \in {"await", "return"} : Handler("generator", w) \in AnyHandler /\ IsWaker(Handler("generator", w))
  BY <1>1, HandlersOk DEF OkHandler
<1>3. CASE ends
  <2>1. PICK u : u = js_promise_resolve_function_call(s, s.asyncs[a].pair, c)
    OBVIOUS
  <2>2. s.asyncs[a].pair \in Pa(s)
    BY <1>1 DEF Good, OkAsyncs
  <2>3. Good(u) /\ Quiet(s, u)
    BY <1>1, <2>1, <2>2, CallOk DEF Calls
  <2>4. u.asyncs = s.asyncs /\ As(u) = As(s) /\ u.asyncs \in Seq(AnyAsync) /\ a \in 1 .. Len(u.asyncs)
    BY <1>1, <2>3 DEF Quiet, Grows, As, Good, AnyEngine
  <2>5. PICK y : y = [u.asyncs[a] EXCEPT !.active = FALSE]
    OBVIOUS
  <2>6. y \in AnyAsync /\ y.pair = u.asyncs[a].pair /\ ~y.active
    <3>1. u.asyncs[a] \in AnyAsync
      BY <2>4
    <3>2. y \in AnyAsync /\ y.pair = u.asyncs[a].pair /\ y.active = FALSE
      BY <2>5, <3>1 DEF AnyAsync
    <3> QED
      BY <3>2
  <2>7. PICK A : A = [u.asyncs EXCEPT ![a] = y]
    OBVIOUS
  <2>8. /\ A \in Seq(AnyAsync) /\ Len(A) = Len(u.asyncs) /\ A[a] = y
        /\ \A b \in 1 .. Len(u.asyncs) : b # a => A[b] = u.asyncs[b]
    BY <2>4, <2>6, <2>7, SeqExcept
  <2>9. t = [u EXCEPT !.asyncs = A]
    BY <1>3, <2>1, <2>5, <2>7 DEF js_async_function_resume
  <2>10. \A b \in 1 .. Len(A) : A[b].pair \in Pa(u)
    BY <2>3, <2>4, <2>6, <2>8 DEF Good, OkAsyncs, As
  <2>11. Len(u.asyncs) \in Nat
    BY <2>4
  <2>12. Reasyncs(u, A, t)
    BY <2>3, <2>8, <2>9, <2>10, <2>11 DEF Reasyncs
  <2>13. /\ Good(t) /\ t.asyncs = A /\ Pr(t) = Pr(u) /\ Pa(t) = Pa(u)
         /\ \A h : (Never(t, h) <=> Never(u, h)) /\ (Once(t, h) <=> Once(u, h))
    BY <2>12, AsyncsOk
  <2>14. As(t) = As(s)
    BY <2>4, <2>8, <2>13 DEF As
  <2>15. \A h \in AnyHandler : IsWaker(h) => Keeps(s, t, h)
    BY <2>3, <2>13 DEF Quiet, Keeps
  <2>16. ASSUME NEW b \in As(s) PROVE AsOnce(t, b)
    <3>1. Keeps(s, t, Handler("resume", b))
      BY <1>2, <2>15
    <3>2. CASE b = a
      BY <1>1, <2>6, <2>8, <2>13, <3>1, <3>2 DEF AsOnce, Keeps
    <3>3. CASE b # a
      <4>1. t.asyncs[b] = s.asyncs[b]
        BY <2>4, <2>8, <2>13, <3>3 DEF As
      <4> QED
        BY <1>1, <3>1, <3>3, <4>1 DEF AsOnce, Keeps
    <3> QED
      BY <3>2, <3>3
  <2>17. KeepsGen(s, t)
    BY <1>2, <2>15 DEF KeepsGen
  <2>18. Stays(s, t)
    BY <1>1, <2>3, <2>13, Later DEF Stays, Quiet
  <2> QED
    BY <2>13, <2>14, <2>16, <2>17, <2>18 DEF Eng, Fine
<1>4. CASE ~ends
  <2>1. PICK h : h = Handler("resume", a)
    OBVIOUS
  <2>2. PICK v : v = c.value
    OBVIOUS
  <2>3. OkOutcome(s, Value(v))
    BY <2>2 DEF OkOutcome, AnyOutcome, Value
  <2>4. PICK x : x = js_promise_resolve(s, Value(v))
    OBVIOUS
  <2>5. t = perform_promise_then(x[1], x[2], h, h, None)
    BY <1>4, <2>1, <2>2, <2>4 DEF js_async_function_resume
  <2>6. OkHandler(s, h) /\ IsWaker(h) /\ Never(s, h)
    BY <1>1, <1>2, <2>1
  <2>7. Wakes(s, h, t)
    BY <1>1, <2>3, <2>4, <2>5, <2>6, AwaitOk
  <2>8. /\ Good(t) /\ Grows(s, t) /\ Once(t, h)
        /\ \A k \in AnyHandler : IsWaker(k) /\ k # h => Keeps(s, t, k)
    BY <2>6, <2>7 DEF Wakes
  <2>9. t.asyncs = s.asyncs /\ As(t) = As(s)
    BY <2>8 DEF Grows, As
  <2>10. ASSUME NEW b \in As(s) PROVE AsOnce(t, b)
    <3>1. CASE b = a
      BY <1>1, <2>1, <2>8, <2>9, <3>1 DEF AsOnce
    <3>2. CASE b # a
      <4>1. Handler("resume", b) # h
        BY <2>1, <3>2, HandlersDiffer
      <4>2. Keeps(s, t, Handler("resume", b))
        BY <1>2, <2>8, <4>1
      <4> QED
        BY <1>1, <2>9, <3>2, <4>2 DEF AsOnce, Keeps
    <3> QED
      BY <3>1, <3>2
  <2>11. KeepsGen(s, t)
    <3> SUFFICES ASSUME NEW w \in {"await", "return"} PROVE Keeps(s, t, Handler("generator", w))
      BY DEF KeepsGen
    <3>1. Handler("generator", w) # h
      BY <2>1, HandlersDiffer
    <3> QED
      BY <1>2, <2>8, <3>1
  <2>12. Stays(s, t)
    BY <1>1, <2>8, Later DEF Stays
  <2> QED
    BY <2>8, <2>9, <2>10, <2>11, <2>12 DEF Eng, Fine
<1> QED
  BY <1>3, <1>4

\* js_async_function_call
LEMMA CallAsyncOk ==
  ASSUME NEW s, Eng(s), NEW ends \in BOOLEAN, NEW c, OkOutcome(s, c),
         NEW t, t = js_async_function_call(s, ends, c)
  PROVE  Fine(s, t) /\ Len(s.promises) + 1 \in Pr(t)
<1>1. PICK u : u = js_new_promise_capability(s)
  OBVIOUS
<1>2. IsNew(s, u) /\ Good(s)
  BY <1>1, NewOk DEF Eng
<1>3. PICK r : r = NewestPair(u)
  OBVIOUS
<1>4. /\ Good(u) /\ Quiet(s, u) /\ r \in Pa(u) /\ r \in Nat /\ Newest(u) \in Pr(u)
      /\ Newest(u) = Len(s.promises) + 1
  BY <1>2, <1>3 DEF IsNew, Pa, Newest
<1>5. Fine(s, u)
  BY <1>4, QuietFine
<1>6. Eng(u)
  BY <1>5 DEF Fine
<1>7. PICK y : y = [pair |-> r, active |-> TRUE]
  OBVIOUS
<1>8. y \in AnyAsync /\ y.pair = r /\ y.active
  BY <1>4, <1>7 DEF AnyAsync
<1>9. PICK A : A = Append(u.asyncs, y)
  OBVIOUS
<1>10. u.asyncs \in Seq(AnyAsync)
  BY <1>4 DEF Good, AnyEngine
<1>11. PICK n \in Nat : n = Len(u.asyncs)
  BY <1>10
<1>12. A \in Seq(AnyAsync) /\ Len(A) = n + 1 /\ A[n + 1] = y /\ \A j \in 1 .. n : A[j] = u.asyncs[j]
  BY <1>8, <1>9, <1>10, <1>11, SeqAppend
<1>13. PICK z : z = [u EXCEPT !.asyncs = A]
  OBVIOUS
<1>14. \A j \in 1 .. n + 1 : j \in 1 .. n \/ j = n + 1
  OBVIOUS
<1>15. \A j \in 1 .. n : A[j].pair \in Pa(u)
  BY <1>4, <1>11, <1>12 DEF Good, OkAsyncs, As
<1>16. \A j \in 1 .. n + 1 : A[j].pair \in Pa(u)
  BY <1>4, <1>8, <1>12, <1>14, <1>15
<1>17. Reasyncs(u, A, z)
  BY <1>4, <1>11, <1>12, <1>13, <1>16 DEF Reasyncs
<1>18. /\ Good(z) /\ z.asyncs = A /\ Pr(z) = Pr(u) /\ Pa(z) = Pa(u) /\ More(u, z)
       /\ \A h : (Never(z, h) <=> Never(u, h)) /\ (Once(z, h) <=> Once(u, h))
  BY <1>17, AsyncsOk
<1>19. As(z) = 1 .. n + 1 /\ As(u) = 1 .. n
  BY <1>11, <1>12, <1>18 DEF As
<1>20. Never(z, Handler("resume", n + 1))
  <2>1. n + 1 \notin As(u)
    BY <1>19
  <2> QED
    BY <1>4, <1>18, <2>1, FreshNever
<1>21. ASSUME NEW b \in As(z), b # n + 1 PROVE AsOnce(z, b)
  <2>1. b \in As(u) /\ z.asyncs[b] = u.asyncs[b]
    BY <1>12, <1>18, <1>19, <1>21
  <2> QED
    BY <1>6, <1>18, <2>1 DEF Eng, AsOnce
<1>22. Resumable(z, n + 1)
  <2>1. n + 1 \in As(z) /\ z.asyncs[n + 1].active
    BY <1>8, <1>12, <1>18, <1>19
  <2> QED
    BY <1>18, <1>20, <1>21, <2>1 DEF Resumable
<1>23. OkOutcome(z, c)
  <2>1. OkOutcome(u, c)
    BY <1>2, <1>4, Later DEF Quiet
  <2> QED
    BY <1>18, <2>1 DEF OkOutcome
<1>24. Len(z.asyncs) = n + 1
  BY <1>12, <1>18
<1>25. t = js_async_function_resume(z, n + 1, ends, c)
  BY <1>1, <1>3, <1>7, <1>9, <1>13, <1>24 DEF js_async_function_call
<1>26. Fine(z, t)
  BY <1>22, <1>23, <1>25, ResumeOk
<1>27. KeepsGen(u, z) /\ Stays(u, z)
  BY <1>18 DEF KeepsGen, Keeps, Stays
<1>28. Fine(s, t)
  BY <1>5, <1>26, <1>27 DEF Fine, KeepsGen, Keeps, Stays
<1> QED
  BY <1>4, <1>18, <1>26, <1>28 DEF Fine, Stays

-----------------------------------------------------------------------------
(* The actions of Promises *)

Known(s, h, u) == h \subseteq Pa(s) /\ u \subseteq Pr(s)

PInv == Eng(rt) /\ script \in Scripts /\ Known(rt, held, seen)

\* What a step that is none of the generator's does.
PStep == Fine(rt, rt') /\ Known(rt', held', seen')

\* What scripts pass around is there.
LEMMA CompletionsOk ==
  ASSUME PInv
  PROVE  /\ \A v \in Things : OkOutcome(rt, Value(v))
         /\ \A c \in Completions : OkOutcome(rt, c) /\ c.reject \in BOOLEAN
<1>1. script.passes \subseteq Plain \cup {Thenable, Trap}
  BY PromiseAssumption DEF PInv
<1>2. \A v \in Things : OkOutcome(rt, Value(v))
  <2> SUFFICES ASSUME NEW v \in Things PROVE OkOutcome(rt, Value(v))
    OBVIOUS
  <2>1. CASE v \in seen
    BY <2>1, PromiseValue DEF PInv, Known
  <2>2. CASE v \in script.passes
    BY <1>1, <2>2, ErrorOk
  <2> QED
    BY <2>1, <2>2 DEF Things
<1>3. \A c \in Completions : (c = Reason(Error) \/ \E v \in Things : c = Value(v))
  <2> SUFFICES ASSUME NEW c \in [reject : {FALSE}, value : Things] PROVE \E v \in Things : c = Value(v)
    BY DEF Completions
  <2>1. c = [reject |-> FALSE, value |-> c.value] /\ c.value \in Things
    OBVIOUS
  <2> QED
    BY <2>1 DEF Value
<1>4. \A c \in Completions : OkOutcome(rt, c)
  BY <1>2, <1>3, ErrorOk
<1> QED
  BY <1>2, <1>4 DEF OkOutcome, AnyOutcome

\* A step that gives the script nothing new.
LEMMA PStepOld ==
  ASSUME PInv, Fine(rt, rt'), UNCHANGED <<held, seen>>
  PROVE  PStep
BY DEF PInv, PStep, Known, Fine, Stays

\* new Promise(executor)
LEMMA NewPromiseOk ==
  ASSUME PInv, NewPromise
  PROVE  PStep
<1>1. PICK t : t = js_new_promise_capability(rt)
  OBVIOUS
<1>2. IsNew(rt, t) /\ Good(rt) /\ Eng(rt)
  BY <1>1, NewOk DEF PInv, Eng
<1>3. PICK r : r = NewestPair(t)
  OBVIOUS
<1>4. Good(t) /\ Quiet(rt, t) /\ r \in Pa(t) /\ Newest(t) \in Pr(t)
  BY <1>2, <1>3 DEF IsNew
<1>5. Fine(rt, t)
  BY <1>2, <1>4, QuietFine
<1>6. /\ rt' = t \/ rt' = js_promise_resolve_function_call(t, r, Reason(Error))
      /\ held' = held \cup {r} /\ seen' = seen \cup {Newest(t)}
  BY <1>1, <1>3 DEF NewPromise
<1>7. Known(t, held', seen')
  BY <1>4, <1>5, <1>6 DEF Fine, Stays, Known, PInv
<1>8. Fine(rt, rt') /\ Known(rt', held', seen')
  <2>1. CASE rt' = t
    BY <1>5, <1>7, <2>1
  <2>2. CASE rt' = js_promise_resolve_function_call(t, r, Reason(Error))
    <3>1. PICK c : c = Reason(Error)
      OBVIOUS
    <3>2. OkOutcome(t, c)
      BY <3>1, ErrorOk
    <3>3. Calls(t, r, c, rt')
      BY <1>4, <2>2, <3>1, <3>2 DEF Calls
    <3>4. Fine(t, rt')
      BY <1>5, <3>3, FineCalls DEF Fine
    <3>5. Known(rt', held', seen')
      BY <1>7, <3>4 DEF Fine, Stays, Known
    <3> QED
      BY <1>5, <3>4, <3>5, FineTrans
  <2> QED
    BY <1>6, <2>1, <2>2
<1> QED
  BY <1>8 DEF PStep

\* A call of a resolving function by the script or the host.
LEMMA SettleStepOk ==
  ASSUME PInv, NEW r \in held, NEW c \in Completions, Settle(r, c)
  PROVE  PStep
<1>1. OkOutcome(rt, c) /\ Good(rt) /\ Eng(rt) /\ r \in Pa(rt)
  BY CompletionsOk DEF PInv, Eng, Known
<1>2. Calls(rt, r, c, rt')
  BY <1>1 DEF Settle, Calls
<1> QED
  BY <1>1, <1>2, FineCalls, PStepOld DEF Settle

\* Promise.resolve and Promise.reject
LEMMA ResolveStepOk ==
  ASSUME PInv, NEW c \in Completions, Resolve(c)
  PROVE  PStep
<1>1. OkOutcome(rt, c) /\ Good(rt) /\ Eng(rt)
  BY CompletionsOk DEF PInv, Eng
<1>2. PICK x : x = js_promise_resolve(rt, c)
  OBVIOUS
<1>3. Good(x[1]) /\ Quiet(rt, x[1]) /\ x[2] \in Pr(x[1])
  BY <1>1, <1>2, ResolveOk
<1>4. rt' = x[1] /\ seen' = seen \cup {x[2]} /\ held' = held
  BY <1>2 DEF Resolve
<1>5. Fine(rt, rt')
  BY <1>1, <1>3, <1>4, QuietFine
<1> QED
  BY <1>3, <1>4, <1>5 DEF PStep, PInv, Known, Fine, Stays

\* then, catch and finally
LEMMA ThenStepOk ==
  ASSUME PInv, NEW p \in seen, NEW f, NEW g,
         f \in {Handler("script", None), Handler("undefined", None), Handler("finally", None)},
         g \in {Handler("script", None), Handler("undefined", None), Handler("finally", None)},
         rt' = js_promise_then(rt, p, f, g), seen' = seen \cup {Newest(rt')}, UNCHANGED held
  PROVE  PStep
<1>1. Good(rt) /\ Eng(rt) /\ p \in Pr(rt)
  BY DEF PInv, Eng, Known
<1>2. OkHandler(rt, f) /\ ~IsWaker(f) /\ OkHandler(rt, g) /\ ~IsWaker(g)
  BY <1>1, HandlersOk
<1>3. PICK t : t = rt'
  OBVIOUS
<1>4. t = js_promise_then(rt, p, f, g)
  BY <1>3
<1>5. Good(t) /\ Quiet(rt, t) /\ Newest(t) \in Pr(t)
  BY <1>1, <1>2, <1>4, ThenCallOk
<1>6. Fine(rt, rt') /\ Newest(rt') \in Pr(rt')
  BY <1>1, <1>3, <1>5, QuietFine
<1> QED
  BY <1>6 DEF PStep, PInv, Known, Fine, Stays

\* Promise.all and its kin, up to their loop
LEMMA CombineStepOk ==
  ASSUME PInv, NEW magic \in Combinators, NEW items \in SeqOf(seen, 2), Combine(magic, items)
  PROVE  PStep
<1>1. Good(rt) /\ Eng(rt) /\ seen \subseteq Pr(rt)
  BY DEF PInv, Eng, Known
<1>2. items \in Seq(seen)
  <2>1. PICK m \in 0 .. 2 : items \in [1 .. m -> seen]
    BY DEF SeqOf
  <2> QED
    BY <2>1
<1>3. items \in Seq(Pr(rt))
  BY <1>1, <1>2
<1>4. rt' = js_promise_all(rt, magic, items) /\ seen' = seen \cup {Len(rt.promises) + 1} /\ held' = held
  BY DEF Combine, Newest
<1>5. Good(rt') /\ Quiet(rt, rt') /\ Len(rt.promises) + 1 \in Pr(rt')
  BY <1>1, <1>3, <1>4, AllOk
<1>6. Fine(rt, rt')
  BY <1>1, <1>5, QuietFine
<1> QED
  BY <1>4, <1>5, <1>6 DEF PStep, PInv, Known, Fine, Stays

\* A turn of their loop
LEMMA CombineTurnOk ==
  ASSUME PInv, CombineTurn
  PROVE  PStep
<1>1. PICK g \in Loops :
        /\ rt' = IF rt.groups[g].next <= Len(rt.groups[g].items) THEN AddItem(rt, g) ELSE EndItems(rt, g)
        /\ UNCHANGED <<held, seen>>
  BY DEF CombineTurn
<1>2. Good(rt) /\ Eng(rt) /\ rt.groups \in Seq(AnyGroup)
  BY DEF PInv, Eng, Good, AnyEngine
<1>3. g \in Gr(rt)
  BY <1>2 DEF Loops, Gr
<1>4. Good(rt') /\ Quiet(rt, rt')
  BY <1>1, <1>2, <1>3, AddItemOk, EndItemsOk
<1> QED
  BY <1>1, <1>2, <1>4, QuietFine, PStepOld

\* The call of an async function
LEMMA CallAsyncStepOk ==
  ASSUME PInv, NEW ends \in BOOLEAN, NEW c \in Completions, CallAsync(ends, c)
  PROVE  PStep
<1>1. OkOutcome(rt, c) /\ Eng(rt)
  BY CompletionsOk DEF PInv
<1>2. /\ rt' = js_async_function_call(rt, ends, c)
      /\ seen' = seen \cup {Len(rt.promises) + 1} /\ held' = held
  BY DEF CallAsync, Newest
<1>3. Fine(rt, rt') /\ Len(rt.promises) + 1 \in Pr(rt')
  BY <1>1, <1>2, CallAsyncOk
<1> QED
  BY <1>2, <1>3 DEF PStep, PInv, Known, Fine, Stays

\* Whatever the script or the host calls keeps the state sound.
LEMMA ScriptOk ==
  ASSUME PInv, Script
  PROVE  PStep
<1>1. CASE NewPromise
  BY <1>1, NewPromiseOk
<1>2. ASSUME NEW r \in held, NEW c \in Completions, Settle(r, c) PROVE PStep
  BY <1>2, SettleStepOk
<1>3. ASSUME NEW c \in Completions, Resolve(c) PROVE PStep
  BY <1>3, ResolveStepOk
<1>4. ASSUME NEW p \in seen, NEW f \in {ScriptHandler, NoHandler}, NEW g \in {ScriptHandler, NoHandler}, Then(p, f, g)
      PROVE  PStep
  BY <1>4, ThenStepOk DEF Then, ScriptHandler, NoHandler
<1>5. ASSUME NEW p \in seen, CallFinally(p) PROVE PStep
  BY <1>5, ThenStepOk DEF CallFinally
<1>6. ASSUME NEW magic \in Combinators, NEW items \in SeqOf(seen, 2), Combine(magic, items) PROVE PStep
  BY <1>6, CombineStepOk
<1>7. ASSUME NEW ends \in BOOLEAN, NEW c \in Completions, CallAsync(ends, c) PROVE PStep
  BY <1>7, CallAsyncStepOk
<1> QED
  BY <1>1, <1>2, <1>3, <1>4, <1>5, <1>6, <1>7 DEF Script

\* A job that runs a reaction.
Ran(job, kind, u) ==
  /\ job = Job /\ u = Dequeued
  /\ OkReaction(u, job.reaction) /\ OkOutcome(u, job.outcome)
  /\ OkHandler(u, job.reaction.handler) /\ job.reaction.handler.kind = kind
  /\ (job.reaction.cap = None \/ job.reaction.cap \in Pa(u))
  /\ AfterTake(rt, job.reaction.handler, u)
  /\ held' = held

\* The first job is a reaction: what is known of it and of the list without it.
LEMMA ReactOk ==
  ASSUME PInv, NEW kind, Reacts(kind)
  PROVE  \E job, u : Ran(job, kind, u)
<1>1. PICK job : job = Job
  OBVIOUS
<1>2. PICK u : u = Dequeued
  OBVIOUS
<1>3. Takes(rt, job, u)
  BY <1>1, <1>2 DEF PInv, Eng, Reacts, Takes, Job, Dequeued
<1>4. /\ AfterTake(rt, job.reaction.handler, u)
      /\ OkReaction(u, job.reaction) /\ OkOutcome(u, job.outcome)
  BY <1>3, TakeOk
<1>5. OkHandler(u, job.reaction.handler) /\ (job.reaction.cap = None \/ job.reaction.cap \in Pa(u))
  BY <1>4 DEF OkReaction
<1>6. job.reaction.handler.kind = kind /\ held' = held
  BY <1>1 DEF Reacts
<1> QED
  BY <1>1, <1>2, <1>4, <1>5, <1>6 DEF Ran

\* A reaction that resumes nothing is taken off the list.
LEMMA RanFine ==
  ASSUME PInv, NEW job, NEW kind, NEW u, Ran(job, kind, u), kind \notin {"resume", "generator"}
  PROVE  Eng(u) /\ Good(u) /\ Fine(rt, u)
<1>1. PICK k : k = job.reaction.handler
  OBVIOUS
<1>2. ~IsWaker(k)
  BY <1>1 DEF Ran, IsWaker
<1>3. AfterTake(rt, k, u)
  BY <1>1 DEF Ran
<1>4. Good(u) /\ Grows(rt, u) /\ \A h : h # k => Keeps(rt, u, h)
  BY <1>3 DEF AfterTake
<1>5. Quiet(rt, u)
  BY <1>2, <1>4 DEF Quiet
<1> QED
  BY <1>4, <1>5, QuietFine DEF PInv, Fine, Eng

\* The outcome of the handler is passed on.
LEMMA RanComplete ==
  ASSUME PInv, NEW t, NEW u, Fine(rt, u), Good(t), Quiet(u, t), NEW cap, cap = None \/ cap \in Pa(u),
         NEW c, OkOutcome(u, c), rt' = Complete(t, cap, c), UNCHANGED <<held, seen>>
  PROVE  PStep
<1>1. Good(u) /\ Eng(u)
  BY DEF Fine, Eng
<1>2. (cap = None \/ cap \in Pa(t)) /\ OkOutcome(t, c)
  BY <1>1, Later DEF Quiet
<1>3. PICK v : v = rt'
  OBVIOUS
<1>4. v = Complete(t, cap, c)
  BY <1>3
<1>5. Good(v) /\ Quiet(t, v)
  BY <1>2, <1>4, CompleteOk
<1>6. Quiet(u, v)
  BY <1>1, <1>5, QuietTrans
<1>7. Fine(u, v)
  BY <1>1, <1>5, <1>6, QuietFine
<1>8. Fine(rt, v)
  BY <1>7, FineTrans
<1>9. Fine(rt, rt')
  BY <1>3, <1>8
<1> QED
  BY <1>9, PStepOld

\* promise_reaction_job without a handler
LEMMA PassOnOk ==
  ASSUME PInv, PassOn
  PROVE  PStep
<1>1. PICK job, u : Ran(job, "undefined", u)
  BY ReactOk DEF PassOn
<1>2. Eng(u) /\ Good(u) /\ Fine(rt, u)
  BY <1>1, RanFine
<1>3. Quiet(u, u)
  BY <1>2, QuietSame
<1>4. /\ rt' = Complete(u, job.reaction.cap, job.outcome) /\ UNCHANGED <<held, seen>>
      /\ (job.reaction.cap = None \/ job.reaction.cap \in Pa(u)) /\ OkOutcome(u, job.outcome)
  BY <1>1 DEF PassOn, Ran
<1> QED
  BY <1>2, <1>3, <1>4, RanComplete

\* promise_reaction_job with a function of the script
LEMMA CallHandlerOk ==
  ASSUME PInv, NEW c \in Completions, CallHandler(c)
  PROVE  PStep
<1>1. PICK job, u : Ran(job, "script", u)
  BY ReactOk DEF CallHandler
<1>2. Eng(u) /\ Good(u) /\ Fine(rt, u)
  BY <1>1, RanFine
<1>3. Quiet(u, u)
  BY <1>2, QuietSame
<1>4. /\ rt' = Complete(u, job.reaction.cap, c) /\ UNCHANGED <<held, seen>>
      /\ (job.reaction.cap = None \/ job.reaction.cap \in Pa(u)) /\ Pr(u) = Pr(rt)
  BY <1>1 DEF CallHandler, Ran, AfterTake
<1>5. OkOutcome(u, c)
  BY <1>4, CompletionsOk DEF OkOutcome
<1> QED
  BY <1>2, <1>3, <1>4, <1>5, RanComplete

\* promise_reaction_job with a resolving function
LEMMA CallResolvingOk ==
  ASSUME PInv, NEW kind \in {"resolve", "reject"}, CallResolving(kind)
  PROVE  PStep
<1>1. PICK job, u : Ran(job, kind, u)
  BY ReactOk DEF CallResolving
<1>2. Eng(u) /\ Good(u) /\ Fine(rt, u)
  BY <1>1, RanFine
<1>3. PICK c : c = IF kind = "reject" THEN Reason(job.outcome.value) ELSE Value(job.outcome.value)
  OBVIOUS
<1>4. PICK r : r = job.reaction.handler.of
  OBVIOUS
<1>5. PICK t : t = js_promise_resolve_function_call(u, r, c)
  OBVIOUS
<1>6. /\ rt' = Complete(t, job.reaction.cap, Value(Undefined)) /\ UNCHANGED <<held, seen>>
      /\ (job.reaction.cap = None \/ job.reaction.cap \in Pa(u))
  BY <1>1, <1>3, <1>4, <1>5 DEF CallResolving, Ran
<1>7. OkOutcome(u, c)
  <2>1. OkOutcome(u, job.outcome)
    BY <1>1 DEF Ran
  <2> QED
    BY <1>3, <2>1 DEF OkOutcome, AnyOutcome, Value, Reason
<1>8. r \in Pa(u)
  BY <1>1, <1>4 DEF Ran, OkHandler
<1>9. Good(t) /\ Quiet(u, t)
  BY <1>2, <1>5, <1>7, <1>8, CallOk DEF Calls
<1>10. OkOutcome(u, Value(Undefined))
  BY ErrorOk, PromiseAssumption
<1> QED
  BY <1>2, <1>6, <1>9, <1>10, RanComplete

\* promise_reaction_job with a function of Promise.all
LEMMA CallElementOk ==
  ASSUME PInv, CallElement
  PROVE  PStep
<1>1. PICK job, u : Ran(job, "element", u)
  BY ReactOk DEF CallElement
<1>2. Eng(u) /\ Good(u) /\ Fine(rt, u)
  BY <1>1, RanFine
<1>3. PICK g : g = job.reaction.handler.of[1]
  OBVIOUS
<1>4. PICK i : i = job.reaction.handler.of[2]
  OBVIOUS
<1>5. PICK t : t = js_promise_all_resolve_element(u, g, i, job.outcome)
  OBVIOUS
<1>6. /\ rt' = Complete(t, job.reaction.cap, Value(Undefined)) /\ UNCHANGED <<held, seen>>
      /\ (job.reaction.cap = None \/ job.reaction.cap \in Pa(u)) /\ OkOutcome(u, job.outcome)
  BY <1>1, <1>3, <1>4, <1>5 DEF CallElement, Ran
<1>7. g \in Gr(u) /\ i \in Nat
  BY <1>1, <1>3, <1>4 DEF Ran, OkHandler
<1>8. Good(t) /\ Quiet(u, t)
  BY <1>2, <1>5, <1>6, <1>7, ElementOk
<1>9. OkOutcome(u, Value(Undefined))
  BY ErrorOk, PromiseAssumption
<1> QED
  BY <1>2, <1>6, <1>8, <1>9, RanComplete

\* promise_reaction_job with the function of finally
LEMMA CallThenFinallyOk ==
  ASSUME PInv, NEW c \in Completions, CallThenFinally(c)
  PROVE  PStep
<1>1. PICK job, u : Ran(job, "finally", u)
  BY ReactOk DEF CallThenFinally
<1>2. Eng(u) /\ Good(u) /\ Fine(rt, u)
  BY <1>1, RanFine
<1>3. /\ rt' = js_promise_then_finally_func(u, job.reaction, job.outcome, c) /\ UNCHANGED <<held, seen>>
      /\ OkReaction(u, job.reaction) /\ OkOutcome(u, job.outcome) /\ Pr(u) = Pr(rt)
  BY <1>1 DEF CallThenFinally, Ran, AfterTake
<1>4. OkOutcome(u, c)
  BY <1>3, CompletionsOk DEF OkOutcome
<1>5. Good(rt') /\ Quiet(u, rt')
  BY <1>2, <1>3, <1>4, FinallyOk
<1>6. Fine(rt, rt')
  BY <1>2, <1>5, QuietFine, FineTrans
<1> QED
  BY <1>3, <1>6, PStepOld

\* js_promise_finally_value_thunk and js_promise_finally_thrower
LEMMA CallThunkOk ==
  ASSUME PInv, CallThunk
  PROVE  PStep
<1>1. PICK job, u : Ran(job, "thunk", u)
  BY ReactOk DEF CallThunk
<1>2. Eng(u) /\ Good(u) /\ Fine(rt, u)
  BY <1>1, RanFine
<1>3. Quiet(u, u)
  BY <1>2, QuietSame
<1>4. /\ rt' = Complete(u, job.reaction.cap, job.reaction.handler.of) /\ UNCHANGED <<held, seen>>
      /\ (job.reaction.cap = None \/ job.reaction.cap \in Pa(u))
  BY <1>1 DEF CallThunk, Ran
<1>5. OkOutcome(u, job.reaction.handler.of)
  BY <1>1 DEF Ran, OkHandler
<1> QED
  BY <1>2, <1>3, <1>4, <1>5, RanComplete

\* js_async_function_resolve_call: nothing else will resume the function.
LEMMA ResumeAsyncOk ==
  ASSUME PInv, NEW ends \in BOOLEAN, NEW c \in Completions, ResumeAsync(ends, c)
  PROVE  PStep
<1>1. PICK job, u : Ran(job, "resume", u)
  BY ReactOk DEF ResumeAsync
<1>2. PICK k : k = job.reaction.handler
  OBVIOUS
<1>3. PICK a : a = k.of
  OBVIOUS
<1>4. PICK t : t = js_async_function_resume(u, a, ends, c)
  OBVIOUS
<1>5. /\ rt' = Complete(t, job.reaction.cap, Value(Undefined)) /\ UNCHANGED <<held, seen>>
      /\ (job.reaction.cap = None \/ job.reaction.cap \in Pa(u)) /\ AfterTake(rt, k, u)
      /\ OkHandler(u, k) /\ k.kind = "resume"
  BY <1>1, <1>2, <1>3, <1>4 DEF ResumeAsync, Ran
<1>6. k = Handler("resume", a) /\ a \in As(u)
  <2>1. k \in AnyHandler /\ a \in As(u)
    BY <1>3, <1>5 DEF OkHandler
  <2>2. k = [kind |-> k.kind, of |-> k.of]
    BY <2>1 DEF AnyHandler
  <2> QED
    BY <1>3, <1>5, <2>1, <2>2 DEF Handler
<1>7. /\ Good(u) /\ Grows(rt, u) /\ Pr(u) = Pr(rt) /\ u.asyncs = rt.asyncs /\ As(u) = As(rt)
      /\ \A h : h # k => Keeps(rt, u, h)
      /\ ~Never(rt, k) /\ (Once(rt, k) => Never(u, k))
  BY <1>5 DEF AfterTake, As
<1>8. Good(rt) /\ \A b \in As(rt) : AsOnce(rt, b)
  BY DEF PInv, Eng
<1>9. u.asyncs[a].active /\ Never(u, Handler("resume", a))
  BY <1>6, <1>7, <1>8 DEF AsOnce
<1>10. ASSUME NEW b \in As(u), b # a PROVE AsOnce(u, b)
  <2>1. Handler("resume", b) # k
    BY <1>6, <1>10, HandlersDiffer
  <2>2. Keeps(rt, u, Handler("resume", b))
    BY <1>7, <2>1
  <2> QED
    BY <1>7, <1>8, <2>2 DEF AsOnce, Keeps
<1>11. Resumable(u, a)
  BY <1>6, <1>7, <1>9, <1>10 DEF Resumable
<1>12. OkOutcome(u, c)
  BY <1>7, CompletionsOk DEF OkOutcome
<1>13. Fine(u, t)
  BY <1>4, <1>11, <1>12, ResumeOk
<1>14. KeepsGen(rt, u) /\ Stays(rt, u)
  <2>1. \A w : Handler("generator", w) # k
    BY <1>6, HandlersDiffer
  <2>2. KeepsGen(rt, u)
    BY <1>7, <2>1 DEF KeepsGen
  <2>3. Stays(rt, u)
    BY <1>7, <1>8, Later DEF Stays
  <2> QED
    BY <2>2, <2>3
<1>15. Fine(rt, t)
  BY <1>13, <1>14 DEF Fine, KeepsGen, Keeps, Stays
<1>16. Good(t) /\ Quiet(t, t)
  BY <1>13, QuietSame DEF Fine, Eng
<1>17. OkOutcome(t, Value(Undefined))
  BY ErrorOk, PromiseAssumption
<1>18. job.reaction.cap = None \/ job.reaction.cap \in Pa(t)
  BY <1>5, <1>13 DEF Fine, Stays
<1> QED
  BY <1>5, <1>15, <1>16, <1>17, <1>18, RanComplete

\* js_promise_resolve_thenable_job
LEMMA ResolveThenableOk ==
  ASSUME PInv, ResolveThenable
  PROVE  PStep
<1>1. PICK job : job = Job
  OBVIOUS
<1>2. PICK p : p = job.promise
  OBVIOUS
<1>3. PICK t : t = js_create_resolving_functions(Dequeued, p)
  OBVIOUS
<1>4. PICK r : r = NewestPair(t)
  OBVIOUS
<1>5. rt.jobs # <<>> /\ job.type = "thenable" /\ seen' = seen
  BY <1>1 DEF ResolveThenable
<1>6. Adopts(rt, job, t)
  BY <1>1, <1>2, <1>3, <1>5 DEF Adopts, PInv, Eng, Job, Dequeued
<1>7. /\ Good(t) /\ Quiet(rt, t) /\ Pr(t) = Pr(rt) /\ r \in Pa(t)
      /\ p \in Pr(t) /\ (job.thenable = Thenable \/ job.thenable \in Pr(t))
  BY <1>2, <1>4, <1>6, AdoptOk
<1>8. Fine(rt, t) /\ Eng(t)
  BY <1>7, QuietFine DEF PInv, Fine
<1>9. \/ /\ IsPromise(job.thenable)
         /\ rt' = perform_promise_then([t EXCEPT !.promises[p].mirrors = job.thenable],
                    job.thenable, Handler("resolve", r), Handler("reject", r), None)
         /\ held' = held
      \/ /\ job.thenable = Thenable
         /\ rt' \in {t, js_promise_resolve_function_call(t, r, Reason(Error))}
         /\ held' = held \cup {r}
  BY <1>1, <1>2, <1>3, <1>4 DEF ResolveThenable
<1>10. CASE /\ IsPromise(job.thenable)
            /\ rt' = perform_promise_then([t EXCEPT !.promises[p].mirrors = job.thenable],
                       job.thenable, Handler("resolve", r), Handler("reject", r), None)
            /\ held' = held
  <2>1. PICK q : q = job.thenable
    OBVIOUS
  <2>2. q \in Nat
    BY <1>10, <2>1, PromiseAssumption DEF IsPromise, Promises
  <2>3. q # Thenable
    BY <2>2, PromiseAssumption
  <2>4. q \in Pr(t)
    BY <1>7, <2>1, <2>3
  <2>5. PICK u : u = [t EXCEPT !.promises[p].mirrors = q]
    OBVIOUS
  <2>6. Good(u) /\ Quiet(t, u) /\ Pr(u) = Pr(t) /\ Pa(u) = Pa(t)
    BY <1>7, <2>2, <2>5, MirrorOk
  <2>7. PICK f : f = Handler("resolve", r)
    OBVIOUS
  <2>8. PICK g : g = Handler("reject", r)
    OBVIOUS
  <2>9. OkHandler(u, f) /\ ~IsWaker(f) /\ OkHandler(u, g) /\ ~IsWaker(g)
    BY <1>7, <2>6, <2>7, <2>8, HandlersOk
  <2>10. PICK v : v = rt'
    OBVIOUS
  <2>11. v = perform_promise_then(u, q, f, g, None)
    BY <1>10, <2>1, <2>5, <2>7, <2>8, <2>10
  <2>12. Registers(u, q, f, g, None, v)
    BY <2>4, <2>6, <2>9, <2>11 DEF Registers
  <2>13. Good(v) /\ Quiet(u, v)
    BY <2>9, <2>12, ThenOk, ThenQuiet
  <2>14. Quiet(t, v)
    BY <1>7, <2>6, <2>13, QuietTrans
  <2>15. Fine(t, v)
    BY <1>8, <2>13, <2>14, QuietFine
  <2>16. Fine(rt, v)
    BY <1>8, <2>15, FineTrans
  <2>17. Fine(rt, rt')
    BY <2>10, <2>16
  <2> QED
    BY <1>5, <1>10, <2>17, PStepOld
<1>11. CASE /\ job.thenable = Thenable
            /\ rt' \in {t, js_promise_resolve_function_call(t, r, Reason(Error))}
            /\ held' = held \cup {r}
  <2>1. Known(t, held', seen')
    BY <1>5, <1>7, <1>8, <1>11 DEF Fine, Stays, Known, PInv
  <2>2. CASE rt' = t
    BY <1>8, <2>1, <2>2 DEF PStep
  <2>3. CASE rt' = js_promise_resolve_function_call(t, r, Reason(Error))
    <3>1. PICK c : c = Reason(Error)
      OBVIOUS
    <3>2. OkOutcome(t, c)
      BY <3>1, ErrorOk
    <3>3. Calls(t, r, c, rt')
      BY <1>7, <2>3, <3>1, <3>2 DEF Calls
    <3>4. Fine(t, rt')
      BY <1>8, <3>3, FineCalls
    <3>5. Known(rt', held', seen')
      BY <2>1, <3>4 DEF Fine, Stays, Known
    <3> QED
      BY <1>8, <3>4, <3>5, FineTrans DEF PStep
  <2> QED
    BY <1>11, <2>2, <2>3
<1> QED
  BY <1>9, <1>10, <1>11

\* Every job keeps the state sound.
LEMMA RunJobOk ==
  ASSUME PInv, RunJob
  PROVE  PStep
<1>1. CASE PassOn
  BY <1>1, PassOnOk
<1>2. ASSUME NEW c \in Completions, CallHandler(c) PROVE PStep
  BY <1>2, CallHandlerOk
<1>3. ASSUME NEW c \in Completions, CallThenFinally(c) PROVE PStep
  BY <1>3, CallThenFinallyOk
<1>4. ASSUME NEW kind \in {"resolve", "reject"}, CallResolving(kind) PROVE PStep
  BY <1>4, CallResolvingOk
<1>5. CASE CallElement
  BY <1>5, CallElementOk
<1>6. CASE CallThunk
  BY <1>6, CallThunkOk
<1>7. ASSUME NEW ends \in BOOLEAN, NEW c \in Completions, ResumeAsync(ends, c) PROVE PStep
  BY <1>7, ResumeAsyncOk
<1>8. CASE ResolveThenable
  BY <1>8, ResolveThenableOk
<1> QED
  BY <1>1, <1>2, <1>3, <1>4, <1>5, <1>6, <1>7, <1>8 DEF RunJob

-----------------------------------------------------------------------------
(* The generator *)

GenStates == {"start", "yield", "yieldStar", "executing", "awaitingReturn", "completed"}
GenFrames == {"suspended", "running", "freed", "gone"}
ReqKinds  == {"next", "return", "throw"}
AnyRequest == [n : Nat, kind : ReqKinds, value : AnyValue, pair : Nat]
AnyAnswer  == [to : Nat, what : {"yield", "done", "reject"}]

IsGen(g) ==
  g \in [state : GenStates, queue : Seq(AnyRequest), frame : GenFrames, stack : {g.stack},
         awaits : Nat, asked : Seq(ReqKinds), answers : Seq(AnyAnswer), fault : BOOLEAN]

\* The requests have a promise of their own, and values that are there.
QueueOk(s, q) ==
  \A i \in 1 .. Len(q) : q[i].pair \in Pa(s) /\ OkOutcome(s, Value(q[i].value))

AInv == PInv /\ IsGen(gen) /\ QueueOk(rt, gen.queue)

HAwait  == Handler("generator", "await")
HReturn == Handler("generator", "return")

\* A step of the engine, maybe with reactions of the generator.
Goes(s, t) == Eng(t) /\ Stays(s, t) /\ \A o : OkOutcome(s, o) => OkOutcome(t, o)

\* A step that is none of the generator's leaves its reactions as they were.
LEMMA FineGoes ==
  ASSUME NEW s, NEW t, Fine(s, t)
  PROVE  Goes(s, t) /\ Keeps(s, t, HAwait) /\ Keeps(s, t, HReturn)
BY DEF Fine, Goes, KeepsGen, Stays, OkOutcome, HAwait, HReturn

\* The requests stay sound.
LEMMA QueueStays ==
  ASSUME NEW s, NEW t, Goes(s, t), NEW q, QueueOk(s, q)
  PROVE  QueueOk(t, q)
BY DEF Goes, Stays, QueueOk

\* js_async_generator_await registers one reaction of the generator's.
LEMMA GenAwaitOk ==
  ASSUME NEW s, Eng(s), NEW v, OkOutcome(s, Value(v)), NEW w \in {"await", "return"},
         NEW t, t = Await(s, v, w)
  PROVE  /\ Goes(s, t) /\ (Never(s, Handler("generator", w)) => Once(t, Handler("generator", w)))
         /\ \A x : x \in {"await", "return"} /\ x # w => Keeps(s, t, Handler("generator", x))
<1>1. PICK h : h = Handler("generator", w)
  OBVIOUS
<1>2. Good(s) /\ OkHandler(s, h) /\ IsWaker(h)
  BY <1>1, HandlersOk DEF Eng
<1>3. PICK x : x = js_promise_resolve(s, Value(v))
  OBVIOUS
<1>4. t = perform_promise_then(x[1], x[2], h, h, None)
  BY <1>1, <1>3 DEF Await
<1>5. Wakes(s, h, t)
  BY <1>2, <1>3, <1>4, AwaitOk
<1>6. /\ Good(t) /\ Grows(s, t) /\ (Never(s, h) => Once(t, h))
      /\ \A k \in AnyHandler : IsWaker(k) /\ k # h => Keeps(s, t, k)
  BY <1>5 DEF Wakes
<1>7. t.asyncs = s.asyncs /\ As(t) = As(s)
  BY <1>6 DEF Grows, As
<1>8. /\ \A b \in As(s) : Handler("resume", b) \in AnyHandler /\ IsWaker(Handler("resume", b))
      /\ \A y \in {"await", "return"} : Handler("generator", y) \in AnyHandler /\ IsWaker(Handler("generator", y))
  BY <1>2, HandlersOk DEF OkHandler
<1>9. ASSUME NEW b \in As(s) PROVE AsOnce(t, b)
  <2>1. Handler("resume", b) # h
    BY <1>1, HandlersDiffer
  <2>2. Keeps(s, t, Handler("resume", b))
    BY <1>6, <1>8, <2>1
  <2> QED
    BY <1>7, <2>2 DEF AsOnce, Keeps, Eng
<1>10. Eng(t)
  BY <1>6, <1>7, <1>9 DEF Eng
<1>11. Stays(s, t) /\ \A o : OkOutcome(s, o) => OkOutcome(t, o)
  BY <1>2, <1>6, Later DEF Stays
<1>12. ASSUME NEW y, y \in {"await", "return"}, y # w PROVE Keeps(s, t, Handler("generator", y))
  <2>1. Handler("generator", y) # h
    BY <1>1, <1>12, HandlersDiffer
  <2> QED
    BY <1>6, <1>8, <1>12, <2>1
<1> QED
  BY <1>1, <1>6, <1>10, <1>11, <1>12 DEF Goes

\* The reaction of the generator's await is run.
LEMMA GenReactOk ==
  ASSUME PInv, NEW w \in {"await", "return"}, Awaited(w)
  PROVE  \E job, u :
           /\ job = Job /\ u = Dequeued /\ OkOutcome(u, job.outcome) /\ Goes(rt, u)
           /\ ~Never(rt, Handler("generator", w))
           /\ Once(rt, Handler("generator", w)) => Never(u, Handler("generator", w))
           /\ \A x : x # w => Keeps(rt, u, Handler("generator", x))
<1>1. PICK job, u : Ran(job, "generator", u)
  BY ReactOk DEF Awaited
<1>2. PICK k : k = job.reaction.handler
  OBVIOUS
<1>3. /\ job = Job /\ u = Dequeued /\ OkOutcome(u, job.outcome) /\ AfterTake(rt, k, u)
      /\ k \in AnyHandler /\ k.kind = "generator"
  BY <1>1, <1>2 DEF Ran, OkHandler
<1>4. k.of = w
  BY <1>2, <1>3 DEF Awaited
<1>5. k = Handler("generator", w)
  <2>1. k = [kind |-> k.kind, of |-> k.of]
    BY <1>3 DEF AnyHandler
  <2> QED
    BY <1>3, <1>4, <2>1 DEF Handler
<1>6. /\ Good(u) /\ Grows(rt, u) /\ u.asyncs = rt.asyncs /\ As(u) = As(rt)
      /\ \A h : h # k => Keeps(rt, u, h)
      /\ ~Never(rt, k) /\ (Once(rt, k) => Never(u, k))
  BY <1>3 DEF AfterTake, As
<1>7. Good(rt) /\ \A b \in As(rt) : AsOnce(rt, b)
  BY DEF PInv, Eng
<1>8. ASSUME NEW b \in As(u) PROVE AsOnce(u, b)
  <2>1. Handler("resume", b) # k
    BY <1>5, HandlersDiffer
  <2>2. Keeps(rt, u, Handler("resume", b))
    BY <1>6, <2>1
  <2> QED
    BY <1>6, <1>7, <2>2 DEF AsOnce, Keeps
<1>9. Eng(u)
  BY <1>6, <1>8 DEF Eng
<1>10. Stays(rt, u) /\ \A o : OkOutcome(rt, o) => OkOutcome(u, o)
  BY <1>6, <1>7, Later DEF Stays
<1>11. \A x : x # w => Keeps(rt, u, Handler("generator", x))
  <2> SUFFICES ASSUME NEW x, x # w PROVE Keeps(rt, u, Handler("generator", x))
    OBVIOUS
  <2>1. Handler("generator", x) # k
    BY <1>5, HandlersDiffer
  <2> QED
    BY <1>6, <2>1
<1> QED
  BY <1>3, <1>5, <1>6, <1>9, <1>10, <1>11 DEF Goes

\* The reactions that wake the generator are as many as before.
Same == Keeps(rt, rt', HAwait) /\ Keeps(rt, rt', HReturn)

\* What a step has to show.
LEMMA AInvNext ==
  ASSUME AInv, Goes(rt, rt'), UNCHANGED <<script, held, seen>>, IsGen(gen'), QueueOk(rt', gen'.queue)
  PROVE  AInv'
BY DEF AInv, PInv, Goes, Known, Stays

\* The engine is left alone, and so is the queue.
LEMMA QuietStep ==
  ASSUME AInv, UNCHANGED <<rt, script, held, seen>>, IsGen(gen'), gen'.queue = gen.queue
  PROVE  AInv' /\ Same
BY DEF AInv, PInv, Same, Keeps

\* js_async_generator_next: the new request has a promise of its own.
LEMMA RequestOk ==
  ASSUME AInv, NEW kind \in ReqKinds, NEW v, OkOutcome(rt, Value(v)),
         js_async_generator_next(kind, v), script' = script
  PROVE  AInv' /\ Same
<1>1. PICK t : t = js_new_promise_capability(rt)
  OBVIOUS
<1>2. Good(rt) /\ Eng(rt) /\ IsNew(rt, t)
  BY <1>1, NewOk DEF AInv, PInv, Eng
<1>3. Fine(rt, t)
  BY <1>2, QuietFine DEF IsNew
<1>4. Goes(rt, t) /\ Keeps(rt, t, HAwait) /\ Keeps(rt, t, HReturn)
  BY <1>3, FineGoes
<1>5. PICK r : r = [n |-> Len(gen.asked) + 1, kind |-> kind, value |-> v, pair |-> NewestPair(t)]
  OBVIOUS
<1>6. /\ rt' = t /\ UNCHANGED <<held, seen>>
      /\ gen' = IF gen.state = "executing"
                THEN [gen EXCEPT !.queue = Append(@, r), !.asked = Append(@, kind)]
                ELSE Push([gen EXCEPT !.queue = Append(@, r), !.asked = Append(@, kind)], "loop")
  BY <1>1, <1>5 DEF js_async_generator_next
<1>7. gen.queue \in Seq(AnyRequest) /\ gen.asked \in Seq(ReqKinds)
  BY DEF AInv, IsGen
<1>8. NewestPair(t) \in Nat /\ NewestPair(t) \in Pa(t)
  BY <1>2 DEF IsNew, Good, AnyEngine, Pa
<1>9. v \in AnyValue
  BY DEF OkOutcome, AnyOutcome, Value
<1>10. Len(gen.asked) + 1 \in Nat
  BY <1>7
<1>11. r \in AnyRequest /\ r.pair \in Pa(t) /\ r.value = v
  BY <1>5, <1>8, <1>9, <1>10 DEF AnyRequest
<1>12. PICK q : q = Append(gen.queue, r)
  OBVIOUS
<1>13. q \in Seq(AnyRequest) /\ Append(gen.asked, kind) \in Seq(ReqKinds)
  BY <1>7, <1>11, <1>12
<1>14. IsGen(gen') /\ gen'.queue = q
  BY <1>6, <1>12, <1>13 DEF AInv, IsGen, Push
<1>15. QueueOk(t, gen.queue)
  BY <1>4, QueueStays DEF AInv
<1>16. OkOutcome(t, Value(v))
  BY <1>4 DEF Goes
<1>17. /\ Len(q) = Len(gen.queue) + 1 /\ q[Len(gen.queue) + 1] = r
       /\ \A j \in 1 .. Len(gen.queue) : q[j] = gen.queue[j]
  BY <1>7, <1>11, <1>12, SeqAppend
<1>18. PICK n \in Nat : n = Len(gen.queue)
  BY <1>7
<1>19. \A i \in 1 .. n + 1 : i \in 1 .. n \/ i = n + 1
  OBVIOUS
<1>20. QueueOk(t, q)
  BY <1>11, <1>15, <1>16, <1>17, <1>18, <1>19 DEF QueueOk
<1> QED
  BY <1>4, <1>6, <1>14, <1>20, AInvNext DEF Same

\* js_async_generator_resolve_or_reject: the first request is answered.
LEMMA AnswerOk ==
  ASSUME NEW s, Eng(s), NEW g, IsGen(g), QueueOk(s, g.queue), NEW what \in {"yield", "done", "reject"},
         NEW c, OkOutcome(s, c), js_async_generator_resolve_or_reject(s, g, what, c)
  PROVE  Fine(s, rt') /\ IsGen(gen') /\ QueueOk(rt', gen'.queue)
<1>1. Good(s) /\ g.queue \in Seq(AnyRequest) /\ g.answers \in Seq(AnyAnswer)
  BY DEF Eng, IsGen
<1>2. CASE g.queue = <<>>
  <2>1. rt' = s /\ gen' = [g EXCEPT !.fault = TRUE]
    BY <1>2 DEF js_async_generator_resolve_or_reject
  <2>2. Quiet(s, s)
    BY <1>1, QuietSame
  <2>3. Fine(s, rt')
    BY <1>1, <2>1, <2>2, QuietFine
  <2>4. IsGen(gen') /\ gen'.queue = g.queue
    BY <2>1 DEF IsGen
  <2> QED
    BY <2>1, <2>3, <2>4
<1>3. CASE g.queue # <<>>
  <2>1. PICK q, r : q = Tail(g.queue) /\ r = g.queue[1]
    OBVIOUS
  <2>2. /\ q \in Seq(AnyRequest) /\ Len(q) = Len(g.queue) - 1 /\ Len(g.queue) > 0
        /\ r = Head(g.queue) /\ r \in AnyRequest
        /\ \A j \in 1 .. Len(g.queue) - 1 : q[j] = g.queue[j + 1]
    BY <1>1, <1>3, <2>1, SeqTail
  <2>3. PICK n \in Nat : n = Len(g.queue)
    BY <1>1
  <2>4. r.pair \in Pa(s)
    BY <2>1, <2>2, <2>3 DEF QueueOk
  <2>5. PICK x : x = [to |-> r.n, what |-> what]
    OBVIOUS
  <2>6. /\ rt' = js_promise_resolve_function_call(s, r.pair, c)
        /\ gen' = [g EXCEPT !.queue = q, !.answers = Append(@, x)]
    BY <1>3, <2>1, <2>2, <2>5 DEF js_async_generator_resolve_or_reject
  <2>7. Calls(s, r.pair, c, rt')
    BY <1>1, <2>4, <2>6 DEF Calls
  <2>8. Fine(s, rt')
    BY <2>7, FineCalls
  <2>9. x \in AnyAnswer
    BY <2>2, <2>5 DEF AnyAnswer, AnyRequest
  <2>10. Append(g.answers, x) \in Seq(AnyAnswer)
    BY <1>1, <2>9
  <2>11. IsGen(gen') /\ gen'.queue = q
    BY <2>2, <2>6, <2>10 DEF IsGen
  <2>12. QueueOk(s, q)
    <3>1. \A i \in 1 .. n - 1 : i + 1 \in 1 .. n
      OBVIOUS
    <3> QED
      BY <2>2, <2>3, <3>1 DEF QueueOk
  <2>13. Goes(s, rt')
    BY <2>8, FineGoes
  <2> QED
    BY <2>8, <2>11, <2>12, <2>13, QueueStays
<1> QED
  BY <1>2, <1>3

\* The turns of the loop that only move the generator on.
Moves == LoopEnd \/ LoopResume \/ LoopAbandon \/ LoopAnswered \/ Finalize

\* They keep the state sound.
LEMMA MovesOk ==
  ASSUME AInv, Moves, script' = script
  PROVE  AInv' /\ Same
<1>1. IsGen(gen)
  BY DEF AInv
<1>2. CASE LoopEnd
  <2>1. IsGen(gen') /\ gen'.queue = gen.queue
    BY <1>1, <1>2 DEF LoopEnd, Pop, IsGen
  <2> QED
    BY <1>2, <2>1, QuietStep DEF LoopEnd
<1>3. CASE LoopResume
  <2>1. IsGen(gen') /\ gen'.queue = gen.queue
    BY <1>1, <1>3 DEF LoopResume, async_func_resume, At, IsGen, GenStates, GenFrames
  <2> QED
    BY <1>3, <2>1, QuietStep DEF LoopResume, Loop
<1>4. CASE LoopAbandon
  <2>1. IsGen(gen') /\ gen'.queue = gen.queue
    BY <1>1, <1>4 DEF LoopAbandon, js_async_generator_complete, async_func_free, IsGen, GenStates, GenFrames
  <2> QED
    BY <1>4, <2>1, QuietStep DEF LoopAbandon, Loop
<1>5. CASE LoopAnswered
  <2>1. IsGen(gen') /\ gen'.queue = gen.queue
    BY <1>1, <1>5 DEF LoopAnswered, At, Pop, IsGen
  <2> QED
    BY <1>5, <2>1, QuietStep DEF LoopAnswered
<1>6. CASE Finalize
  <2>1. IsGen(gen') /\ gen'.queue = gen.queue
    BY <1>1, <1>6 DEF Finalize, async_func_free, IsGen, GenFrames
  <2> QED
    BY <1>6, <2>1, QuietStep DEF Finalize
<1> QED
  BY <1>2, <1>3, <1>4, <1>5, <1>6 DEF Moves

\* A step that answers the first request.
LEMMA AnswerStep ==
  ASSUME AInv, NEW g, IsGen(g), g.queue = gen.queue, NEW what \in {"yield", "done", "reject"},
         NEW c, OkOutcome(rt, c), js_async_generator_resolve_or_reject(rt, g, what, c),
         UNCHANGED <<script, held, seen>>
  PROVE  AInv' /\ Same
<1>1. Eng(rt) /\ QueueOk(rt, g.queue)
  BY DEF AInv, PInv
<1>2. Fine(rt, rt') /\ IsGen(gen') /\ QueueOk(rt', gen'.queue)
  BY <1>1, AnswerOk
<1>3. Goes(rt, rt') /\ Same
  BY <1>2, FineGoes DEF Same
<1> QED
  BY <1>2, <1>3, AInvNext

\* The values of the requests, and those the engine answers with.
LEMMA ValuesOk ==
  ASSUME AInv
  PROVE  /\ gen.queue # <<>> => OkOutcome(rt, Value(Head(gen.queue).value))
         /\ gen.queue # <<>> => OkOutcome(rt, Reason(Head(gen.queue).value))
         /\ \A s : OkOutcome(s, Value(Result)) /\ OkOutcome(s, Reason(Error))
<1>1. ASSUME gen.queue # <<>> PROVE OkOutcome(rt, Value(Head(gen.queue).value))
  <2>1. gen.queue \in Seq(AnyRequest)
    BY DEF AInv, IsGen
  <2>2. 1 \in 1 .. Len(gen.queue) /\ Head(gen.queue) = gen.queue[1]
    BY <1>1, <2>1
  <2> QED
    BY <2>2 DEF AInv, QueueOk
<1>2. ASSUME gen.queue # <<>> PROVE OkOutcome(rt, Reason(Head(gen.queue).value))
  BY <1>1, <1>2 DEF OkOutcome, Value, Reason, AnyOutcome
<1>3. \A s : OkOutcome(s, Value(Result)) /\ OkOutcome(s, Reason(Error))
  BY ErrorOk, GeneratorAssumption
<1> QED
  BY <1>1, <1>2, <1>3

\* An ended generator answers next and throw.
LEMMA LoopAnswerOk ==
  ASSUME AInv, LoopAnswer, script' = script
  PROVE  AInv' /\ Same
<1>1. UNCHANGED <<held, seen>> /\ gen.queue # <<>> /\ IsGen(gen)
  BY DEF LoopAnswer, Loop, AInv
<1>2. CASE js_async_generator_resolve_or_reject(rt, At(gen, "last"), "done", Value(Result))
  <2>1. PICK g : g = At(gen, "last")
    OBVIOUS
  <2>2. IsGen(g) /\ g.queue = gen.queue
    BY <1>1, <2>1 DEF IsGen, At
  <2>3. PICK c : c = Value(Result)
    OBVIOUS
  <2>4. OkOutcome(rt, c)
    BY <2>3, ValuesOk
  <2> QED
    BY <1>1, <1>2, <2>1, <2>2, <2>3, <2>4, AnswerStep
<1>3. CASE js_async_generator_resolve_or_reject(rt, Pop(gen), "reject", Reason(Head(gen.queue).value))
  <2>1. PICK g : g = Pop(gen)
    OBVIOUS
  <2>2. IsGen(g) /\ g.queue = gen.queue
    BY <1>1, <2>1 DEF IsGen, Pop
  <2>3. PICK c : c = Reason(Head(gen.queue).value)
    OBVIOUS
  <2>4. OkOutcome(rt, c)
    BY <1>1, <2>3, ValuesOk
  <2> QED
    BY <1>1, <1>3, <2>1, <2>2, <2>3, <2>4, AnswerStep
<1> QED
  BY <1>2, <1>3 DEF LoopAnswer

\* Yield, return and throw of the body.
LEMMA BodyAnswerOk ==
  ASSUME AInv, (\E state \in {"yield", "yieldStar"} : Yield(state)) \/ BodyReturn \/ BodyThrow,
         script' = script
  PROVE  AInv' /\ Same
<1>1. UNCHANGED <<held, seen>> /\ IsGen(gen)
  BY DEF Yield, BodyReturn, BodyThrow, BodyRuns, AInv
<1>2. ASSUME NEW state \in {"yield", "yieldStar"}, Yield(state) PROVE AInv' /\ Same
  <2>1. PICK g : g = At([Suspended EXCEPT !.state = state], "again")
    OBVIOUS
  <2>2. IsGen(g) /\ g.queue = gen.queue
    BY <1>1, <2>1 DEF IsGen, At, Suspended, GenFrames, GenStates
  <2>3. PICK c : c = Value(Result)
    OBVIOUS
  <2>4. OkOutcome(rt, c)
    BY <2>3, ValuesOk
  <2>5. js_async_generator_resolve_or_reject(rt, g, "yield", c)
    BY <1>2, <2>1, <2>3 DEF Yield
  <2> QED
    BY <1>1, <2>2, <2>4, <2>5, AnswerStep
<1>3. PICK f : f = js_async_generator_complete(Suspended)
  OBVIOUS
<1>4. IsGen(f) /\ f.queue = gen.queue
  BY <1>1, <1>3 DEF IsGen, Suspended, js_async_generator_complete, async_func_free, GenFrames, GenStates
<1>5. CASE BodyReturn
  <2>1. PICK g : g = At(f, "again")
    OBVIOUS
  <2>2. IsGen(g) /\ g.queue = gen.queue
    BY <1>4, <2>1 DEF IsGen, At
  <2>3. PICK c : c = Value(Result)
    OBVIOUS
  <2>4. OkOutcome(rt, c)
    BY <2>3, ValuesOk
  <2>5. js_async_generator_resolve_or_reject(rt, g, "done", c)
    BY <1>3, <1>5, <2>1, <2>3 DEF BodyReturn
  <2> QED
    BY <1>1, <2>2, <2>4, <2>5, AnswerStep
<1>6. CASE BodyThrow
  <2>1. PICK g : g = At(f, "loop")
    OBVIOUS
  <2>2. IsGen(g) /\ g.queue = gen.queue
    BY <1>4, <2>1 DEF IsGen, At
  <2>3. PICK c : c = Reason(Error)
    OBVIOUS
  <2>4. OkOutcome(rt, c)
    BY <2>3, ValuesOk
  <2>5. js_async_generator_resolve_or_reject(rt, g, "reject", c)
    BY <1>3, <1>6, <2>1, <2>3 DEF BodyThrow
  <2> QED
    BY <1>1, <2>2, <2>4, <2>5, AnswerStep
<1> QED
  BY <1>2, <1>5, <1>6

\* js_async_generator_completed_return: a request to return is awaited.
LEMMA AwaitReturnOk ==
  ASSUME AInv, LoopAwaitReturn, script' = script
  PROVE  AInv' /\ Keeps(rt, rt', HAwait) /\ (Never(rt, HReturn) => Once(rt', HReturn))
<1>1. UNCHANGED <<held, seen>> /\ gen.queue # <<>> /\ IsGen(gen) /\ Eng(rt)
  BY DEF LoopAwaitReturn, Loop, AInv, PInv
<1>2. PICK v : v = Head(gen.queue).value
  OBVIOUS
<1>3. OkOutcome(rt, Value(v)) /\ rt' = Await(rt, v, "return")
  BY <1>1, <1>2, ValuesOk DEF LoopAwaitReturn
<1>4. /\ Goes(rt, rt') /\ (Never(rt, HReturn) => Once(rt', HReturn)) /\ Keeps(rt, rt', HAwait)
  BY <1>1, <1>3, GenAwaitOk DEF HAwait, HReturn
<1>5. IsGen(gen') /\ gen'.queue = gen.queue
  BY <1>1 DEF LoopAwaitReturn, Pop, IsGen, GenStates
<1>6. QueueOk(rt', gen'.queue)
  BY <1>4, <1>5, QueueStays DEF AInv
<1> QED
  BY <1>1, <1>4, <1>5, <1>6, AInvNext

\* js_async_generator_await
LEMMA BodyAwaitOk ==
  ASSUME AInv, NEW v \in Things, BodyAwait(v), script' = script
  PROVE  AInv' /\ Keeps(rt, rt', HReturn) /\ (Never(rt, HAwait) => Once(rt', HAwait))
<1>1. UNCHANGED <<held, seen>> /\ IsGen(gen) /\ Eng(rt) /\ PInv
  BY DEF BodyAwait, BodyRuns, AInv, PInv
<1>2. OkOutcome(rt, Value(v)) /\ rt' = Await(rt, v, "await")
  BY <1>1, CompletionsOk DEF BodyAwait
<1>3. /\ Goes(rt, rt') /\ (Never(rt, HAwait) => Once(rt', HAwait)) /\ Keeps(rt, rt', HReturn)
  BY <1>1, <1>2, GenAwaitOk DEF HAwait, HReturn
<1>4. IsGen(gen') /\ gen'.queue = gen.queue
  <2>1. PICK a : a = gen.awaits + 1
    OBVIOUS
  <2>2. a \in Nat
    BY <1>1, <2>1 DEF IsGen
  <2>3. gen' = Pop([gen EXCEPT !.frame = "suspended", !.awaits = a])
    BY <1>1, <2>1 DEF BodyAwait, Suspended, IsGen
  <2> QED
    BY <1>1, <2>2, <2>3 DEF Pop, IsGen, GenFrames
<1>5. QueueOk(rt', gen'.queue)
  BY <1>3, <1>4, QueueStays DEF AInv
<1> QED
  BY <1>1, <1>3, <1>4, <1>5, AInvNext

\* js_async_generator_resolve_function, for the body.
LEMMA AwaitOverOk ==
  ASSUME AInv, AwaitOver, script' = script
  PROVE  /\ AInv' /\ Keeps(rt, rt', HReturn)
         /\ ~Never(rt, HAwait) /\ (Once(rt, HAwait) => Never(rt', HAwait))
<1>1. UNCHANGED <<held, seen>> /\ IsGen(gen) /\ PInv /\ Awaited("await")
  BY DEF AwaitOver, Awaited, Reacts, AInv
<1>2. PICK job, u :
        /\ job = Job /\ u = Dequeued /\ OkOutcome(u, job.outcome) /\ Goes(rt, u)
        /\ ~Never(rt, Handler("generator", "await"))
        /\ Once(rt, Handler("generator", "await")) => Never(u, Handler("generator", "await"))
        /\ \A x : x # "await" => Keeps(rt, u, Handler("generator", x))
  BY <1>1, GenReactOk
<1>3. rt' = u
  BY <1>2 DEF AwaitOver
<1>4. IsGen(gen') /\ gen'.queue = gen.queue
  BY <1>1 DEF AwaitOver, Push, IsGen
<1>5. QueueOk(rt', gen'.queue) /\ Goes(rt, rt')
  BY <1>2, <1>3, <1>4, QueueStays DEF AInv
<1>6. AInv'
  BY <1>1, <1>4, <1>5, AInvNext
<1> QED
  BY <1>2, <1>3, <1>6 DEF HAwait, HReturn

\* js_async_generator_resolve_function, for a request to return.
LEMMA ReturnOverOk ==
  ASSUME AInv, ReturnOver, script' = script
  PROVE  /\ AInv' /\ Keeps(rt, rt', HAwait)
         /\ ~Never(rt, HReturn) /\ (Once(rt, HReturn) => Never(rt', HReturn))
<1>1. UNCHANGED <<held, seen>> /\ IsGen(gen) /\ PInv /\ Awaited("return")
  BY DEF ReturnOver, Awaited, Reacts, AInv
<1>2. PICK job, u :
        /\ job = Job /\ u = Dequeued /\ OkOutcome(u, job.outcome) /\ Goes(rt, u)
        /\ ~Never(rt, Handler("generator", "return"))
        /\ Once(rt, Handler("generator", "return")) => Never(u, Handler("generator", "return"))
        /\ \A x : x # "return" => Keeps(rt, u, Handler("generator", x))
  BY <1>1, GenReactOk
<1>3. PICK g : g = [gen EXCEPT !.state = "completed",
                       !.fault = @ \/ gen.state \notin {"awaitingReturn", "completed"}]
  OBVIOUS
<1>4. IsGen(g) /\ g.queue = gen.queue /\ IsGen(Push(g, "last")) /\ Push(g, "last").queue = gen.queue
  BY <1>1, <1>3 DEF IsGen, Push, GenStates
<1>5. Eng(u) /\ QueueOk(u, gen.queue)
  BY <1>2, QueueStays DEF AInv, Goes
<1>6. PICK c : c = Value(Result)
  OBVIOUS
<1>7. OkOutcome(u, c)
  BY <1>6, ValuesOk
<1>8. \/ js_async_generator_resolve_or_reject(u, g, "reject", job.outcome)
      \/ js_async_generator_resolve_or_reject(u, Push(g, "last"), "done", c)
  BY <1>2, <1>3, <1>6 DEF ReturnOver
<1>9. Fine(u, rt') /\ IsGen(gen') /\ QueueOk(rt', gen'.queue)
  <2>1. CASE js_async_generator_resolve_or_reject(u, g, "reject", job.outcome)
    BY <1>2, <1>4, <1>5, <2>1, AnswerOk
  <2>2. CASE js_async_generator_resolve_or_reject(u, Push(g, "last"), "done", c)
    BY <1>4, <1>5, <1>7, <2>2, AnswerOk
  <2> QED
    BY <1>8, <2>1, <2>2
<1>10. Goes(u, rt') /\ Keeps(u, rt', HAwait) /\ Keeps(u, rt', HReturn)
  BY <1>9, FineGoes
<1>11. Goes(rt, rt')
  BY <1>2, <1>10 DEF Goes, Stays
<1>12. AInv'
  BY <1>1, <1>9, <1>11, AInvNext
<1>13. Keeps(rt, u, HAwait) /\ ~Never(rt, HReturn) /\ (Once(rt, HReturn) => Never(u, HReturn))
  BY <1>2 DEF HAwait, HReturn
<1> QED
  BY <1>10, <1>12, <1>13 DEF Keeps

\* A step of the script, or of a job that is none of the generator's.
LEMMA EngineOk ==
  ASSUME AInv, Script \/ RunJob \/ CombineTurn, UNCHANGED <<script, gen>>
  PROVE  AInv' /\ Same
<1>1. PInv
  BY DEF AInv
<1>2. PStep
  BY <1>1, ScriptOk, RunJobOk, CombineTurnOk
<1>3. Goes(rt, rt') /\ Same
  BY <1>2, FineGoes DEF PStep, Same
<1>4. QueueOk(rt', gen.queue)
  BY <1>3, QueueStays DEF AInv
<1>5. PInv'
  BY <1>1, <1>2 DEF PStep, PInv, Fine
<1> QED
  BY <1>3, <1>4, <1>5 DEF AInv, IsGen

\* A step of the generator, by what it does to the reactions that wake it.
GenQuiet ==
  \/ Script /\ UNCHANGED gen
  \/ RunJob /\ UNCHANGED gen
  \/ CombineTurn /\ UNCHANGED gen
  \/ \E kind \in ReqKinds : \E v : OkOutcome(rt, Value(v)) /\ js_async_generator_next(kind, v)
  \/ Moves
  \/ LoopAnswer
  \/ (\E state \in {"yield", "yieldStar"} : Yield(state)) \/ BodyReturn \/ BodyThrow

\* Every step is of one of these kinds.
LEMMA GenSteps ==
  ASSUME AInv, GenNext
  PROVE  /\ script' = script
         /\ \/ GenQuiet
            \/ LoopAwaitReturn
            \/ \E v \in Things : BodyAwait(v)
            \/ Top = "none" /\ AwaitOver
            \/ Top = "none" /\ ReturnOver
<1>1. script' = script
  BY DEF GenNext
<1>2. ASSUME Request PROVE GenQuiet
  <2>1. OkOutcome(rt, Value(Undefined)) /\ OkOutcome(rt, Value(Error))
    BY ErrorOk, PromiseAssumption
  <2>2. \A v \in Things : OkOutcome(rt, Value(v))
    BY CompletionsOk DEF AInv
  <2>3. \E kind \in ReqKinds : \E v : OkOutcome(rt, Value(v)) /\ js_async_generator_next(kind, v)
    BY <1>2, <2>1, <2>2 DEF Request, ReqKinds
  <2> QED
    BY <2>3 DEF GenQuiet
<1>3. ASSUME Body PROVE GenQuiet \/ \E v \in Things : BodyAwait(v)
  BY <1>3 DEF Body, GenQuiet
<1>4. ASSUME Turn PROVE GenQuiet \/ LoopAwaitReturn
  BY <1>4 DEF Turn, GenQuiet, Moves
<1>5. ASSUME AnyJob PROVE GenQuiet \/ (Top = "none" /\ AwaitOver) \/ (Top = "none" /\ ReturnOver)
  BY <1>5 DEF AnyJob, GenQuiet
<1>6. ASSUME Finalize PROVE GenQuiet
  BY <1>6 DEF GenQuiet, Moves
<1>7. \/ Script /\ UNCHANGED gen
      \/ Request \/ Body \/ Turn \/ AnyJob \/ Finalize
      \/ CombineTurn /\ UNCHANGED gen
  BY DEF GenNext
<1> QED
  BY <1>1, <1>2, <1>3, <1>4, <1>5, <1>6, <1>7 DEF GenQuiet

\* The steps that leave the reactions of the generator as they were.
LEMMA GenQuietOk ==
  ASSUME AInv, GenQuiet, script' = script
  PROVE  AInv' /\ Same
<1>1. CASE (Script \/ RunJob \/ CombineTurn) /\ UNCHANGED gen
  BY <1>1, EngineOk
<1>2. CASE \E kind \in ReqKinds : \E v : OkOutcome(rt, Value(v)) /\ js_async_generator_next(kind, v)
  BY <1>2, RequestOk
<1>3. CASE Moves
  BY <1>3, MovesOk
<1>4. CASE LoopAnswer
  BY <1>4, LoopAnswerOk
<1>5. CASE (\E state \in {"yield", "yieldStar"} : Yield(state)) \/ BodyReturn \/ BodyThrow
  BY <1>5, BodyAnswerOk
<1> QED
  BY <1>1, <1>2, <1>3, <1>4, <1>5 DEF GenQuiet

\* At first there is nothing.
LEMMA AInvInit ==
  ASSUME GenInit
  PROVE  AInv /\ \A h : Never(rt, h)
<1>1. /\ rt = [promises |-> <<>>, pairs |-> <<>>, jobs |-> <<>>, asyncs |-> <<>>, groups |-> <<>>]
      /\ script \in Scripts /\ held = {} /\ seen = {}
  BY DEF GenInit, Init
<1>2. /\ Len(rt.promises) = 0 /\ Len(rt.pairs) = 0 /\ Len(rt.jobs) = 0
      /\ Len(rt.asyncs) = 0 /\ Len(rt.groups) = 0
  BY <1>1
<1>3. Pr(rt) = {} /\ Pa(rt) = {} /\ As(rt) = {} /\ Gr(rt) = {} /\ 1 .. Len(rt.jobs) = {}
  BY <1>2 DEF Pr, Pa, As, Gr
<1>4. rt \in AnyEngine
  BY <1>1 DEF AnyEngine
<1>5. Good(rt)
  BY <1>3, <1>4 DEF Good, OkPairs, OkPromises, OkJobs, OkAsyncs, OkGroups, OkTwins, Sole
<1>6. PInv
  BY <1>1, <1>3, <1>5 DEF PInv, Eng, Known
<1>7. gen = [state |-> "start", queue |-> <<>>, frame |-> "suspended", stack |-> <<>>, awaits |-> 0,
             asked |-> <<>>, answers |-> <<>>, fault |-> FALSE]
  BY DEF GenInit
<1>8. IsGen(gen)
  BY <1>7 DEF IsGen, GenStates, GenFrames
<1>9. QueueOk(rt, gen.queue)
  BY <1>7 DEF QueueOk
<1>10. \A h : Never(rt, h)
  BY <1>3 DEF Never, Waits, Due, In
<1> QED
  BY <1>6, <1>8, <1>9, <1>10 DEF AInv

\* Stuttering changes nothing.
LEMMA AInvSame ==
  ASSUME AInv, UNCHANGED genVars
  PROVE  AInv'
BY DEF AInv, PInv, genVars, vars

\* The state of the engine stays sound: every reference is to something that
\* is there, every pending promise has exactly one party to settle it, and
\* an async function is woken once when it awaits.
THEOREM AlwaysSound == GenSpec => []AInv
<1>1. GenInit => AInv
  BY AInvInit
<1>2. AInv /\ [GenNext]_genVars => AInv'
  <2>1. ASSUME AInv, GenNext PROVE AInv'
    BY <2>1, GenSteps, GenQuietOk, AwaitReturnOk, BodyAwaitOk, AwaitOverOk, ReturnOverOk
  <2> QED
    BY <2>1, AInvSame
<1> QED
  BY <1>1, <1>2, PTL DEF GenSpec

-----------------------------------------------------------------------------
(* Theorems for every script, getters or not *)

\* The sets of the properties are those of the proofs.
LEMMA JobPlaces ==
  ASSUME NEW s, Good(s)
  PROVE  /\ \A p : {i \in DOMAIN s.jobs : s.jobs[i].type = "thenable" /\ s.jobs[i].promise = p}
                   = In(s.jobs, <<"thenable", p>>)
         /\ \A h : InJobs(s, h) = Due(s, h)
         /\ \A h : Waiting(s, h) = Waits(s, h)
<1>1. s.jobs \in Seq(Jobs) /\ s.promises \in Seq(AnyPromise)
  BY DEF Good, AnyEngine
<1>2. DOMAIN s.jobs = 1 .. Len(s.jobs) /\ DOMAIN s.promises = Pr(s)
  BY <1>1 DEF Pr
<1>3. \A i \in 1 .. Len(s.jobs) : s.jobs[i].type = "reaction" \/ s.jobs[i].type = "thenable"
  BY <1>1 DEF Jobs, ReactionJobs, ThenableJobs
<1>4. ASSUME NEW p PROVE {i \in DOMAIN s.jobs : s.jobs[i].type = "thenable" /\ s.jobs[i].promise = p}
                         = In(s.jobs, <<"thenable", p>>)
  <2>1. \A i \in 1 .. Len(s.jobs) : Cls(s.jobs[i]) = <<"thenable", p>>
                                    <=> s.jobs[i].type = "thenable" /\ s.jobs[i].promise = p
    BY <1>3, ClsDiffer DEF Cls
  <2> QED
    BY <1>2, <2>1 DEF In
<1>5. ASSUME NEW h PROVE InJobs(s, h) = Due(s, h)
  <2>1. \A i \in 1 .. Len(s.jobs) : Cls(s.jobs[i]) = <<"reaction", h>>
                                    <=> s.jobs[i].type = "reaction" /\ s.jobs[i].reaction.handler = h
    BY <1>3, ClsDiffer DEF Cls
  <2> QED
    BY <1>2, <2>1 DEF In, InJobs, Due
<1>6. ASSUME NEW h PROVE Waiting(s, h) = Waits(s, h)
  <2>1. PICK f : f = [p \in Pr(s) |-> s.promises[p].reactions[FALSE]]
    OBVIOUS
  <2>2. \A p \in Pr(s) : f[p] = s.promises[p].reactions[FALSE]
    BY <2>1
  <2>3. ASSUME NEW p \in Pr(s) PROVE DOMAIN f[p] = 1 .. Len(f[p]) /\ 1 .. Len(f[p]) \subseteq Nat
    <3>1. PICK y : y = s.promises[p]
      OBVIOUS
    <3>2. y \in AnyPromise
      BY <1>1, <3>1 DEF Pr
    <3>3. y.reactions \in [BOOLEAN -> Seq(AnyReaction)] /\ FALSE \in BOOLEAN
      BY <3>2 DEF AnyPromise
    <3>4. y.reactions[FALSE] \in Seq(AnyReaction)
      BY <3>3
    <3>5. f[p] \in Seq(AnyReaction)
      BY <2>2, <3>1, <3>4
    <3> QED
      BY <3>5
  <2> DEFINE A(p) == {<<p, i>> : i \in {i \in DOMAIN s.promises[p].reactions[FALSE] :
                                       s.promises[p].reactions[FALSE][i].handler = h}}
  <2>4. Waiting(s, h) = UNION {A(p) : p \in DOMAIN s.promises}
    BY DEF Waiting
  <2>5. ASSUME NEW x
        PROVE  x \in Waiting(s, h) <=> \E p \in Pr(s) : \E i \in 1 .. Len(f[p]) : x = <<p, i>> /\ f[p][i].handler = h
    <3>1. ASSUME NEW p \in Pr(s)
          PROVE  x \in A(p) <=> \E i \in 1 .. Len(f[p]) : x = <<p, i>> /\ f[p][i].handler = h
      <4>1. PICK l : l = s.promises[p].reactions[FALSE]
        OBVIOUS
      <4>2. l = f[p] /\ DOMAIN l = 1 .. Len(l)
        BY <2>2, <2>3, <4>1
      <4>3. A(p) = {<<p, i>> : i \in {i \in DOMAIN l : l[i].handler = h}}
        BY <4>1
      <4>4. x \in A(p) <=> \E i \in 1 .. Len(l) : x = <<p, i>> /\ l[i].handler = h
        BY <4>2, <4>3
      <4> QED
        BY <4>2, <4>4
    <3> HIDE DEF A
    <3>2. x \in UNION {A(p) : p \in Pr(s)} <=> \E p \in Pr(s) : x \in A(p)
      OBVIOUS
    <3> QED
      BY <1>2, <2>4, <3>1, <3>2
  <2>6. ASSUME NEW x
        PROVE  x \in Waits(s, h) <=> \E p \in Pr(s) : \E i \in 1 .. Len(f[p]) : x = <<p, i>> /\ f[p][i].handler = h
    <3>1. ASSUME x \in Waits(s, h)
          PROVE  \E p \in Pr(s) : \E i \in 1 .. Len(f[p]) : x = <<p, i>> /\ f[p][i].handler = h
      <4>1. /\ x \in Pr(s) \X Nat /\ x[2] \in 1 .. Len(s.promises[x[1]].reactions[FALSE])
            /\ s.promises[x[1]].reactions[FALSE][x[2]].handler = h
        BY <3>1 DEF Waits
      <4>2. PICK p, i : p = x[1] /\ i = x[2]
        OBVIOUS
      <4>3. p \in Pr(s) /\ x = <<p, i>>
        BY <4>1, <4>2
      <4> QED
        BY <2>2, <4>1, <4>2, <4>3
    <3>2. ASSUME NEW p \in Pr(s), NEW i \in 1 .. Len(f[p]), x = <<p, i>>, f[p][i].handler = h
          PROVE  x \in Waits(s, h)
      <4>1. x[1] = p /\ x[2] = i /\ i \in Nat
        BY <2>3, <3>2
      <4> QED
        BY <2>2, <3>2, <4>1 DEF Waits
    <3> QED
      BY <3>1, <3>2
  <2> QED
    BY <2>5, <2>6
<1> QED
  BY <1>4, <1>5, <1>6

\* None of the places, or exactly one.
LEMMA SingleIsOne ==
  ASSUME NEW X, NEW Y
  PROVE  /\ X = {} /\ Y = {} => Cardinality(X) + Cardinality(Y) = 0
         /\ Single(X, Y) => Cardinality(X) + Cardinality(Y) = 1
<1>1. Cardinality({}) = 0 /\ \A x : Cardinality({x}) = 1
  BY FS_EmptySet, FS_Singleton
<1>2. CASE X = {} /\ Y = {}
  <2>1. Cardinality(X) = 0 /\ Cardinality(Y) = 0
    BY <1>1, <1>2
  <2> QED
    BY <1>2, <2>1 DEF Single
<1>3. CASE Single(X, Y)
  <2>1. \/ Cardinality(X) = 1 /\ Cardinality(Y) = 0
        \/ Cardinality(X) = 0 /\ Cardinality(Y) = 1
    BY <1>1, <1>3 DEF Single
  <2>2. ~(X = {} /\ Y = {})
    BY <1>3 DEF Single
  <2> QED
    BY <2>1, <2>2
<1> QED
  BY <1>2, <1>3

\* Sole is SoleAuthority.
LEMMA SoundSole ==
  ASSUME AInv
  PROVE  SoleAuthority
<1>1. Good(rt) /\ Sole(rt) /\ rt.promises \in Seq(AnyPromise) /\ rt.pairs \in Seq(AnyPair)
  BY DEF AInv, PInv, Eng, Good, AnyEngine
<1>2. DOMAIN rt.promises = Pr(rt) /\ DOMAIN rt.pairs = Pa(rt)
  BY <1>1 DEF Pr, Pa
<1> SUFFICES ASSUME NEW p \in Pr(rt)
             PROVE  Cardinality(Authorities(p)) = IF Settled(p) THEN 0 ELSE 1
  BY <1>2 DEF SoleAuthority
<1>3. Settled(p) <=> rt.promises[p].outcome # Pending
  BY <1>2 DEF Settled, Outcome
<1>4. PICK O, J : O = Open(rt, p) /\ J = In(rt.jobs, <<"thenable", p>>)
  OBVIOUS
<1>5. {r \in DOMAIN rt.pairs : rt.pairs[r] = [promise |-> p, resolved |-> FALSE]} = O
  <2>1. \A r \in Pa(rt) : rt.pairs[r] \in AnyPair
    BY <1>1 DEF Pa
  <2>2. \A x \in AnyPair : x = [promise |-> p, resolved |-> FALSE] <=> x.promise = p /\ ~x.resolved
    <3> SUFFICES ASSUME NEW x \in AnyPair
                 PROVE  x = [promise |-> p, resolved |-> FALSE] <=> x.promise = p /\ ~x.resolved
      OBVIOUS
    <3>1. x = [promise |-> x.promise, resolved |-> x.resolved] /\ x.resolved \in BOOLEAN
      BY DEF AnyPair
    <3>2. ~x.resolved <=> x.resolved = FALSE
      BY <3>1
    <3>3. ASSUME x.promise = p, x.resolved = FALSE PROVE x = [promise |-> p, resolved |-> FALSE]
      BY <3>1, <3>3
    <3>4. ASSUME x = [promise |-> p, resolved |-> FALSE] PROVE x.promise = p /\ x.resolved = FALSE
      BY <3>4
    <3> QED
      BY <3>2, <3>3, <3>4
  <2> QED
    BY <1>2, <1>4, <2>1, <2>2 DEF Open
<1>6. {i \in DOMAIN rt.jobs : rt.jobs[i].type = "thenable" /\ rt.jobs[i].promise = p} = J
  BY <1>1, <1>4, JobPlaces
<1>7. Authorities(p) = {<<"pair", r>> : r \in O} \cup {<<"job", i>> : i \in J}
  BY <1>5, <1>6 DEF Authorities
<1>8. CASE rt.promises[p].outcome # Pending
  <2>1. O = {} /\ J = {}
    BY <1>1, <1>4, <1>8 DEF Sole
  <2>2. Authorities(p) = {}
    BY <1>7, <2>1
  <2> QED
    BY <1>3, <1>8, <2>2, FS_EmptySet
<1>9. CASE rt.promises[p].outcome = Pending
  <2>1. Single(O, J)
    BY <1>1, <1>4, <1>9 DEF Sole
  <2>2. \E x : Authorities(p) = {x}
    <3>1. ASSUME NEW x, O = {x}, J = {} PROVE Authorities(p) = {<<"pair", x>>}
      BY <1>7, <3>1
    <3>2. ASSUME NEW y, O = {}, J = {y} PROVE Authorities(p) = {<<"job", y>>}
      BY <1>7, <3>2
    <3> QED
      BY <2>1, <3>1, <3>2 DEF Single
  <2>3. Cardinality(Authorities(p)) = 1
    BY <2>2, FS_Singleton
  <2> QED
    BY <1>3, <1>9, <2>3
<1> QED
  BY <1>8, <1>9

\* AsOnce is ResumesOnce.
LEMMA SoundResumes ==
  ASSUME AInv
  PROVE  ResumesOnce
<1>1. Good(rt) /\ (\A a \in As(rt) : AsOnce(rt, a)) /\ rt.asyncs \in Seq(AnyAsync)
  BY DEF AInv, PInv, Eng, Good, AnyEngine
<1>2. DOMAIN rt.asyncs = As(rt)
  BY <1>1 DEF As
<1> SUFFICES ASSUME NEW a \in As(rt)
             PROVE  Reactions(rt, Handler("resume", a)) = IF rt.asyncs[a].active THEN 1 ELSE 0
  BY <1>2 DEF ResumesOnce
<1>3. PICK h, W, D : h = Handler("resume", a) /\ W = Waits(rt, h) /\ D = Due(rt, h)
  OBVIOUS
<1>4. Reactions(rt, h) = Cardinality(W) + Cardinality(D)
  BY <1>1, <1>3, JobPlaces DEF Reactions
<1>5. CASE rt.asyncs[a].active
  <2>1. Single(W, D)
    BY <1>1, <1>3, <1>5 DEF AsOnce, Once
  <2> QED
    BY <1>3, <1>4, <1>5, <2>1, SingleIsOne
<1>6. CASE ~rt.asyncs[a].active
  <2>1. W = {} /\ D = {}
    BY <1>1, <1>3, <1>6 DEF AsOnce, Never
  <2> QED
    BY <1>3, <1>4, <1>6, <2>1, SingleIsOne
<1> QED
  BY <1>5, <1>6

\* js_promise_resolve_function_call, fulfill_or_reject_promise and
\* js_promise_resolve_thenable_job: however many promises, thenables, jobs and
\* generators there are, a pending promise has exactly one party that can
\* settle it, and a settled one has none.
THEOREM OneAuthority == GenSpec => []SoleAuthority
BY AlwaysSound, SoundSole, PTL

\* js_async_function_resume: an async function that awaits is resumed by
\* exactly one reaction, and one that has ended by none, so that a frame that
\* was freed is never run.
THEOREM ResumedOnce == GenSpec => []ResumesOnce
BY AlwaysSound, SoundResumes, PTL

-----------------------------------------------------------------------------
(* Theorems for scripts without a getter for then *)

\* Where the generator is, when a getter cannot run between an answer and
\* the rest of js_async_generator_resume_next: one activation at most, the
\* body runs exactly when it is on the stack, and whoever will be answered is
\* in the queue.
Stacks == {<<>>, <<"loop">>, <<"body">>, <<"again">>, <<"last">>}

Shape(g) ==
  /\ g.stack \in Stacks
  /\ ~g.fault
  /\ g.frame = "running" <=> g.stack = <<"body">>
  /\ g.stack = <<"body">> => g.state = "executing"
  /\ g.stack = <<"again">> => g.state \in {"yield", "yieldStar", "completed"}
  /\ g.stack = <<"last">> => g.state = "completed"
  /\ g.state = "executing" => g.queue # <<>> /\ g.stack \in {<<>>, <<"loop">>, <<"body">>}
  /\ g.state = "awaitingReturn" =>
       g.queue # <<>> /\ Head(g.queue).kind = "return" /\ g.stack \in {<<>>, <<"loop">>}
  /\ g.frame = "gone" => g.stack = <<>> /\ g.queue = <<>>
  /\ g.frame = "freed" => g.state \in {"completed", "awaitingReturn"}
  /\ g.frame = "suspended" => g.state \notin {"completed", "awaitingReturn"}

\* The queue holds the requests that are not answered yet, in order, and what
\* the generator has said agrees with where it is.
Queued(g) ==
  /\ Len(g.asked) = Len(g.answers) + Len(g.queue)
  /\ \A i \in 1 .. Len(g.queue) :
       g.queue[i].n = Len(g.answers) + i /\ g.queue[i].kind = g.asked[Len(g.answers) + i]

Said(g) ==
  /\ \A i \in 1 .. Len(g.answers) :
       g.answers[i].what = "yield" \/ g.state \in {"completed", "awaitingReturn"}
  /\ g.state \in {"yield", "yieldStar"} => g.answers # <<>>
  /\ g.state = "executing" /\ g.answers = <<>> => Head(g.queue).kind = "next"

\* The body in the middle of an await, and the request to return that is
\* awaited, are woken once, and nothing else is.
Woken(s, g) ==
  /\ IF g.state = "executing" /\ g.stack = <<>> THEN Once(s, HAwait) ELSE Never(s, HAwait)
  /\ IF g.state = "awaitingReturn" THEN Once(s, HReturn) ELSE Never(s, HReturn)

GInv == AInv /\ Shape(gen) /\ Queued(gen) /\ Said(gen) /\ Woken(rt, gen)

\* A step as IteratorContract has it, or one that it does not see.
IStep == Iterator!Next \/ UNCHANGED <<gen.asked, gen.answers>>

\* Stacks with one activation.
LEMMA StacksDiffer ==
  /\ \A a, b : <<a>> = <<b>> <=> a = b
  /\ \A a : <<a>> # <<>>
  /\ \A a : Append(<<>>, a) = <<a>>
  /\ \A a : Last(<<a>>) = a /\ Front(<<a>>) = <<>>
<1>1. \A a, b : <<a>> = <<b>> <=> a = b
  OBVIOUS
<1>2. ASSUME NEW a PROVE Last(<<a>>) = a
  <2>1. Len(<<a>>) = 1
    OBVIOUS
  <2> QED
    BY <2>1 DEF Last
<1>3. ASSUME NEW a PROVE Front(<<a>>) = <<>>
  <2>1. Len(<<a>>) = 1 /\ <<a>> \in Seq({a})
    OBVIOUS
  <2>2. Front(<<a>>) = SubSeq(<<a>>, 1, 0)
    BY <2>1 DEF Front
  <2> QED
    BY <2>1, <2>2
<1> QED
  BY <1>1, <1>2, <1>3

\* What is on top is all there is.
LEMMA TopIs ==
  ASSUME IsGen(gen), Shape(gen)
  PROVE  /\ Top = "none" => gen.stack = <<>>
         /\ \A x \in {"loop", "body", "again", "last"} : Top = x => gen.stack = <<x>>
         /\ gen.stack = <<>> => Top = "none"
BY StacksDiffer DEF Top, Shape, Stacks

\* The operations on the stack.
LEMMA StackOps ==
  ASSUME NEW g, IsGen(g), g.stack \in Stacks, NEW a
  PROVE  /\ g.stack = <<>> => Push(g, a) = [g EXCEPT !.stack = <<a>>]
         /\ g.stack # <<>> => Pop(g) = [g EXCEPT !.stack = <<>>]
         /\ g.stack # <<>> => At(g, a) = [g EXCEPT !.stack = <<a>>]
<1>1. g.stack = <<>> => Append(g.stack, a) = <<a>>
  BY StacksDiffer
<1>2. g.stack # <<>> => Front(g.stack) = <<>>
  BY StacksDiffer DEF Stacks
<1> QED
  BY <1>1, <1>2, StacksDiffer DEF Push, Pop, At, IsGen

\* What is left of g once its first request was answered.
Answering(g, what) ==
  [g EXCEPT !.queue = Tail(@), !.answers = Append(@, [to |-> Head(g.queue).n, what |-> what])]

Answerable(g, what) == IsGen(g) /\ Queued(g) /\ g.queue # <<>> /\ what \in {"yield", "done", "reject"}

AfterAnswer(g, what, h) ==
  /\ h.state = g.state /\ h.frame = g.frame /\ h.stack = g.stack /\ h.asked = g.asked
  /\ h.fault = g.fault
  /\ h.answers = Append(g.answers, [to |-> Len(g.answers) + 1, what |-> what])
  /\ Len(h.answers) = Len(g.answers) + 1 /\ h.answers # <<>>
  /\ h.answers[Len(g.answers) + 1].what = what
  /\ \A i \in 1 .. Len(g.answers) : h.answers[i] = g.answers[i]
  /\ Len(g.answers) + 1 <= Len(g.asked)
  /\ Head(g.queue).kind = g.asked[Len(g.answers) + 1]
  /\ Queued(h)

\* The requests that are left are still in order.
LEMMA AnsweringOk ==
  ASSUME NEW g, NEW what, Answerable(g, what), NEW h, h = Answering(g, what)
  PROVE  AfterAnswer(g, what, h)
<1>1. /\ g.queue \in Seq(AnyRequest) /\ g.answers \in Seq(AnyAnswer) /\ g.asked \in Seq(ReqKinds)
      /\ IsGen(g) /\ Queued(g) /\ g.queue # <<>>
  BY DEF Answerable, IsGen
<1>2. PICK q, m, k : q = Tail(g.queue) /\ m = Len(g.queue) /\ k = Len(g.answers)
  OBVIOUS
<1>3. /\ q \in Seq(AnyRequest) /\ Len(q) = m - 1 /\ m > 0 /\ m \in Nat /\ k \in Nat
      /\ g.queue[1] = Head(g.queue) /\ Head(g.queue) \in AnyRequest
      /\ \A j \in 1 .. m - 1 : q[j] = g.queue[j + 1]
  BY <1>1, <1>2, SeqTail
<1>4. /\ Len(g.asked) = k + m
      /\ \A i \in 1 .. m : g.queue[i].n = k + i /\ g.queue[i].kind = g.asked[k + i]
  BY <1>1, <1>2 DEF Queued
<1>5. Head(g.queue).n = k + 1 /\ Head(g.queue).kind = g.asked[k + 1]
  BY <1>3, <1>4
<1>6. PICK x : x = [to |-> k + 1, what |-> what]
  OBVIOUS
<1>7. x \in AnyAnswer /\ x.what = what
  BY <1>3, <1>6 DEF Answerable, AnyAnswer
<1>8. PICK l : l = Append(g.answers, x)
  OBVIOUS
<1>9. /\ l \in Seq(AnyAnswer) /\ Len(l) = k + 1 /\ l[k + 1] = x
      /\ \A j \in 1 .. k : l[j] = g.answers[j]
  BY <1>1, <1>2, <1>7, <1>8, SeqAppend
<1>10. h = [g EXCEPT !.queue = q, !.answers = l]
  BY <1>2, <1>5, <1>6, <1>8 DEF Answering
<1>11. /\ h.state = g.state /\ h.frame = g.frame /\ h.stack = g.stack /\ h.asked = g.asked
       /\ h.fault = g.fault /\ h.queue = q /\ h.answers = l
  BY <1>1, <1>10 DEF IsGen
<1>12. \A j \in 1 .. m - 1 : j + 1 \in 1 .. m /\ k + (j + 1) = (k + 1) + j
  BY <1>3
<1>13. /\ k + m = (k + 1) + (m - 1)
       /\ \A j \in 1 .. m - 1 : q[j].n = (k + 1) + j /\ q[j].kind = g.asked[(k + 1) + j]
  <2>1. k + m = (k + 1) + (m - 1)
    BY <1>3
  <2>2. ASSUME NEW j \in 1 .. m - 1 PROVE q[j].n = (k + 1) + j /\ q[j].kind = g.asked[(k + 1) + j]
    <3>1. PICK i \in 1 .. m : i = j + 1 /\ k + i = (k + 1) + j
      BY <1>12
    <3>2. q[j] = g.queue[i] /\ g.queue[i].n = k + i /\ g.queue[i].kind = g.asked[k + i]
      BY <1>3, <1>4, <3>1
    <3> QED
      BY <3>1, <3>2
  <2> QED
    BY <2>1, <2>2
<1>14. Queued(h)
  <2>1. Len(h.asked) = k + m /\ Len(h.answers) = k + 1 /\ Len(h.queue) = m - 1
    BY <1>3, <1>4, <1>9, <1>11
  <2>2. \A j \in 1 .. m - 1 : h.queue[j].n = (k + 1) + j /\ h.queue[j].kind = h.asked[(k + 1) + j]
    BY <1>11, <1>13
  <2> QED
    BY <1>13, <2>1, <2>2 DEF Queued
<1>15. l # <<>> /\ k + 1 <= k + m
  BY <1>3, <1>9
<1> QED
  BY <1>2, <1>4, <1>5, <1>6, <1>7, <1>8, <1>9, <1>11, <1>14, <1>15 DEF AfterAnswer

\* A request at the end of the queue.
LEMMA AskingOk ==
  ASSUME NEW g, IsGen(g), Queued(g), NEW r \in AnyRequest, NEW kind \in ReqKinds,
         r.n = Len(g.asked) + 1, r.kind = kind,
         NEW h, h.queue = Append(g.queue, r), h.asked = Append(g.asked, kind), h.answers = g.answers
  PROVE  Queued(h) /\ h.queue # <<>> /\ (g.queue # <<>> => Head(h.queue) = Head(g.queue))
<1>1. g.queue \in Seq(AnyRequest) /\ g.answers \in Seq(AnyAnswer) /\ g.asked \in Seq(ReqKinds)
  BY DEF IsGen
<1>2. PICK m, k, n : m = Len(g.queue) /\ k = Len(g.answers) /\ n = Len(g.asked)
  OBVIOUS
<1>3. m \in Nat /\ k \in Nat /\ n \in Nat /\ n = k + m
  <2>1. m \in Nat /\ k \in Nat /\ n \in Nat
    BY <1>1, <1>2
  <2> QED
    BY <1>2, <2>1 DEF Queued
<1>4. /\ h.queue \in Seq(AnyRequest) /\ Len(h.queue) = m + 1 /\ h.queue[m + 1] = r
      /\ \A j \in 1 .. m : h.queue[j] = g.queue[j]
  BY <1>1, <1>2, SeqAppend
<1>5. /\ Len(h.asked) = n + 1 /\ h.asked[n + 1] = kind
      /\ \A j \in 1 .. n : h.asked[j] = g.asked[j]
  BY <1>1, <1>2, SeqAppend
<1>6. \A i \in 1 .. m : k + i \in 1 .. n
  BY <1>3
<1>7. \A i \in 1 .. m + 1 : i \in 1 .. m \/ i = m + 1
  BY <1>3
<1>8. \A i \in 1 .. m : h.queue[i].n = k + i /\ h.queue[i].kind = h.asked[k + i]
  BY <1>2, <1>4, <1>5, <1>6 DEF Queued
<1>9. h.queue[m + 1].n = k + (m + 1) /\ h.queue[m + 1].kind = h.asked[k + (m + 1)]
  <2>1. k + (m + 1) = n + 1
    BY <1>3
  <2> QED
    BY <1>2, <1>4, <1>5, <2>1
<1>10. Queued(h)
  <2>1. Len(h.asked) = k + (m + 1)
    BY <1>3, <1>5
  <2> QED
    BY <1>2, <1>4, <1>7, <1>8, <1>9, <2>1 DEF Queued
<1>11. h.queue # <<>>
  <2>1. m + 1 # 0
    BY <1>3
  <2> QED
    BY <1>4, <2>1
<1>12. ASSUME g.queue # <<>> PROVE Head(h.queue) = Head(g.queue)
  <2>1. 1 \in 1 .. m
    BY <1>1, <1>2, <1>12
  <2>2. h.queue[1] = g.queue[1]
    BY <1>4, <2>1
  <2> QED
    BY <1>1, <1>4, <1>11, <1>12, <2>2
<1> QED
  BY <1>10, <1>11, <1>12

\* What the generator may say, wherever it is.
LEMMA MaySay ==
  ASSUME GInv, gen.queue # <<>>, NEW k, k = Head(gen.queue).kind
  PROVE  /\ k = "next" => "done" \in Iterator!Answers(k)
         /\ k = "return" => "done" \in Iterator!Answers(k) /\ "reject" \in Iterator!Answers(k)
         /\ k = "throw" => "reject" \in Iterator!Answers(k)
         /\ gen.state = "executing" => {"yield", "done", "reject"} \subseteq Iterator!Answers(k)
<1>1. /\ k = "next" => "done" \in Iterator!Answers(k)
      /\ k = "return" => "done" \in Iterator!Answers(k) /\ "reject" \in Iterator!Answers(k)
      /\ k = "throw" => "reject" \in Iterator!Answers(k)
  BY DEF Iterator!Answers
<1>2. ASSUME gen.state = "executing" PROVE {"yield", "done", "reject"} \subseteq Iterator!Answers(k)
  <2>1. gen.answers \in Seq(AnyAnswer)
    BY DEF GInv, AInv, IsGen
  <2>2. DOMAIN gen.answers = 1 .. Len(gen.answers)
    BY <2>1
  <2>3. ~Iterator!Ended
    BY <1>2, <2>2 DEF GInv, Said, Iterator!Ended
  <2>4. ~(gen.answers = <<>> /\ k # "next")
    BY <1>2 DEF GInv, Said
  <2> QED
    BY <2>3, <2>4 DEF Iterator!Answers
<1> QED
  BY <1>1, <1>2

\* An answer is one that IteratorContract allows.
LEMMA AnswerIs ==
  ASSUME GInv, gen.queue # <<>>, NEW g, IsGen(g), g.queue = gen.queue, g.asked = gen.asked,
         g.answers = gen.answers, NEW what \in {"yield", "done", "reject"},
         what \in Iterator!Answers(Head(gen.queue).kind),
         NEW s, NEW c, js_async_generator_resolve_or_reject(s, g, what, c)
  PROVE  AfterAnswer(g, what, gen') /\ IStep
<1>1. gen' = Answering(g, what)
  BY DEF js_async_generator_resolve_or_reject, Answering
<1>2. Queued(g)
  BY DEF GInv, Queued
<1>3. Answerable(g, what)
  BY <1>2 DEF Answerable
<1>4. AfterAnswer(g, what, gen')
  BY <1>1, <1>3, AnsweringOk
<1>5. /\ Len(gen.answers) + 1 <= Len(gen.asked)
      /\ Head(gen.queue).kind = gen.asked[Len(gen.answers) + 1]
      /\ gen'.answers = Append(gen.answers, [to |-> Len(gen.answers) + 1, what |-> what])
      /\ gen'.asked = gen.asked
  BY <1>4 DEF AfterAnswer
<1>6. Iterator!Answer
  BY <1>5 DEF Iterator!Answer
<1> QED
  BY <1>4, <1>6 DEF IStep, Iterator!Next

\* What has been said after one more answer.
LEMMA SaidAfter ==
  ASSUME GInv, NEW g, g.answers = gen.answers, NEW what, NEW h, AfterAnswer(g, what, h),
         \/ g.state = "completed"
         \/ g.state \in {"yield", "yieldStar"} /\ what = "yield" /\ gen.state = "executing"
  PROVE  Said(h)
<1>1. gen.answers \in Seq(AnyAnswer)
  BY DEF GInv, AInv, IsGen
<1>2. PICK k \in Nat : k = Len(gen.answers)
  BY <1>1
<1>3. /\ h.state = g.state /\ Len(h.answers) = k + 1 /\ h.answers # <<>>
      /\ h.answers[k + 1].what = what /\ \A i \in 1 .. k : h.answers[i] = gen.answers[i]
  BY <1>2 DEF AfterAnswer
<1>4. CASE g.state = "completed"
  BY <1>3, <1>4 DEF Said
<1>5. CASE g.state \in {"yield", "yieldStar"} /\ what = "yield" /\ gen.state = "executing"
  <2>1. \A i \in 1 .. k : gen.answers[i].what = "yield"
    BY <1>2, <1>5 DEF GInv, Said
  <2>2. \A i \in 1 .. k + 1 : i \in 1 .. k \/ i = k + 1
    OBVIOUS
  <2>3. \A i \in 1 .. k + 1 : h.answers[i].what = "yield"
    BY <1>3, <1>5, <2>1, <2>2
  <2> QED
    BY <1>3, <1>5, <2>3 DEF Said
<1> QED
  BY <1>4, <1>5

\* The same reactions wake the same.
LEMMA WokenSame ==
  ASSUME GInv, Same,
         (gen'.state = "executing" /\ gen'.stack = <<>>) <=> (gen.state = "executing" /\ gen.stack = <<>>),
         gen'.state = "awaitingReturn" <=> gen.state = "awaitingReturn"
  PROVE  Woken(rt', gen')
BY DEF GInv, Woken, Same, Keeps

\* The generator is left alone.
LEMMA EngineKeeps ==
  ASSUME GInv, AInv', Same, gen' = gen
  PROVE  GInv' /\ IStep
<1>1. Woken(rt', gen')
  BY WokenSame
<1> QED
  BY <1>1 DEF GInv, IStep, Shape, Queued, Said

\* js_async_generator_next: the body is asked while it runs or awaits, or the
\* loop is entered.
LEMMA RequestKeeps ==
  ASSUME GInv, ~Getters, AInv', Same, NEW kind \in ReqKinds, NEW v, OkOutcome(rt, Value(v)),
         js_async_generator_next(kind, v)
  PROVE  GInv' /\ IStep
<1>1. IsGen(gen) /\ Shape(gen) /\ Queued(gen) /\ Said(gen) /\ IsGen(gen')
  BY DEF GInv, AInv
<1>2. PICK r : r = [n |-> Len(gen.asked) + 1, kind |-> kind, value |-> v,
                    pair |-> NewestPair(js_new_promise_capability(rt))]
  OBVIOUS
<1>3. PICK g : g = [gen EXCEPT !.queue = Append(@, r), !.asked = Append(@, kind)]
  OBVIOUS
<1>4. /\ Top \in {"none", "body"} /\ gen.frame # "gone"
      /\ gen' = IF gen.state = "executing" THEN g ELSE Push(g, "loop")
  BY <1>2, <1>3 DEF js_async_generator_next, ScriptRuns
<1>5. gen.stack = <<>> \/ gen.stack = <<"body">>
  BY <1>1, <1>4, TopIs
<1>6. gen.state # "executing" => gen.stack = <<>>
  BY <1>1, <1>5 DEF Shape
<1>7. /\ g.state = gen.state /\ g.frame = gen.frame /\ g.stack = gen.stack /\ g.fault = gen.fault
      /\ g.answers = gen.answers /\ g.queue = Append(gen.queue, r) /\ g.asked = Append(gen.asked, kind)
      /\ g.stack \in Stacks
  BY <1>1, <1>3 DEF IsGen, Shape
<1>8. /\ gen'.state = gen.state /\ gen'.frame = gen.frame /\ gen'.fault = gen.fault
      /\ gen'.answers = gen.answers /\ gen'.queue = Append(gen.queue, r) /\ gen'.asked = Append(gen.asked, kind)
      /\ gen'.stack = IF gen.state = "executing" THEN gen.stack ELSE Append(gen.stack, "loop")
  BY <1>1, <1>3, <1>4 DEF IsGen, Push
<1>9. gen'.stack = IF gen.state = "executing" THEN gen.stack ELSE <<"loop">>
  BY <1>6, <1>8, StacksDiffer
<1>10. r \in AnyRequest /\ r.n = Len(gen.asked) + 1 /\ r.kind = kind
  <2>1. PICK t : t = js_new_promise_capability(rt)
    OBVIOUS
  <2>2. NewestPair(t) \in Nat
    BY <2>1, NewOk DEF IsNew, GInv, AInv, PInv, Eng, Pa
  <2>3. Len(gen.asked) + 1 \in Nat
    BY <1>1 DEF IsGen
  <2>4. v \in AnyValue
    BY DEF OkOutcome, AnyOutcome, Value
  <2> QED
    BY <1>2, <2>1, <2>2, <2>3, <2>4 DEF AnyRequest
<1>11. /\ Queued(gen') /\ gen'.queue # <<>>
       /\ gen.queue # <<>> => Head(gen'.queue) = Head(gen.queue)
  BY <1>1, <1>8, <1>10, AskingOk
<1>12. Shape(gen')
  BY <1>1, <1>4, <1>5, <1>8, <1>9, <1>11, StacksDiffer DEF Shape, Stacks
<1>13. Said(gen')
  BY <1>1, <1>8, <1>11 DEF Said, Shape
<1>14. Woken(rt', gen')
  BY <1>8, <1>9, WokenSame
<1>15. Iterator!Ask(kind)
  BY <1>8 DEF Iterator!Ask
<1>16. IStep
  BY <1>15 DEF IStep, Iterator!Next, ReqKinds
<1> QED
  BY <1>11, <1>12, <1>13, <1>14, <1>16 DEF GInv

\* The turns of the loop that only move the generator on: the frame is suspended
\* whenever it is resumed or freed.
LEMMA MovesKeep ==
  ASSUME GInv, AInv', Same, Moves
  PROVE  GInv' /\ IStep
<1>1. IsGen(gen) /\ Shape(gen) /\ Queued(gen) /\ Said(gen)
  BY DEF GInv, AInv
<1>2. gen.stack \in Stacks /\ gen.state \in GenStates /\ gen.frame \in GenFrames
  BY <1>1 DEF Shape, IsGen
\* A step that leaves the requests and the answers alone.
<1>3. ASSUME gen'.queue = gen.queue, gen'.asked = gen.asked, gen'.answers = gen.answers,
             Shape(gen'), Said(gen'), Woken(rt', gen')
      PROVE  GInv' /\ IStep
  BY <1>1, <1>3 DEF GInv, IStep, Queued
<1>4. CASE LoopEnd
  <2>1. gen.stack = <<"loop">> /\ gen.stack # <<>>
    BY <1>1, <1>4, TopIs, StacksDiffer DEF LoopEnd
  <2>2. gen' = [gen EXCEPT !.stack = <<>>] /\ (gen.queue = <<>> \/ gen.state = "awaitingReturn")
    BY <1>1, <1>2, <1>4, <2>1, StackOps DEF LoopEnd
  <2>3. /\ gen'.state = gen.state /\ gen'.frame = gen.frame /\ gen'.fault = gen.fault
        /\ gen'.answers = gen.answers /\ gen'.queue = gen.queue /\ gen'.asked = gen.asked /\ gen'.stack = <<>>
        /\ gen.state # "executing"
    BY <1>1, <2>2 DEF IsGen, Shape
  <2>4. Shape(gen')
    BY <1>1, <2>1, <2>3, StacksDiffer DEF Shape, Stacks
  <2>5. Said(gen') /\ Woken(rt', gen')
    BY <1>1, <2>3, WokenSame DEF Said
  <2> QED
    BY <1>3, <2>3, <2>4, <2>5
<1>5. CASE LoopResume
  <2>1. gen.stack = <<"loop">> /\ gen.stack # <<>>
    BY <1>1, <1>5, TopIs, StacksDiffer DEF LoopResume, Loop
  <2>2. /\ gen.queue # <<>> /\ gen.state \in {"start", "yield", "yieldStar", "executing"}
        /\ gen.state = "start" => Head(gen.queue).kind = "next"
        /\ gen' = async_func_resume(gen)
    BY <1>5 DEF LoopResume, Loop
  <2>3. gen.frame = "suspended"
    BY <1>1, <1>2, <2>1, <2>2, StacksDiffer DEF Shape, GenFrames
  <2>4. PICK g : g = [gen EXCEPT !.state = "executing", !.frame = "running",
                                 !.fault = @ \/ gen.frame # "suspended"]
    OBVIOUS
  <2>5. /\ IsGen(g) /\ g.stack = gen.stack /\ gen' = At(g, "body") /\ ~g.fault
        /\ g.state = "executing" /\ g.frame = "running" /\ g.queue = gen.queue
        /\ g.asked = gen.asked /\ g.answers = gen.answers
    BY <1>1, <2>2, <2>3, <2>4 DEF IsGen, async_func_resume, Shape, GenStates, GenFrames
  <2>6. gen' = [g EXCEPT !.stack = <<"body">>]
    BY <1>2, <2>1, <2>5, StackOps
  <2>7. /\ gen'.state = "executing" /\ gen'.frame = "running" /\ ~gen'.fault
        /\ gen'.answers = gen.answers /\ gen'.queue = gen.queue /\ gen'.asked = gen.asked /\ gen'.stack = <<"body">>
    BY <2>5, <2>6 DEF IsGen
  <2>8. Shape(gen')
    BY <2>2, <2>7, StacksDiffer DEF Shape, Stacks
  <2>9. Said(gen')
    BY <1>1, <2>2, <2>7 DEF Said
  <2>10. Woken(rt', gen')
    BY <2>1, <2>2, <2>7, StacksDiffer, WokenSame
  <2> QED
    BY <1>3, <2>7, <2>8, <2>9, <2>10
<1>6. CASE LoopAbandon
  <2>1. gen.stack = <<"loop">> /\ gen.stack # <<>>
    BY <1>1, <1>6, TopIs, StacksDiffer DEF LoopAbandon, Loop
  <2>2. gen.queue # <<>> /\ gen.state = "start" /\ gen' = js_async_generator_complete(gen)
    BY <1>6 DEF LoopAbandon, Loop
  <2>3. gen.frame = "suspended"
    BY <1>1, <1>2, <2>1, <2>2, StacksDiffer DEF Shape, GenFrames
  <2>4. /\ gen'.state = "completed" /\ gen'.frame = "freed" /\ ~gen'.fault
        /\ gen'.answers = gen.answers /\ gen'.queue = gen.queue /\ gen'.asked = gen.asked /\ gen'.stack = gen.stack
    BY <1>1, <2>2, <2>3 DEF IsGen, Shape, js_async_generator_complete, async_func_free
  <2>5. Shape(gen')
    BY <2>1, <2>4, StacksDiffer DEF Shape, Stacks
  <2>6. Said(gen') /\ Woken(rt', gen')
    BY <2>2, <2>4, WokenSame DEF Said
  <2> QED
    BY <1>3, <2>4, <2>5, <2>6
<1>7. CASE LoopAnswered
  <2>1. gen.stack = <<"again">> \/ gen.stack = <<"last">>
    BY <1>1, <1>7, TopIs DEF LoopAnswered
  <2>2. gen.stack # <<>>
    BY <2>1, StacksDiffer
  <2>3. gen' = [gen EXCEPT !.stack = <<"loop">>] \/ gen' = [gen EXCEPT !.stack = <<>>]
    BY <1>1, <1>2, <1>7, <2>2, StackOps DEF LoopAnswered
  <2>4. /\ gen'.state = gen.state /\ gen'.frame = gen.frame /\ gen'.fault = gen.fault
        /\ gen'.answers = gen.answers /\ gen'.queue = gen.queue /\ gen'.asked = gen.asked
        /\ gen'.stack = <<"loop">> \/ gen'.stack = <<>>
    BY <1>1, <2>3 DEF IsGen
  <2>5. gen.state \notin {"executing", "awaitingReturn"} /\ gen.frame # "running"
    BY <1>1, <2>1, StacksDiffer DEF Shape
  <2>6. gen.frame # "gone"
    BY <1>1, <2>2 DEF Shape
  <2>7. Shape(gen')
    <3>1. ~gen'.fault /\ gen'.frame # "running" /\ gen'.stack \in Stacks
      BY <1>1, <2>4, <2>5 DEF Shape, Stacks
    <3>2. gen'.stack \notin {<<"body">>, <<"again">>, <<"last">>}
      BY <2>4, StacksDiffer
    <3>3. /\ gen'.frame = "freed" => gen'.state \in {"completed", "awaitingReturn"}
          /\ gen'.frame = "suspended" => gen'.state \notin {"completed", "awaitingReturn"}
      BY <1>1, <2>4 DEF Shape
    <3> QED
      BY <2>4, <2>5, <2>6, <3>1, <3>2, <3>3 DEF Shape
  <2>8. Said(gen') /\ Woken(rt', gen')
    BY <1>1, <2>4, <2>5, WokenSame DEF Said
  <2> QED
    BY <1>3, <2>4, <2>7, <2>8
<1>8. CASE Finalize
  <2>1. gen.stack = <<>> /\ gen.queue = <<>> /\ gen.frame # "gone"
    BY <1>1, <1>8, TopIs DEF Finalize
  <2>2. gen.state \notin {"executing", "awaitingReturn"}
    BY <1>1, <2>1 DEF Shape
  <2>3. gen.state # "completed" => gen.frame = "suspended"
    BY <1>1, <1>2, <2>1, <2>2, StacksDiffer DEF Shape, GenFrames
  <2>4. /\ gen'.state = gen.state /\ gen'.frame = "gone" /\ ~gen'.fault
        /\ gen'.answers = gen.answers /\ gen'.queue = gen.queue /\ gen'.asked = gen.asked /\ gen'.stack = gen.stack
    BY <1>1, <1>8, <2>2, <2>3 DEF IsGen, Shape, Finalize, async_func_free
  <2>5. Shape(gen')
    BY <1>1, <2>1, <2>2, <2>4, StacksDiffer DEF Shape, Stacks
  <2>6. Said(gen') /\ Woken(rt', gen')
    BY <1>1, <2>2, <2>4, WokenSame DEF Said
  <2> QED
    BY <1>3, <2>4, <2>5, <2>6
<1> QED
  BY <1>4, <1>5, <1>6, <1>7, <1>8 DEF Moves

\* A step that answers the first request of g, where g is gen except for
\* where it is.
Places(g) ==
  /\ IsGen(g) /\ g.queue = gen.queue /\ g.asked = gen.asked /\ g.answers = gen.answers
  /\ ~g.fault

\* An answer that IteratorContract allows, in a place where the generator may be.
LEMMA AnswerKeeps ==
  ASSUME GInv, AInv', gen.queue # <<>>, NEW g, Places(g), NEW what \in {"yield", "done", "reject"},
         what \in Iterator!Answers(Head(gen.queue).kind),
         NEW s, NEW c, js_async_generator_resolve_or_reject(s, g, what, c),
         \/ g.state = "completed" /\ g.frame = "freed" /\ g.stack \in {<<>>, <<"loop">>, <<"again">>, <<"last">>}
         \/ /\ g.state \in {"yield", "yieldStar"} /\ what = "yield" /\ gen.state = "executing"
            /\ g.frame = "suspended" /\ g.stack = <<"again">>,
         Never(rt', HAwait), Never(rt', HReturn)
  PROVE  GInv' /\ IStep
<1>1. AfterAnswer(g, what, gen') /\ IStep
  BY AnswerIs DEF Places
<1>2. /\ gen'.state = g.state /\ gen'.frame = g.frame /\ gen'.stack = g.stack /\ ~gen'.fault
      /\ Queued(gen')
  BY <1>1 DEF AfterAnswer, Places
<1>3. Said(gen')
  BY <1>1, SaidAfter DEF Places
<1>4. gen'.state \in {"completed", "yield", "yieldStar"}
  BY <1>2
<1>5. Shape(gen')
  <2>1. gen'.stack \in Stacks /\ gen'.stack # <<"body">>
    <3>1. gen'.stack \in {<<>>, <<"loop">>, <<"again">>, <<"last">>}
      BY <1>2
    <3>2. <<"body">> \notin {<<>>, <<"loop">>, <<"again">>, <<"last">>}
      BY StacksDiffer
    <3> QED
      BY <3>1, <3>2 DEF Stacks
  <2>2. gen'.stack = <<"last">> => gen'.state = "completed"
    BY <1>2, StacksDiffer
  <2>3. /\ gen'.frame \in {"freed", "suspended"}
        /\ gen'.frame = "freed" => gen'.state = "completed"
        /\ gen'.frame = "suspended" => gen'.state # "completed"
    BY <1>2
  <2> QED
    BY <1>2, <1>4, <2>1, <2>2, <2>3 DEF Shape
<1>6. Woken(rt', gen')
  BY <1>4 DEF Woken
<1> QED
  BY <1>1, <1>2, <1>3, <1>5, <1>6 DEF GInv

\* An ended generator answers next with done and throw with its exception.
LEMMA LoopAnswerKeeps ==
  ASSUME GInv, AInv', Same, LoopAnswer
  PROVE  GInv' /\ IStep
<1>1. IsGen(gen) /\ Shape(gen)
  BY DEF GInv, AInv
<1>2. gen.stack = <<"loop">> /\ gen.stack # <<>> /\ gen.stack \in Stacks
  BY <1>1, TopIs, StacksDiffer DEF LoopAnswer, Loop, Stacks
<1>3. gen.queue # <<>> /\ gen.state = "completed"
  BY DEF LoopAnswer, Loop
<1>4. gen.frame = "freed"
  BY <1>1, <1>2, <1>3, StacksDiffer DEF Shape, IsGen, GenFrames
<1>5. Never(rt', HAwait) /\ Never(rt', HReturn)
  BY <1>3 DEF GInv, Woken, Same, Keeps
<1>6. CASE /\ Head(gen.queue).kind = "next"
           /\ js_async_generator_resolve_or_reject(rt, At(gen, "last"), "done", Value(Result))
  <2>1. PICK g : g = At(gen, "last")
    OBVIOUS
  <2>2. g = [gen EXCEPT !.stack = <<"last">>]
    BY <1>1, <1>2, <2>1, StackOps
  <2>3. Places(g) /\ g.state = "completed" /\ g.frame = "freed" /\ g.stack = <<"last">>
    BY <1>1, <1>3, <1>4, <2>2 DEF Places, IsGen, Shape
  <2>4. "done" \in Iterator!Answers(Head(gen.queue).kind)
    BY <1>3, <1>6, MaySay
  <2> QED
    BY <1>3, <1>5, <1>6, <2>1, <2>3, <2>4, AnswerKeeps
<1>7. CASE /\ Head(gen.queue).kind = "throw"
           /\ js_async_generator_resolve_or_reject(rt, Pop(gen), "reject", Reason(Head(gen.queue).value))
  <2>1. PICK g : g = Pop(gen)
    OBVIOUS
  <2>2. g = [gen EXCEPT !.stack = <<>>]
    BY <1>1, <1>2, <2>1, StackOps
  <2>3. Places(g) /\ g.state = "completed" /\ g.frame = "freed" /\ g.stack = <<>>
    BY <1>1, <1>3, <1>4, <2>2 DEF Places, IsGen, Shape
  <2>4. "reject" \in Iterator!Answers(Head(gen.queue).kind)
    BY <1>3, <1>7, MaySay
  <2> QED
    BY <1>3, <1>5, <1>7, <2>1, <2>3, <2>4, AnswerKeeps
<1> QED
  BY <1>6, <1>7 DEF LoopAnswer

\* A running body may say anything: it was started by next, and has not ended.
LEMMA BodyAnswerKeeps ==
  ASSUME GInv, AInv', Same, (\E state \in {"yield", "yieldStar"} : Yield(state)) \/ BodyReturn \/ BodyThrow
  PROVE  GInv' /\ IStep
<1>1. IsGen(gen) /\ Shape(gen)
  BY DEF GInv, AInv
<1>2. gen.stack = <<"body">> /\ gen.stack # <<>> /\ gen.stack \in Stacks
  BY <1>1, TopIs, StacksDiffer DEF Yield, BodyReturn, BodyThrow, BodyRuns, Stacks
<1>3. gen.state = "executing" /\ gen.queue # <<>>
  BY <1>1, <1>2 DEF Shape
<1>4. Never(rt', HAwait) /\ Never(rt', HReturn)
  BY <1>2, <1>3 DEF GInv, Woken, Same, Keeps
<1>5. \A what \in {"yield", "done", "reject"} : what \in Iterator!Answers(Head(gen.queue).kind)
  BY <1>3, MaySay
<1>6. ASSUME NEW state \in {"yield", "yieldStar"}, Yield(state) PROVE GInv' /\ IStep
  <2>1. PICK f : f = [Suspended EXCEPT !.state = state]
    OBVIOUS
  <2>2. Places(f) /\ f.state = state /\ f.frame = "suspended" /\ f.stack = gen.stack
    BY <1>1, <2>1 DEF Suspended, Places, IsGen, Shape, GenFrames, GenStates
  <2>3. PICK g : g = At(f, "again")
    OBVIOUS
  <2>4. g = [f EXCEPT !.stack = <<"again">>]
    BY <1>2, <2>2, <2>3, StackOps DEF Places
  <2>5. Places(g) /\ g.state = state /\ g.frame = "suspended" /\ g.stack = <<"again">>
    BY <2>2, <2>4 DEF Places, IsGen
  <2>6. js_async_generator_resolve_or_reject(rt, g, "yield", Value(Result))
    BY <1>6, <2>1, <2>3 DEF Yield
  <2> QED
    BY <1>3, <1>4, <1>5, <2>5, <2>6, AnswerKeeps
<1>7. PICK f : f = js_async_generator_complete(Suspended)
  OBVIOUS
<1>8. Places(f) /\ f.state = "completed" /\ f.frame = "freed" /\ f.stack = gen.stack
  BY <1>1, <1>3, <1>7 DEF Suspended, js_async_generator_complete, async_func_free, Places, IsGen, Shape,
                          GenFrames, GenStates
<1>9. ASSUME NEW a \in {"again", "loop"}, NEW g, g = At(f, a)
      PROVE  Places(g) /\ g.state = "completed" /\ g.frame = "freed" /\ g.stack = <<a>>
  <2>1. g = [f EXCEPT !.stack = <<a>>]
    BY <1>2, <1>8, <1>9, StackOps DEF Places
  <2> QED
    BY <1>8, <2>1 DEF Places, IsGen
<1>10. CASE BodyReturn
  <2>1. PICK g : g = At(f, "again")
    OBVIOUS
  <2>2. js_async_generator_resolve_or_reject(rt, g, "done", Value(Result))
    BY <1>7, <1>10, <2>1 DEF BodyReturn
  <2> QED
    BY <1>3, <1>4, <1>5, <1>9, <2>1, <2>2, AnswerKeeps
<1>11. CASE BodyThrow
  <2>1. PICK g : g = At(f, "loop")
    OBVIOUS
  <2>2. js_async_generator_resolve_or_reject(rt, g, "reject", Reason(Error))
    BY <1>7, <1>11, <2>1 DEF BodyThrow
  <2> QED
    BY <1>3, <1>4, <1>5, <1>9, <2>1, <2>2, AnswerKeeps
<1> QED
  BY <1>6, <1>10, <1>11

\* js_async_generator_completed_return: the request is woken once.
LEMMA AwaitReturnKeeps ==
  ASSUME GInv, AInv', Keeps(rt, rt', HAwait), Never(rt, HReturn) => Once(rt', HReturn), LoopAwaitReturn
  PROVE  GInv' /\ IStep
<1>1. IsGen(gen) /\ Shape(gen) /\ Queued(gen) /\ Said(gen)
  BY DEF GInv, AInv
<1>2. gen.stack = <<"loop">> /\ gen.stack # <<>> /\ gen.stack \in Stacks
  BY <1>1, TopIs, StacksDiffer DEF LoopAwaitReturn, Loop, Stacks
<1>3. gen.queue # <<>> /\ gen.state = "completed" /\ Head(gen.queue).kind = "return"
  BY DEF LoopAwaitReturn, Loop
<1>4. gen.frame = "freed"
  BY <1>1, <1>2, <1>3, StacksDiffer DEF Shape, IsGen, GenFrames
<1>5. PICK g : g = Pop(gen)
  OBVIOUS
<1>6. g = [gen EXCEPT !.stack = <<>>] /\ gen' = [g EXCEPT !.state = "awaitingReturn"]
  BY <1>1, <1>2, <1>5, StackOps DEF LoopAwaitReturn
<1>7. /\ gen'.state = "awaitingReturn" /\ gen'.frame = "freed" /\ ~gen'.fault /\ gen'.stack = <<>>
      /\ gen'.answers = gen.answers /\ gen'.queue = gen.queue /\ gen'.asked = gen.asked
  BY <1>1, <1>4, <1>6 DEF IsGen, Shape
<1>8. Shape(gen')
  BY <1>3, <1>7, StacksDiffer DEF Shape, Stacks
<1>9. Queued(gen') /\ Said(gen')
  BY <1>1, <1>7 DEF Queued, Said
<1>10. Never(rt, HAwait) /\ Never(rt, HReturn)
  BY <1>3 DEF GInv, Woken
<1>11. Woken(rt', gen')
  BY <1>7, <1>10 DEF Woken, Keeps
<1> QED
  BY <1>7, <1>8, <1>9, <1>11 DEF GInv, IStep

\* js_async_generator_await: the body is woken once.
LEMMA BodyAwaitKeeps ==
  ASSUME GInv, AInv', Keeps(rt, rt', HReturn), Never(rt, HAwait) => Once(rt', HAwait),
         NEW v, BodyAwait(v)
  PROVE  GInv' /\ IStep
<1>1. IsGen(gen) /\ Shape(gen) /\ Queued(gen) /\ Said(gen)
  BY DEF GInv, AInv
<1>2. gen.stack = <<"body">> /\ gen.stack # <<>> /\ gen.stack \in Stacks
  BY <1>1, TopIs, StacksDiffer DEF BodyAwait, BodyRuns, Stacks
<1>3. gen.state = "executing" /\ gen.queue # <<>>
  BY <1>1, <1>2 DEF Shape
<1>4. PICK a : a = gen.awaits + 1
  OBVIOUS
<1>5. a \in Nat
  BY <1>1, <1>4 DEF IsGen
<1>6. PICK g : g = [gen EXCEPT !.frame = "suspended", !.awaits = a]
  OBVIOUS
<1>7. gen' = Pop(g)
  BY <1>1, <1>4, <1>6 DEF BodyAwait, Suspended, IsGen
<1>8. IsGen(g) /\ g.stack = gen.stack
  BY <1>1, <1>5, <1>6 DEF IsGen, GenFrames
<1>9. gen' = [g EXCEPT !.stack = <<>>]
  BY <1>2, <1>7, <1>8, StackOps
<1>10. /\ gen'.state = "executing" /\ gen'.frame = "suspended" /\ ~gen'.fault /\ gen'.stack = <<>>
       /\ gen'.answers = gen.answers /\ gen'.queue = gen.queue /\ gen'.asked = gen.asked
  BY <1>1, <1>3, <1>6, <1>9 DEF IsGen, Shape
<1>11. Shape(gen')
  BY <1>3, <1>10, StacksDiffer DEF Shape, Stacks
<1>12. Queued(gen') /\ Said(gen')
  BY <1>1, <1>3, <1>10 DEF Queued, Said
<1>13. Never(rt, HAwait) /\ Never(rt, HReturn)
  BY <1>2, <1>3 DEF GInv, Woken
<1>14. Woken(rt', gen')
  BY <1>10, <1>13 DEF Woken, Keeps
<1> QED
  BY <1>10, <1>11, <1>12, <1>14 DEF GInv, IStep

\* js_async_generator_resolve_function: only an executing generator is woken.
LEMMA AwaitOverKeeps ==
  ASSUME GInv, AInv', Keeps(rt, rt', HReturn), ~Never(rt, HAwait), Once(rt, HAwait) => Never(rt', HAwait),
         AwaitOver
  PROVE  GInv' /\ IStep
<1>1. IsGen(gen) /\ Shape(gen) /\ Queued(gen) /\ Said(gen)
  BY DEF GInv, AInv
<1>2. gen.state = "executing" /\ gen.stack = <<>> /\ Once(rt, HAwait) /\ Never(rt, HReturn)
  BY DEF GInv, Woken
<1>3. gen.queue # <<>> /\ gen.frame = "suspended"
  BY <1>1, <1>2, StacksDiffer DEF Shape, IsGen, GenFrames
<1>4. PICK g : g = [gen EXCEPT !.fault = @ \/ gen.state # "executing"]
  OBVIOUS
<1>5. /\ IsGen(g) /\ g.stack = gen.stack /\ ~g.fault /\ gen' = Push(g, "loop")
      /\ g.state = gen.state /\ g.frame = gen.frame /\ g.queue = gen.queue
      /\ g.asked = gen.asked /\ g.answers = gen.answers
  BY <1>1, <1>2, <1>4 DEF IsGen, Shape, AwaitOver
<1>6. gen' = [g EXCEPT !.stack = <<"loop">>]
  BY <1>2, <1>5, StackOps DEF Stacks
<1>7. /\ gen'.state = "executing" /\ gen'.frame = "suspended" /\ ~gen'.fault /\ gen'.stack = <<"loop">>
      /\ gen'.answers = gen.answers /\ gen'.queue = gen.queue /\ gen'.asked = gen.asked
  BY <1>2, <1>3, <1>5, <1>6 DEF IsGen
<1>8. Shape(gen')
  BY <1>3, <1>7, StacksDiffer DEF Shape, Stacks
<1>9. Queued(gen') /\ Said(gen')
  BY <1>1, <1>2, <1>7 DEF Queued, Said
<1>10. Woken(rt', gen')
  BY <1>2, <1>7, StacksDiffer DEF Woken, Keeps
<1> QED
  BY <1>7, <1>8, <1>9, <1>10 DEF GInv, IStep

\* js_async_generator_resolve_function: only a generator that awaits a request
\* to return is woken for it, and that request is the first.
LEMMA ReturnOverKeeps ==
  ASSUME GInv, AInv', Keeps(rt, rt', HAwait), ~Never(rt, HReturn), Once(rt, HReturn) => Never(rt', HReturn),
         Top = "none", ReturnOver
  PROVE  GInv' /\ IStep
<1>1. IsGen(gen) /\ Shape(gen)
  BY DEF GInv, AInv
<1>2. gen.state = "awaitingReturn" /\ Once(rt, HReturn) /\ Never(rt, HAwait)
  BY DEF GInv, Woken
<1>3. gen.stack = <<>> /\ gen.queue # <<>> /\ Head(gen.queue).kind = "return"
  BY <1>1, <1>2, TopIs DEF Shape
<1>4. gen.frame = "freed"
  BY <1>1, <1>2, <1>3, StacksDiffer DEF Shape, IsGen, GenFrames
<1>5. Never(rt', HAwait) /\ Never(rt', HReturn)
  BY <1>2 DEF Keeps
<1>6. "done" \in Iterator!Answers(Head(gen.queue).kind) /\ "reject" \in Iterator!Answers(Head(gen.queue).kind)
  BY <1>3, MaySay
<1>7. PICK g : g = [gen EXCEPT !.state = "completed",
                       !.fault = @ \/ gen.state \notin {"awaitingReturn", "completed"}]
  OBVIOUS
<1>8. Places(g) /\ g.state = "completed" /\ g.frame = "freed" /\ g.stack = <<>>
  BY <1>1, <1>2, <1>3, <1>4, <1>7 DEF Places, IsGen, Shape, GenStates
<1>9. CASE js_async_generator_resolve_or_reject(Dequeued, g, "reject", Job.outcome)
  BY <1>3, <1>5, <1>6, <1>8, <1>9, AnswerKeeps
<1>10. CASE js_async_generator_resolve_or_reject(Dequeued, Push(g, "last"), "done", Value(Result))
  <2>1. PICK f : f = Push(g, "last")
    OBVIOUS
  <2>2. f = [g EXCEPT !.stack = <<"last">>]
    BY <1>8, <2>1, StackOps DEF Places, Stacks
  <2>3. Places(f) /\ f.state = "completed" /\ f.frame = "freed" /\ f.stack = <<"last">>
    BY <1>8, <2>2 DEF Places, IsGen
  <2> QED
    BY <1>3, <1>5, <1>6, <1>10, <2>1, <2>3, AnswerKeeps
<1> QED
  BY <1>7, <1>9, <1>10 DEF ReturnOver

\* A generator that was not asked yet.
LEMMA GInvInit ==
  ASSUME GenInit
  PROVE  GInv /\ Iterator!Init
<1>1. AInv /\ \A h : Never(rt, h)
  BY AInvInit
<1>2. gen = [state |-> "start", queue |-> <<>>, frame |-> "suspended", stack |-> <<>>, awaits |-> 0,
             asked |-> <<>>, answers |-> <<>>, fault |-> FALSE]
  BY DEF GenInit
<1>3. Shape(gen)
  BY <1>2, StacksDiffer DEF Shape, Stacks
<1>4. Queued(gen) /\ Said(gen)
  BY <1>2 DEF Queued, Said
<1>5. Woken(rt, gen)
  BY <1>1, <1>2 DEF Woken
<1>6. Iterator!Init
  BY <1>2 DEF Iterator!Init
<1> QED
  BY <1>1, <1>3, <1>4, <1>5, <1>6 DEF GInv

\* Every step keeps GInv and is one of IteratorContract, or one it does not see.
LEMMA GInvStep ==
  ASSUME GInv, GenNext, ~Getters
  PROVE  GInv' /\ IStep
<1>1. AInv /\ script' = script
  BY GenSteps DEF GInv
<1>2. CASE GenQuiet
  <2>1. AInv' /\ Same
    BY <1>1, <1>2, GenQuietOk
  <2>2. CASE UNCHANGED gen
    BY <2>1, <2>2, EngineKeeps
  <2>3. CASE \E kind \in ReqKinds : \E v : OkOutcome(rt, Value(v)) /\ js_async_generator_next(kind, v)
    BY <2>1, <2>3, RequestKeeps
  <2>4. CASE Moves
    BY <2>1, <2>4, MovesKeep
  <2>5. CASE LoopAnswer
    BY <2>1, <2>5, LoopAnswerKeeps
  <2>6. CASE (\E state \in {"yield", "yieldStar"} : Yield(state)) \/ BodyReturn \/ BodyThrow
    BY <2>1, <2>6, BodyAnswerKeeps
  <2> QED
    BY <1>2, <2>2, <2>3, <2>4, <2>5, <2>6 DEF GenQuiet
<1>3. CASE LoopAwaitReturn
  BY <1>1, <1>3, AwaitReturnOk, AwaitReturnKeeps
<1>4. CASE \E v \in Things : BodyAwait(v)
  BY <1>1, <1>4, BodyAwaitOk, BodyAwaitKeeps
<1>5. CASE Top = "none" /\ AwaitOver
  BY <1>1, <1>5, AwaitOverOk, AwaitOverKeeps
<1>6. CASE Top = "none" /\ ReturnOver
  BY <1>1, <1>6, ReturnOverOk, ReturnOverKeeps
<1> QED
  BY <1>1, <1>2, <1>3, <1>4, <1>5, <1>6, GenSteps

\* Stuttering changes nothing.
LEMMA GInvSame ==
  ASSUME GInv, UNCHANGED genVars
  PROVE  GInv' /\ IStep
<1>1. AInv'
  BY AInvSame DEF GInv
<1>2. rt' = rt /\ gen' = gen
  BY DEF genVars, vars
<1>3. Same
  BY <1>2 DEF Same, Keeps
<1> QED
  BY <1>1, <1>2, <1>3, EngineKeeps

\* Where the generator is and who will wake it, for scripts without a getter
\* for then.
THEOREM AlwaysWoken ==
  ASSUME ~Getters
  PROVE  GenSpec => []GInv
<1>1. GenInit => GInv
  BY GInvInit
<1>2. GInv /\ [GenNext]_genVars => GInv'
  BY GInvStep, GInvSame
<1> QED
  BY <1>1, <1>2, PTL DEF GenSpec

\* GInv is what WokenOnce asks for, and more.
LEMMA GInvWoken ==
  ASSUME GInv
  PROVE  WokenOnce
<1>1. IsGen(gen) /\ Shape(gen) /\ Good(rt)
  BY DEF GInv, AInv, PInv, Eng
<1>2. ~gen.fault
  BY <1>1 DEF Shape
<1>3. ASSUME NEW w, NEW h, h = Handler("generator", w)
      PROVE  (Once(rt, h) => Wakings(w) = 1) /\ (Never(rt, h) => Wakings(w) = 0)
  <2>1. PICK W, D : W = Waits(rt, h) /\ D = Due(rt, h)
    OBVIOUS
  <2>2. Wakings(w) = Cardinality(W) + Cardinality(D)
    BY <1>1, <1>3, <2>1, JobPlaces DEF Wakings, Reactions
  <2> QED
    BY <2>1, <2>2, SingleIsOne DEF Once, Never
<1>4. ASSUME Top = "none"
      PROVE  /\ Wakings("await") = IF gen.state = "executing" THEN 1 ELSE 0
             /\ Wakings("return") = IF gen.state = "awaitingReturn" THEN 1 ELSE 0
  <2>1. gen.stack = <<>>
    BY <1>1, <1>4, TopIs
  <2>2. IF gen.state = "executing" THEN Once(rt, HAwait) ELSE Never(rt, HAwait)
    BY <2>1 DEF GInv, Woken
  <2>3. IF gen.state = "awaitingReturn" THEN Once(rt, HReturn) ELSE Never(rt, HReturn)
    BY DEF GInv, Woken
  <2> QED
    BY <1>3, <2>2, <2>3 DEF HAwait, HReturn
<1>5. /\ gen.state \in {"executing", "awaitingReturn"} => gen.queue # <<>>
      /\ gen.frame = "freed" => gen.state \in {"completed", "awaitingReturn"}
      /\ gen.frame = "suspended" => gen.state \notin {"completed", "awaitingReturn"}
  BY <1>1 DEF Shape
<1> QED
  BY <1>2, <1>4, <1>5 DEF WokenOnce

\* js_async_generator_resolve_function and async_func_free: when no getter of
\* the script runs while a request is answered, their assertions hold, no
\* answer finds the queue empty, and a body in the middle of an await, or a
\* request to return that is awaited, is woken by exactly one reaction.
THEOREM GeneratorWoken ==
  ASSUME ~Getters
  PROVE  GenSpec => []WokenOnce
BY AlwaysWoken, GInvWoken, PTL

\* js_async_generator_next and js_async_generator_resume_next implement
\* IteratorContract: requests are answered in the order they were made, each
\* once, and an ended generator does as it is asked.
THEOREM GeneratorAnswers ==
  ASSUME ~Getters
  PROVE  GenSpec => AnswersInOrder
<1>1. GenInit => Iterator!Init
  BY GInvInit
<1>2. GInv /\ [GenNext]_genVars => [Iterator!Next]_(Iterator!vars)
  <2>1. GInv /\ [GenNext]_genVars => IStep
    BY GInvStep, GInvSame
  <2> QED
    BY <2>1 DEF IStep, Iterator!vars
<1>3. GenSpec => []GInv
  BY AlwaysWoken
<1> QED
  BY <1>1, <1>2, <1>3, PTL DEF GenSpec, AnswersInOrder, Iterator!Spec

=============================================================================
