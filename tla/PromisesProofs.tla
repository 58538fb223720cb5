--------------------------- MODULE PromisesProofs ---------------------------
(***************************************************************************)
(* More proofs about Promises and Generators, on top of the soundness of   *)
(* the engine's state (AInv): a promise is settled by the right party and  *)
(* with the right outcome.  For any number of promises, reactions, groups, *)
(* jobs and requests, and for every script, getters or not.                *)
(***************************************************************************)
EXTENDS GeneratorsProofs

-----------------------------------------------------------------------------
(* Who may settle what, and with what *)

Out(s, p)  == s.promises[p].outcome
Mir(s, p)  == s.promises[p].mirrors
Prom(s, r) == s.pairs[r].promise
Shut(s, r) == s.pairs[r].resolved

\* A promise is settled with a value without a then method, or a reason.
PlainO == [reject : BOOLEAN, value : Plain]

\* What functions return or throw.
Clean(c) ==
  /\ c \in [reject : BOOLEAN, value : Plain \cup {Thenable, Trap} \cup Promises]
  /\ c.reject => c.value \in Plain

\* The pair of Promise.all or one of its kin.
OfGroup(s, r) == \E g \in Gr(s) : s.groups[g].pair = r

\* Pair r may be called with anything: its promise repeats no other one and is
\* not the answer of a group, or it has no effect any more.
Free(s, r) ==
  /\ r \in Pa(s)
  /\ Shut(s, r) \/ (Mir(s, Prom(s, r)) = None /\ ~OfGroup(s, r))

\* An item of group x.
Item(x, q) == \E i \in 1 .. Len(x.items) : x.items[i] = q

\* The combinators whose promise an item settles by itself, and those that
\* count it, when it is rejected (b) or fulfilled.
Direct(b)  == IF b THEN {"all", "race"} ELSE {"any", "race"}
Counted(b) == IF b THEN {"any", "allSettled"} ELSE {"all", "allSettled"}

\* Pair r may be called with the outcome of q.
Copies(s, q, b, r) ==
  /\ r \in Pa(s)
  /\ \/ Shut(s, r)
     \/ Mir(s, Prom(s, r)) = q /\ ~OfGroup(s, r)
     \/ \E g \in Gr(s) : /\ s.groups[g].pair = r /\ Item(s.groups[g], q)
                         /\ s.groups[g].magic \in Direct(b)

\* Element function h may be called with the outcome of q.
Counts(s, q, b, h) ==
  /\ h \in Nat \X Nat /\ h[1] \in Gr(s)
  /\ h[2] \in 1 .. Len(s.groups[h[1]].items) /\ h[2] < s.groups[h[1]].next
  /\ s.groups[h[1]].items[h[2]] = q /\ s.groups[h[1]].magic \in Counted(b)

\* Pair r may be called with o, the outcome that finally repeats.
Repeats(s, r, o) ==
  /\ o \in PlainO
  /\ \/ r = None
     \/ Free(s, r)
     \/ /\ r \in Pa(s) /\ ~OfGroup(s, r)
        /\ Mir(s, Prom(s, r)) \in Pr(s) /\ Out(s, Mir(s, Prom(s, r))) = o

\* A reaction x to q being rejected (b) or fulfilled: what it does is right.
RightFor(s, q, b, x) ==
  /\ q \in Pr(s) /\ x.on = q
  /\ x.handler.kind = "resolve" => ~b /\ Copies(s, q, b, x.handler.of)
  /\ x.handler.kind = "reject" => b /\ Copies(s, q, b, x.handler.of)
  /\ x.handler.kind = "element" => Counts(s, q, b, x.handler.of)
  /\ x.handler.kind = "thunk" => Repeats(s, x.cap, x.handler.of)
  /\ x.handler.kind # "thunk" => x.cap = None \/ Free(s, x.cap)

RightJob(s, j) ==
  /\ j.type = "reaction" =>
       /\ j.reaction.on \in Pr(s) /\ j.outcome = Out(s, j.reaction.on) /\ j.outcome \in PlainO
       /\ RightFor(s, j.reaction.on, j.outcome.reject, j.reaction)
  /\ j.type # "reaction" => Mir(s, j.promise) = None

\* Promise p, of which mirrors is that of the promise it repeats: it is settled
\* as that one is.
Mirrored(s, p) ==
  Mir(s, p) # None =>
    Mir(s, p) \in Pr(s) /\ (Out(s, p) # Pending => Out(s, p) = Out(s, Mir(s, p)))

\* The reactions of a pending promise are numbered as they were registered.
Numbered(s, p) ==
  Out(s, p) = Pending =>
    \A b \in BOOLEAN : /\ Len(s.promises[p].reactions[b]) = s.promises[p].thens
                       /\ \A i \in 1 .. s.promises[p].thens : s.promises[p].reactions[b][i].n = i

Expects(s, p) ==
  \A b \in BOOLEAN : \A i \in 1 .. Len(s.promises[p].reactions[b]) :
    RightFor(s, p, b, s.promises[p].reactions[b][i])

RightPromise(s, p) ==
  /\ Out(s, p) = Pending \/ Out(s, p) \in PlainO
  /\ Expects(s, p) /\ Mirrored(s, p) /\ Numbered(s, p)

\* The elements that are in their place, for group x.
Done(x) == {i \in 1 .. Len(x.items) : x.values[i] # Pending}
Filled(x) == \A i \in 1 .. Len(x.items) : x.values[i] # Pending

\* The promise of group x may be settled with o.
Answers(s, x, o) ==
  /\ o # Pending
  /\ \/ /\ o = IF x.magic = "any" THEN Reason(Error) ELSE Value(List)
        /\ x.magic # "race" /\ Filled(x)
     \/ x.magic \in Direct(o.reject) /\ \E i \in 1 .. Len(x.items) : o = Out(s, x.items[i])

\* The elements of group x are the outcomes of its items.
InPlace(s, x) ==
  /\ Len(x.values) = Len(x.items)
  /\ \A i \in Done(x) :
       /\ i < x.next /\ x.values[i] = Out(s, x.items[i])
       /\ <<i, x.values[i].reject>> \in x.called /\ x.magic \in Counted(x.values[i].reject)

\* Its count is the number of items whose element function was not called,
\* and one for the loop.
Counting(x) ==
  /\ x.next <= Len(x.items) + 1
  /\ ~x.open => x.next = Len(x.items) + 1
  /\ x.remaining = (IF x.open THEN 1 ELSE 0) + (x.next - 1) - Cardinality(Done(x))

\* Its promise is settled by its pair, and with the right answer.
Replying(s, x) ==
  /\ Shut(s, x.pair) => Out(s, Prom(s, x.pair)) # Pending
  /\ Out(s, Prom(s, x.pair)) # Pending => Answers(s, x, Out(s, Prom(s, x.pair)))
  /\ ~Shut(s, x.pair) => Mir(s, Prom(s, x.pair)) = None

RightGroup(s, x) == InPlace(s, x) /\ Counting(x) /\ Replying(s, x)

RPromises(s) == \A p \in Pr(s) : RightPromise(s, p)
RJobs(s)     == \A i \in 1 .. Len(s.jobs) : RightJob(s, s.jobs[i])
RAsyncs(s)   == \A a \in As(s) : Free(s, s.asyncs[a].pair)
RGroups(s)   == \A g \in Gr(s) : RightGroup(s, s.groups[g])
RPairs(s)    == \A g, h \in Gr(s) : s.groups[g].pair = s.groups[h].pair => g = h

Right(s) == RPromises(s) /\ RJobs(s) /\ RAsyncs(s) /\ RGroups(s) /\ RPairs(s)

QueueRight(s, q) ==
  \A i \in 1 .. Len(q) :
    Free(s, q[i].pair) /\ Clean(Value(q[i].value)) /\ (q[i].kind = "throw" => q[i].value \in Plain)

\* The inductive invariant.
RInv ==
  /\ AInv /\ Right(rt)
  /\ \A r \in held : Free(rt, r)
  /\ seen \subseteq Promises
  /\ QueueRight(rt, gen.queue)

-----------------------------------------------------------------------------
(* What a step may change *)

\* Settled promises stay as they are, used pairs stay used, and groups keep
\* their items and their pair.
Onward(s, t) ==
  /\ Pr(s) \subseteq Pr(t) /\ Pa(s) \subseteq Pa(t) /\ Gr(s) \subseteq Gr(t)
  /\ \A r \in Pa(s) :
       /\ Prom(t, r) = Prom(s, r) /\ (Shut(s, r) => Shut(t, r))
       /\ ~Shut(t, r) => Mir(t, Prom(s, r)) = Mir(s, Prom(s, r))
  /\ \A p \in Pr(s) : Out(s, p) # Pending => Out(t, p) = Out(s, p)
  /\ \A g \in Gr(s) :
       /\ t.groups[g].magic = s.groups[g].magic /\ t.groups[g].items = s.groups[g].items
       /\ t.groups[g].pair = s.groups[g].pair /\ s.groups[g].next <= t.groups[g].next
  /\ \A g \in Gr(t) : g \in Gr(s) \/ t.groups[g].pair \notin Pa(s)

\* A settled promise is not pending.
LEMMA PlainNotPending ==
  /\ Pending \notin PlainO
  /\ \A c : c \in PlainO => Clean(c) /\ c # Pending
  /\ \A p : ~(p \in Nat /\ p = None)
BY PromiseAssumption DEF Pending, PlainO, Clean

\* The pairs of groups that were there are the same.
LEMMA OfGroupStays ==
  ASSUME NEW s, NEW t, Onward(s, t), NEW r \in Pa(s)
  PROVE  OfGroup(t, r) <=> OfGroup(s, r)
BY DEF Onward, OfGroup

\* A pair that may be called with anything may be so afterwards.
LEMMA FreeStays ==
  ASSUME NEW s, NEW t, Onward(s, t), NEW r, Free(s, r)
  PROVE  Free(t, r)
<1>1. r \in Pa(s) /\ r \in Pa(t)
  BY DEF Free, Onward
<1>2. OfGroup(t, r) <=> OfGroup(s, r)
  BY <1>1, OfGroupStays
<1>3. Prom(t, r) = Prom(s, r) /\ (Shut(s, r) => Shut(t, r))
      /\ (~Shut(t, r) => Mir(t, Prom(s, r)) = Mir(s, Prom(s, r)))
  BY <1>1 DEF Onward
<1> QED
  BY <1>1, <1>2, <1>3 DEF Free

\* js_promise_resolve_thenable_job, Promise.race and any: a resolving function
\* that is given the outcome of q may be given it afterwards.
LEMMA CopiesStay ==
  ASSUME NEW s, NEW t, Onward(s, t), NEW q, NEW b, NEW r, Copies(s, q, b, r)
  PROVE  Copies(t, q, b, r)
<1>1. r \in Pa(s) /\ r \in Pa(t)
  BY DEF Copies, Onward
<1>2. OfGroup(t, r) <=> OfGroup(s, r)
  BY <1>1, OfGroupStays
<1>3. Prom(t, r) = Prom(s, r) /\ (Shut(s, r) => Shut(t, r))
      /\ (~Shut(t, r) => Mir(t, Prom(s, r)) = Mir(s, Prom(s, r)))
  BY <1>1 DEF Onward
<1>4. ASSUME NEW g \in Gr(s), s.groups[g].pair = r, Item(s.groups[g], q), s.groups[g].magic \in Direct(b)
      PROVE  g \in Gr(t) /\ t.groups[g].pair = r /\ Item(t.groups[g], q) /\ t.groups[g].magic \in Direct(b)
  BY <1>4 DEF Onward, Item
<1> QED
  BY <1>1, <1>2, <1>3, <1>4 DEF Copies

\* Promise.all and its kin: what is kept of each group.
LEMMA GroupIn ==
  ASSUME NEW s, Good(s), NEW g \in Gr(s)
  PROVE  s.groups[g] \in AnyGroup
<1>1. s.groups \in Seq(AnyGroup)
  BY DEF Good, AnyEngine
<1> QED
  BY <1>1 DEF Gr

\* So may an element function of Promise.all.
LEMMA CountsStay ==
  ASSUME NEW s, NEW t, Good(s), Good(t), Onward(s, t), NEW q, NEW b, NEW h, Counts(s, q, b, h)
  PROVE  Counts(t, q, b, h)
<1>1. PICK g : g = h[1]
  OBVIOUS
<1>2. PICK i : i = h[2]
  OBVIOUS
<1>3. /\ h \in Nat \X Nat /\ g \in Gr(s) /\ i \in 1 .. Len(s.groups[g].items) /\ i < s.groups[g].next
      /\ s.groups[g].items[i] = q /\ s.groups[g].magic \in Counted(b)
  BY <1>1, <1>2 DEF Counts
<1>4. /\ g \in Gr(t) /\ t.groups[g].magic = s.groups[g].magic /\ t.groups[g].items = s.groups[g].items
      /\ s.groups[g].next <= t.groups[g].next
  BY <1>3 DEF Onward
<1>5. s.groups[g] \in AnyGroup /\ t.groups[g] \in AnyGroup
  BY <1>3, <1>4, GroupIn
<1>6. s.groups[g].next \in Nat \ {0} /\ t.groups[g].next \in Nat \ {0}
  BY <1>5 DEF AnyGroup
<1>6a. i \in Int
  BY <1>3
<1>7. i < t.groups[g].next
  BY <1>3, <1>4, <1>6, <1>6a
<1> QED
  BY <1>1, <1>2, <1>3, <1>4, <1>7 DEF Counts

\* And the functions finally hands to then.
LEMMA RepeatsStays ==
  ASSUME NEW s, NEW t, Onward(s, t), NEW r, NEW o, Repeats(s, r, o)
  PROVE  Repeats(t, r, o)
<1>0. o \in PlainO /\ o # Pending
  BY PlainNotPending DEF Repeats
<1>1. CASE r = None
  BY <1>0, <1>1 DEF Repeats
<1>2. CASE Free(s, r)
  BY <1>0, <1>2, FreeStays DEF Repeats
<1>3. CASE /\ r \in Pa(s) /\ ~OfGroup(s, r)
           /\ Mir(s, Prom(s, r)) \in Pr(s) /\ Out(s, Mir(s, Prom(s, r))) = o
  <2>1. r \in Pa(t) /\ ~OfGroup(t, r)
    BY <1>3, OfGroupStays DEF Onward
  <2>2. Prom(t, r) = Prom(s, r) /\ (~Shut(t, r) => Mir(t, Prom(s, r)) = Mir(s, Prom(s, r)))
    BY <1>3 DEF Onward
  <2>3. Mir(s, Prom(s, r)) \in Pr(t) /\ Out(t, Mir(s, Prom(s, r))) = o
    BY <1>0, <1>3 DEF Onward
  <2>4. CASE Shut(t, r)
    BY <1>0, <2>1, <2>4 DEF Repeats, Free
  <2>5. CASE ~Shut(t, r)
    BY <1>0, <2>1, <2>2, <2>3, <2>5 DEF Repeats
  <2> QED
    BY <2>4, <2>5
<1> QED
  BY <1>1, <1>2, <1>3 DEF Repeats

\* What is right for a reaction stays right until it runs.
LEMMA RightForStays ==
  ASSUME NEW s, NEW t, Good(s), Good(t), Onward(s, t), NEW q, NEW b, NEW x, RightFor(s, q, b, x)
  PROVE  RightFor(t, q, b, x)
<1>1. q \in Pr(t)
  BY DEF RightFor, Onward
<1> QED
  BY <1>1, FreeStays, CopiesStay, CountsStay, RepeatsStays DEF RightFor

\* And for the job it becomes.
LEMMA RightJobStays ==
  ASSUME NEW s, NEW t, Good(s), Good(t), Onward(s, t), NEW j, RightJob(s, j),
         j.type # "reaction" => Mir(t, j.promise) = Mir(s, j.promise)
  PROVE  RightJob(t, j)
<1>1. CASE j.type = "reaction"
  <2>1. /\ j.reaction.on \in Pr(s) /\ j.outcome = Out(s, j.reaction.on) /\ j.outcome \in PlainO
        /\ RightFor(s, j.reaction.on, j.outcome.reject, j.reaction)
    BY <1>1 DEF RightJob
  <2>2. j.reaction.on \in Pr(t) /\ j.outcome = Out(t, j.reaction.on)
    BY <2>1, PlainNotPending DEF Onward
  <2> QED
    BY <1>1, <2>1, <2>2, RightForStays DEF RightJob
<1>2. CASE j.type # "reaction"
  BY <1>2 DEF RightJob
<1> QED
  BY <1>1, <1>2

\* One step after the other.
LEMMA OnwardTrans ==
  ASSUME NEW s, NEW t, NEW u, Good(s), Good(t), Good(u), Onward(s, t), Onward(t, u)
  PROVE  Onward(s, u)
<1>1. Pr(s) \subseteq Pr(u) /\ Pa(s) \subseteq Pa(u) /\ Gr(s) \subseteq Gr(u)
  BY DEF Onward
<1>2. \A r \in Pa(s) :
       /\ Prom(u, r) = Prom(s, r) /\ (Shut(s, r) => Shut(u, r))
       /\ ~Shut(u, r) => Mir(u, Prom(s, r)) = Mir(s, Prom(s, r))
  BY DEF Onward
<1>3. \A p \in Pr(s) : Out(s, p) # Pending => Out(u, p) = Out(s, p)
  BY DEF Onward
<1>4. ASSUME NEW g \in Gr(s)
      PROVE  /\ u.groups[g].magic = s.groups[g].magic /\ u.groups[g].items = s.groups[g].items
             /\ u.groups[g].pair = s.groups[g].pair /\ s.groups[g].next <= u.groups[g].next
  <2>1. g \in Gr(t) /\ g \in Gr(u)
    BY DEF Onward
  <2>2. s.groups[g] \in AnyGroup /\ t.groups[g] \in AnyGroup /\ u.groups[g] \in AnyGroup
    BY <2>1, GroupIn
  <2>3. s.groups[g].next \in Nat /\ t.groups[g].next \in Nat /\ u.groups[g].next \in Nat
    BY <2>2 DEF AnyGroup
  <2>4. s.groups[g].next <= t.groups[g].next /\ t.groups[g].next <= u.groups[g].next
    BY <2>1 DEF Onward
  <2>5. s.groups[g].next <= u.groups[g].next
    BY <2>3, <2>4
  <2> QED
    BY <2>1, <2>5 DEF Onward
<1>5. \A g \in Gr(u) : g \in Gr(s) \/ u.groups[g].pair \notin Pa(s)
  BY DEF Onward
<1> QED
  BY <1>1, <1>2, <1>3, <1>4, <1>5 DEF Onward

\* Doing nothing.
LEMMA OnwardSame ==
  ASSUME NEW s, Good(s)
  PROVE  Onward(s, s)
<1>1. \A g \in Gr(s) : s.groups[g].next <= s.groups[g].next
  <2> SUFFICES ASSUME NEW g \in Gr(s) PROVE s.groups[g].next <= s.groups[g].next
    OBVIOUS
  <2>1. s.groups[g] \in AnyGroup
    BY DEF Good, AnyEngine, Gr
  <2>2. s.groups[g].next \in Nat \ {0}
    BY <2>1 DEF AnyGroup
  <2> QED
    BY <2>2
<1> QED
  BY <1>1 DEF Onward

-----------------------------------------------------------------------------
(* What a step makes due *)

\* The numbers of the reactions on p that become due from s to t, as in
\* PromiseContract.
Begin(s, p) == IF p \in Pr(s) /\ Out(s, p) # Pending THEN s.promises[p].thens + 1 ELSE 1
End(t, p)   == IF Out(t, p) = Pending THEN 0 ELSE t.promises[p].thens

\* The places of the reactions on p after the first n jobs.
Fresh(t, n, p) == {i \in n + 1 .. Len(t.jobs) : t.jobs[i].type = "reaction" /\ t.jobs[i].reaction.on = p}

\* Exactly those are added, in their order.
InTurn(s, n, t, p) ==
  /\ \A k : k \in Begin(s, p) .. End(t, p) <=> \E i \in Fresh(t, n, p) : t.jobs[i].reaction.n = k
  /\ \A i, j \in Fresh(t, n, p) : i < j => t.jobs[i].reaction.n < t.jobs[j].reaction.n

\* The jobs l are first in the list, and behind them is what became due.
Delivers(s, l, t) ==
  /\ Len(l) \in Nat /\ Len(l) <= Len(t.jobs) /\ \A i \in 1 .. Len(l) : t.jobs[i] = l[i]
  /\ \A p \in Pr(s) : s.promises[p].thens <= t.promises[p].thens
  /\ \A p \in Pr(t) : InTurn(s, Len(l), t, p)

\* The numbers are numbers.
LEMMA ThensNat ==
  ASSUME NEW s, Good(s)
  PROVE  /\ \A p \in Pr(s) : s.promises[p].thens \in Nat
         /\ Len(s.jobs) \in Nat
<1>1. \A p \in Pr(s) : s.promises[p] \in AnyPromise
  BY DEF Good, AnyEngine, Pr
<1> QED
  BY <1>1 DEF AnyPromise, Good, AnyEngine

\* A step that settles nothing and adds no reaction job.
LEMMA DeliversNothing ==
  ASSUME NEW s, NEW t, NEW l, Good(s), Good(t), Len(l) \in Nat, Len(l) <= Len(t.jobs),
         \A i \in 1 .. Len(l) : t.jobs[i] = l[i],
         \A i \in Len(l) + 1 .. Len(t.jobs) : t.jobs[i].type # "reaction",
         \A p \in Pr(s) : s.promises[p].thens <= t.promises[p].thens,
         \A p \in Pr(t) : \/ Out(t, p) = Pending
                          \/ p \in Pr(s) /\ Out(t, p) = Out(s, p)
                             /\ t.promises[p].thens = s.promises[p].thens
  PROVE  Delivers(s, l, t)
<1>1. ASSUME NEW p \in Pr(t) PROVE InTurn(s, Len(l), t, p)
  <2>1. Fresh(t, Len(l), p) = {}
    BY DEF Fresh
  <2>2. Begin(s, p) .. End(t, p) = {}
    <3>1. PICK a : a = Begin(s, p)
      OBVIOUS
    <3>2. PICK b : b = End(t, p)
      OBVIOUS
    <3>3. a \in Nat /\ b \in Nat /\ b < a
      BY <3>1, <3>2, ThensNat DEF Begin, End
    <3>4. a .. b = {}
      BY <3>3
    <3> QED
      BY <3>1, <3>2, <3>4
  <2> QED
    BY <2>1, <2>2 DEF InTurn
<1> QED
  BY <1>1 DEF Delivers

\* Two steps.
LEMMA DeliversTrans ==
  ASSUME NEW s, NEW t, NEW u, NEW l, Good(s), Good(t), Good(u), Onward(s, t), Onward(t, u),
         RJobs(t), Delivers(s, l, t), Delivers(t, t.jobs, u)
  PROVE  Delivers(s, l, u)
<1>1. PICK n \in Nat : n = Len(l)
  BY DEF Delivers
<1>2. PICK m \in Nat : m = Len(t.jobs)
  BY ThensNat
<1>3. PICK k \in Nat : k = Len(u.jobs)
  BY ThensNat
<1>4. n <= m /\ m <= k
  BY <1>1, <1>2, <1>3 DEF Delivers
<1>5. \A i \in 1 .. m : u.jobs[i] = t.jobs[i]
  BY <1>2 DEF Delivers
<1>6. \A i \in 1 .. n : t.jobs[i] = l[i] /\ i \in 1 .. m
  BY <1>1, <1>4 DEF Delivers
<1>7. \A i \in 1 .. n : u.jobs[i] = l[i]
  BY <1>5, <1>6
<1>8. ASSUME NEW p \in Pr(s) PROVE s.promises[p].thens <= u.promises[p].thens
  <2>1. p \in Pr(t) /\ p \in Pr(u)
    BY DEF Onward
  <2>2. s.promises[p].thens \in Nat /\ t.promises[p].thens \in Nat /\ u.promises[p].thens \in Nat
    BY <2>1, ThensNat
  <2>3. s.promises[p].thens <= t.promises[p].thens /\ t.promises[p].thens <= u.promises[p].thens
    BY <2>1 DEF Delivers
  <2> QED
    BY <2>2, <2>3
<1>9. ASSUME NEW p \in Pr(u) PROVE InTurn(s, n, u, p)
  <2>1. PICK A : A = Fresh(t, n, p)
    OBVIOUS
  <2>2. PICK B : B = Fresh(u, m, p)
    OBVIOUS
  <2>3. A \subseteq n + 1 .. m /\ B \subseteq m + 1 .. k
    BY <1>2, <1>3, <2>1, <2>2 DEF Fresh
  <2>4. \A i \in n + 1 .. m : i \in 1 .. m /\ u.jobs[i] = t.jobs[i]
    BY <1>5
  <2>5. \A i \in A : t.jobs[i] = u.jobs[i]
    BY <2>3, <2>4
  <2>6. Fresh(u, n, p) = A \cup B
    <3>1. \A i \in n + 1 .. k : i \in n + 1 .. m \/ i \in m + 1 .. k
      BY <1>4
    <3>2. (\A i \in n + 1 .. m : i \in n + 1 .. k) /\ \A i \in m + 1 .. k : i \in n + 1 .. k
      BY <1>4
    <3>3. \A i \in n + 1 .. m : i \in A <=> i \in Fresh(u, n, p)
      BY <1>2, <1>3, <2>1, <2>4, <3>2 DEF Fresh
    <3>4. \A i \in m + 1 .. k : i \in B <=> i \in Fresh(u, n, p)
      BY <1>3, <2>2, <3>2 DEF Fresh
    <3>5. Fresh(u, n, p) \subseteq n + 1 .. k
      BY <1>3 DEF Fresh
    <3> QED
      BY <2>3, <3>1, <3>3, <3>4, <3>5
  <2>7. InTurn(t, m, u, p)
    BY <1>2 DEF Delivers
  <2>8. PICK e : e = End(u, p)
    OBVIOUS
  <2>9. PICK c : c = Begin(t, p)
    OBVIOUS
  <2>10. PICK a : a = Begin(s, p)
    OBVIOUS
  <2>11. /\ \A x : x \in c .. e <=> \E i \in B : u.jobs[i].reaction.n = x
         /\ \A i, j \in B : i < j => u.jobs[i].reaction.n < u.jobs[j].reaction.n
    BY <2>2, <2>7, <2>8, <2>9 DEF InTurn
  <2>12. CASE p \notin Pr(t)
    <3>1. A = {}
      <4> SUFFICES ASSUME NEW i \in A PROVE FALSE
        OBVIOUS
      <4>1. t.jobs[i].type = "reaction" /\ t.jobs[i].reaction.on = p
        BY <2>1 DEF Fresh
      <4>2. i \in 1 .. Len(t.jobs)
        BY <1>2, <2>3, <2>4
      <4>3. RightJob(t, t.jobs[i])
        BY <4>2 DEF RJobs
      <4> QED
        BY <2>12, <4>1, <4>3 DEF RightJob
    <3>2. a = c
      BY <2>9, <2>10, <2>12 DEF Begin, Onward
    <3>3. Fresh(u, n, p) = B
      BY <2>6, <3>1
    <3> QED
      BY <2>8, <2>10, <2>11, <3>2, <3>3 DEF InTurn
  <2>13. CASE p \in Pr(t)
    <3>1. InTurn(s, n, t, p)
      BY <1>1, <2>13 DEF Delivers
    <3>2. PICK f : f = End(t, p)
      OBVIOUS
    <3>3. /\ \A x : x \in a .. f <=> \E i \in A : t.jobs[i].reaction.n = x
          /\ \A i, j \in A : i < j => t.jobs[i].reaction.n < t.jobs[j].reaction.n
      BY <2>1, <2>10, <3>1, <3>2 DEF InTurn
    <3>4. /\ \A x : x \in a .. f <=> \E i \in A : u.jobs[i].reaction.n = x
          /\ \A i, j \in A : i < j => u.jobs[i].reaction.n < u.jobs[j].reaction.n
      BY <2>5, <3>3
    <3>5. a \in Nat /\ c \in Nat /\ e \in Nat /\ f \in Nat
      BY <2>8, <2>9, <2>10, <2>13, <3>2, ThensNat DEF Begin, End
    <3>6. \A x : x \in a .. e <=> x \in a .. f \/ x \in c .. e
      <4>1. CASE Out(t, p) = Pending
        <5>1. a = 1 /\ c = 1 /\ f = 0
          BY <2>9, <2>10, <2>13, <3>2, <4>1 DEF Begin, End, Onward
        <5> QED
          BY <5>1
      <4>2. CASE Out(t, p) # Pending
        <5>1. Out(u, p) = Out(t, p)
          BY <2>13, <4>2 DEF Onward
        <5>2. c = f + 1 /\ e = u.promises[p].thens /\ f = t.promises[p].thens
          BY <2>8, <2>9, <2>13, <3>2, <4>2, <5>1 DEF Begin, End
        <5>3. f <= e
          BY <2>13, <5>2 DEF Delivers
        <5>4. a <= f + 1
          <6>1. CASE p \in Pr(s) /\ Out(s, p) # Pending
            <7>1. a = s.promises[p].thens + 1 /\ s.promises[p].thens <= t.promises[p].thens
              BY <2>10, <6>1 DEF Begin, Delivers
            <7>2. s.promises[p].thens \in Nat
              BY <6>1, ThensNat
            <7> QED
              BY <3>5, <5>2, <7>1, <7>2
          <6>2. CASE ~(p \in Pr(s) /\ Out(s, p) # Pending)
            <7>1. a = 1
              BY <2>10, <6>2 DEF Begin
            <7> QED
              BY <3>5, <7>1
          <6> QED
            BY <6>1, <6>2
        <5> QED
          BY <3>5, <5>2, <5>3, <5>4
      <4> QED
        BY <4>1, <4>2
    <3>7. \A x \in a .. f : \A y \in c .. e : x < y
      <4>1. CASE Out(t, p) = Pending
        <5>1. f = 0 /\ a = 1
          BY <2>10, <2>13, <3>2, <4>1 DEF Begin, End, Onward
        <5> QED
          BY <5>1
      <4>2. CASE Out(t, p) # Pending
        <5>1. c = f + 1
          BY <2>9, <2>13, <3>2, <4>2 DEF Begin, End
        <5> QED
          BY <3>5, <5>1
      <4> QED
        BY <4>1, <4>2
    <3>8. \A i, j \in A \cup B : i < j => u.jobs[i].reaction.n < u.jobs[j].reaction.n
      <4> SUFFICES ASSUME NEW i \in A \cup B, NEW j \in A \cup B, i < j
                   PROVE  u.jobs[i].reaction.n < u.jobs[j].reaction.n
        OBVIOUS
      <4>1. CASE i \in A /\ j \in A
        BY <3>4, <4>1
      <4>2. CASE i \in B /\ j \in B
        BY <2>11, <4>2
      <4>3. CASE i \in A /\ j \in B
        BY <2>11, <3>4, <3>7, <4>3
      <4>4. ~(i \in B /\ j \in A)
        <5>1. \A x \in n + 1 .. m : \A y \in m + 1 .. k : ~(y < x)
          OBVIOUS
        <5> QED
          BY <2>3, <5>1
      <4> QED
        BY <4>1, <4>2, <4>3, <4>4
    <3>9. \A x : x \in a .. e <=> \E i \in A \cup B : u.jobs[i].reaction.n = x
      BY <2>11, <3>4, <3>6
    <3> QED
      BY <2>6, <2>8, <2>10, <3>8, <3>9 DEF InTurn
  <2> QED
    BY <2>12, <2>13
<1> QED
  BY <1>1, <1>3, <1>4, <1>7, <1>8, <1>9 DEF Delivers

-----------------------------------------------------------------------------
(* What does not change stays right *)

\* Nothing the invariant says of promise p is different.
SameP(s, t, p) ==
  /\ p \in Pr(s) /\ Out(t, p) = Out(s, p) /\ Mir(t, p) = Mir(s, p)
  /\ t.promises[p].thens = s.promises[p].thens /\ t.promises[p].reactions = s.promises[p].reactions

\* Job j was there, and if its promise repeats no other one it still does not.
SameJ(s, t, j) ==
  \E k \in 1 .. Len(s.jobs) : j = s.jobs[k] /\ (j.type # "reaction" => Mir(t, j.promise) = Mir(s, j.promise))

SameG(s, t, g) ==
  /\ g \in Gr(s) /\ t.groups[g] = s.groups[g]
  /\ Shut(t, s.groups[g].pair) = Shut(s, s.groups[g].pair)
  /\ Out(t, Prom(s, s.groups[g].pair)) = Out(s, Prom(s, s.groups[g].pair))

CPromises(s, t) == \A p \in Pr(t) : SameP(s, t, p) \/ RightPromise(t, p)
CJobs(s, t)     == \A i \in 1 .. Len(t.jobs) : SameJ(s, t, t.jobs[i]) \/ RightJob(t, t.jobs[i])
CAsyncs(s, t)   ==
  \A a \in As(t) : (a \in As(s) /\ t.asyncs[a].pair = s.asyncs[a].pair) \/ Free(t, t.asyncs[a].pair)
CGroups(s, t)   == \A g \in Gr(t) : SameG(s, t, g) \/ RightGroup(t, t.groups[g])
CPairs(s, t)    == \A g, h \in Gr(t) : g \in Gr(s) \/ h \in Gr(s) \/ g = h

\* A promise that no step of the engine touches.
LEMMA PromiseStays ==
  ASSUME NEW s, NEW t, Good(s), Good(t), Onward(s, t), NEW p, RightPromise(s, p), SameP(s, t, p)
  PROVE  RightPromise(t, p)
<1>1. p \in Pr(s) /\ Out(t, p) = Out(s, p) /\ Mir(t, p) = Mir(s, p)
      /\ t.promises[p].thens = s.promises[p].thens /\ t.promises[p].reactions = s.promises[p].reactions
  BY DEF SameP
<1>2. Expects(t, p)
  BY <1>1, RightForStays DEF RightPromise, Expects
<1>3. Mirrored(t, p)
  BY <1>1 DEF RightPromise, Mirrored, Onward
<1>4. Numbered(t, p)
  BY <1>1 DEF RightPromise, Numbered
<1> QED
  BY <1>1, <1>2, <1>3, <1>4 DEF RightPromise

\* What a group may answer it may answer later, when more elements are in
\* their place.
LEMMA AnswersStay ==
  ASSUME NEW s, NEW t, Onward(s, t), NEW x, NEW y, NEW o, Answers(s, x, o),
         y.magic = x.magic, y.items = x.items, Filled(x) => Filled(y),
         \A i \in 1 .. Len(x.items) : x.items[i] \in Pr(s)
  PROVE  Answers(t, y, o)
<1>1. \A i \in 1 .. Len(x.items) : o = Out(s, x.items[i]) => o = Out(t, x.items[i])
  BY DEF Answers, Onward
<1> QED
  BY <1>1 DEF Answers

\* The items of a group are promises, and its pair a pair of one.
LEMMA GroupThere ==
  ASSUME NEW s, Good(s), NEW g \in Gr(s), NEW x, x = s.groups[g]
  PROVE  /\ x \in AnyGroup /\ x.pair \in Pa(s) /\ Prom(s, x.pair) \in Pr(s)
         /\ \A i \in 1 .. Len(x.items) : x.items[i] \in Pr(s)
         /\ x.next \in Nat \ {0} /\ x.remaining \in Int /\ Len(x.items) \in Nat
<1>1. x \in AnyGroup
  BY DEF Good, AnyEngine, Gr
<1>2. x.pair \in Pa(s) /\ \A i \in 1 .. Len(x.items) : x.items[i] \in Pr(s)
  BY DEF Good, OkGroups
<1>3. Prom(s, x.pair) \in Pr(s)
  BY <1>2 DEF Good, OkPairs, Prom
<1>4. x.next \in Nat \ {0} /\ x.remaining \in Int /\ Len(x.items) \in Nat
  BY <1>1 DEF AnyGroup
<1> QED
  BY <1>1, <1>2, <1>3, <1>4

\* A group that no step of the engine touches.
LEMMA GroupStays ==
  ASSUME NEW s, NEW t, Good(s), Good(t), Onward(s, t), NEW g, SameG(s, t, g), RightGroup(s, s.groups[g])
  PROVE  RightGroup(t, t.groups[g])
<1>1. PICK x : x = s.groups[g]
  OBVIOUS
<1>2. /\ g \in Gr(s) /\ t.groups[g] = x /\ InPlace(s, x) /\ Counting(x) /\ Replying(s, x)
      /\ Shut(t, x.pair) = Shut(s, x.pair) /\ Out(t, Prom(s, x.pair)) = Out(s, Prom(s, x.pair))
  BY <1>1 DEF SameG, RightGroup
<1>3. /\ x.pair \in Pa(s) /\ Prom(s, x.pair) \in Pr(s)
      /\ \A i \in 1 .. Len(x.items) : x.items[i] \in Pr(s)
  BY <1>1, <1>2, GroupThere
<1>4. Prom(t, x.pair) = Prom(s, x.pair)
      /\ (~Shut(t, x.pair) => Mir(t, Prom(s, x.pair)) = Mir(s, Prom(s, x.pair)))
  BY <1>3 DEF Onward
<1>5. InPlace(t, x)
  <2>1. \A i \in Done(x) : i \in 1 .. Len(x.items) /\ x.values[i] # Pending
    BY DEF Done
  <2>2. \A i \in Done(x) : x.values[i] = Out(t, x.items[i])
    BY <1>2, <1>3, <2>1 DEF InPlace, Onward
  <2> QED
    BY <1>2, <2>2 DEF InPlace
<1>6. \A o : Answers(s, x, o) => Answers(t, x, o)
  BY <1>3, AnswersStay
<1>7. Replying(t, x)
  BY <1>2, <1>4, <1>6 DEF Replying
<1> QED
  BY <1>2, <1>5, <1>7 DEF RightGroup

\* It is enough to look at what changed.
LEMMA CarryRight ==
  ASSUME NEW s, NEW t, Good(s), Right(s), Good(t), Onward(s, t),
         CPromises(s, t), CJobs(s, t), CAsyncs(s, t), CGroups(s, t), CPairs(s, t)
  PROVE  Right(t)
<1>1. RPromises(t)
  <2> SUFFICES ASSUME NEW p \in Pr(t), SameP(s, t, p) PROVE RightPromise(t, p)
    BY DEF RPromises, CPromises
  <2>1. RightPromise(s, p)
    BY DEF Right, RPromises, SameP
  <2> QED
    BY <2>1, PromiseStays
<1>2. RJobs(t)
  <2> SUFFICES ASSUME NEW i \in 1 .. Len(t.jobs), NEW j, j = t.jobs[i], SameJ(s, t, j) PROVE RightJob(t, j)
    BY DEF RJobs, CJobs
  <2>1. RightJob(s, j) /\ (j.type # "reaction" => Mir(t, j.promise) = Mir(s, j.promise))
    BY DEF Right, RJobs, SameJ
  <2> QED
    BY <2>1, RightJobStays
<1>3. RAsyncs(t)
  <2> SUFFICES ASSUME NEW a \in As(t), a \in As(s), t.asyncs[a].pair = s.asyncs[a].pair
               PROVE  Free(t, t.asyncs[a].pair)
    BY DEF RAsyncs, CAsyncs
  <2> QED
    BY FreeStays DEF Right, RAsyncs
<1>4. RGroups(t)
  <2> SUFFICES ASSUME NEW g \in Gr(t), SameG(s, t, g) PROVE RightGroup(t, t.groups[g])
    BY DEF RGroups, CGroups
  <2>1. RightGroup(s, s.groups[g])
    BY DEF Right, RGroups, SameG
  <2> QED
    BY <2>1, GroupStays
<1>5. RPairs(t)
  <2> SUFFICES ASSUME NEW g \in Gr(t), NEW h \in Gr(t), t.groups[g].pair = t.groups[h].pair PROVE g = h
    BY DEF RPairs
  <2>1. CASE g \in Gr(s) /\ h \in Gr(s)
    BY <2>1 DEF Onward, Right, RPairs
  <2>2. CASE g \in Gr(s) /\ h \notin Gr(s)
    BY <2>2, GroupThere DEF Onward
  <2>3. CASE g \notin Gr(s) /\ h \in Gr(s)
    BY <2>3, GroupThere DEF Onward
  <2>4. CASE g \notin Gr(s) /\ h \notin Gr(s)
    BY <2>4 DEF CPairs
  <2> QED
    BY <2>1, <2>2, <2>3, <2>4
<1> QED
  BY <1>1, <1>2, <1>3, <1>4, <1>5 DEF Right

\* A state that is sound and right, and the step to one.
Sound(s) == Good(s) /\ Right(s)
Advances(s, l, t) == Sound(t) /\ Onward(s, t) /\ Delivers(s, l, t)

\* Two steps are one.
LEMMA AdvancesTrans ==
  ASSUME NEW s, NEW t, NEW u, NEW l, Good(s), Advances(s, l, t), Advances(t, t.jobs, u)
  PROVE  Advances(s, l, u)
BY OnwardTrans, DeliversTrans DEF Advances, Sound, Right

\* So is doing nothing.
LEMMA AdvancesSame ==
  ASSUME NEW s, Sound(s)
  PROVE  Advances(s, s.jobs, s)
<1>1. Good(s) /\ Onward(s, s) /\ Len(s.jobs) \in Nat /\ \A p \in Pr(s) : s.promises[p].thens \in Nat
  BY OnwardSame, ThensNat DEF Sound
<1>2. /\ Len(s.jobs) <= Len(s.jobs)
      /\ \A p \in Pr(s) : s.promises[p].thens <= s.promises[p].thens
      /\ \A i \in Len(s.jobs) + 1 .. Len(s.jobs) : s.jobs[i].type # "reaction"
  BY <1>1
<1>3. Delivers(s, s.jobs, s)
  BY <1>1, <1>2, DeliversNothing
<1> QED
  BY <1>1, <1>3 DEF Advances

-----------------------------------------------------------------------------
(* Settling a promise *)

\* Pair r has settled its promise p with o.
AfterSettle(s, r, p, o, t) ==
  /\ Pr(t) = Pr(s) /\ Pa(t) = Pa(s) /\ t.asyncs = s.asyncs /\ t.groups = s.groups
  /\ Shut(t, r) /\ \A q \in Pa(s) : Prom(t, q) = Prom(s, q) /\ (q # r => Shut(t, q) = Shut(s, q))
  /\ p \in Pr(s) /\ Out(s, p) = Pending /\ Open(s, p) = {r}
  /\ Out(t, p) = o /\ Mir(t, p) = Mir(s, p) /\ t.promises[p].thens = s.promises[p].thens
  /\ \A b \in BOOLEAN : t.promises[p].reactions[b] = <<>>
  /\ \A q \in Pr(s) : q # p => t.promises[q] = s.promises[q]

\* The jobs it made.
Runs(s, p, o, t) ==
  LET run == s.promises[p].reactions[o.reject]
  IN  /\ Len(s.jobs) \in Nat /\ Len(run) \in Nat /\ Len(t.jobs) = Len(s.jobs) + Len(run)
      /\ \A i \in 1 .. Len(s.jobs) : t.jobs[i] = s.jobs[i]
      /\ \A i \in 1 .. Len(run) :
           t.jobs[Len(s.jobs) + i] = [type |-> "reaction", reaction |-> run[i], outcome |-> o]

\* ReactionJob: the parts of a job.
LEMMA JobParts ==
  ASSUME NEW x, NEW o, NEW j, j = [type |-> "reaction", reaction |-> x, outcome |-> o]
  PROVE  j.type = "reaction" /\ j.reaction = x /\ j.outcome = o
OBVIOUS

\* fulfill_or_reject_promise: what changes.
LEMMA SettleIs ==
  ASSUME NEW s, Good(s), NEW r \in Pa(s), ~Shut(s, r), NEW p, p = Prom(s, r),
         NEW o, OkOutcome(s, o), NEW t, t = fulfill_or_reject_promise(Used(s, r), p, o)
  PROVE  AfterSettle(s, r, p, o, t) /\ Runs(s, p, o, t)
<1>0. ~s.pairs[r].resolved /\ p = s.pairs[r].promise
  BY DEF Shut, Prom
<1>1. PICK u : u = Used(s, r) /\ AfterUse(s, p, u)
  BY <1>0, UsedIs DEF Uses
<1>2. /\ u \in AnyEngine
      /\ u.promises = s.promises /\ u.jobs = s.jobs /\ u.asyncs = s.asyncs /\ u.groups = s.groups
      /\ Len(u.pairs) = Len(s.pairs) /\ p \in Pr(s) /\ s.promises[p].outcome = Pending
  BY <1>1 DEF AfterUse
<1>3. PICK run : run = s.promises[p].reactions[o.reject]
  OBVIOUS
<1>4. PICK jobs : jobs = [k \in DOMAIN run |-> ReactionJob(run[k], o)]
  OBVIOUS
<1>6. /\ s \in AnyEngine /\ s.promises \in Seq(AnyPromise) /\ s.promises[p] \in AnyPromise
      /\ s.jobs \in Seq(Jobs) /\ o \in AnyOutcome /\ p \in 1 .. Len(s.promises)
  BY <1>2 DEF Good, AnyEngine, Pr, OkOutcome
<1>5. jobs \in Seq(Jobs)
  <2>1. run = ToRun(s, p, o) /\ p \in Pr(s)
    BY <1>2, <1>3 DEF ToRun
  <2> QED
    BY <1>4, <2>1, RunJobsOk
<1>5a. run \in Seq(AnyReaction)
  BY <1>3, <1>6 DEF AnyPromise, AnyOutcome
<1>5b. PICK n \in Nat : n = Len(run) /\ DOMAIN run = 1 .. n
  BY <1>5a
<1>5c. Len(jobs) = n /\ \A i \in 1 .. n : jobs[i] = [type |-> "reaction", reaction |-> run[i], outcome |-> o]
  BY <1>4, <1>5, <1>5b DEF ReactionJob
<1>7. PICK x : x = [s.promises[p] EXCEPT !.outcome = o, !.reactions = [b \in BOOLEAN |-> <<>>]]
  OBVIOUS
<1>8. /\ x \in AnyPromise /\ x.outcome = o /\ \A b \in BOOLEAN : x.reactions[b] = <<>>
      /\ x.mirrors = s.promises[p].mirrors /\ x.thens = s.promises[p].thens
  <2>1. PICK e : e = [b \in BOOLEAN |-> <<>>]
    OBVIOUS
  <2>2. e \in [BOOLEAN -> Seq(AnyReaction)] /\ \A b \in BOOLEAN : e[b] = <<>>
    BY <2>1
  <2>3. x = [s.promises[p] EXCEPT !.outcome = o, !.reactions = e]
    BY <1>7, <2>1
  <2>4. /\ x \in AnyPromise /\ x.outcome = o /\ x.reactions = e
        /\ x.mirrors = s.promises[p].mirrors /\ x.thens = s.promises[p].thens
    BY <1>6, <2>2, <2>3 DEF AnyPromise
  <2> QED
    BY <2>2, <2>4
<1>10. PICK P : P = [s.promises EXCEPT ![p] = x]
  OBVIOUS
<1>11. /\ P \in Seq(AnyPromise) /\ Len(P) = Len(s.promises) /\ P[p] = x
       /\ \A q \in 1 .. Len(s.promises) : q # p => P[q] = s.promises[q]
  BY <1>6, <1>8, <1>10, SeqExcept
<1>12. PICK list : list = s.jobs \o jobs
  OBVIOUS
<1>14. /\ list \in Seq(Jobs) /\ Len(list) = Len(s.jobs) + Len(jobs)
       /\ \A j \in 1 .. Len(s.jobs) : list[j] = s.jobs[j]
       /\ \A j \in 1 .. Len(jobs) : list[Len(s.jobs) + j] = jobs[j]
  BY <1>5, <1>6, <1>12, SeqConcat
<1>15. t = [u EXCEPT !.promises = P, !.jobs = list]
  BY <1>1, <1>2, <1>3, <1>4, <1>7, <1>10, <1>12 DEF fulfill_or_reject_promise
<1>16. /\ t \in AnyEngine /\ t.jobs = list /\ t.promises = P /\ t.pairs = u.pairs
       /\ t.asyncs = s.asyncs /\ t.groups = s.groups
  BY <1>2, <1>11, <1>14, <1>15 DEF AnyEngine
<1>17. Len(s.jobs) \in Nat
  BY <1>6
<1>18. Runs(s, p, o, t)
  <2>1. Len(run) \in Nat /\ Len(t.jobs) = Len(s.jobs) + Len(run)
    BY <1>5b, <1>5c, <1>14, <1>16
  <2>2. \A i \in 1 .. Len(s.jobs) : t.jobs[i] = s.jobs[i]
    BY <1>14, <1>16
  <2>3. \A i \in 1 .. Len(run) :
          t.jobs[Len(s.jobs) + i] = [type |-> "reaction", reaction |-> run[i], outcome |-> o]
    <3> TAKE i \in 1 .. Len(run)
    <3>1. i \in 1 .. n /\ i \in 1 .. Len(jobs)
      BY <1>5b, <1>5c
    <3>2. t.jobs[Len(s.jobs) + i] = jobs[i]
      BY <1>14, <1>16, <3>1
    <3> QED
      BY <1>5c, <3>1, <3>2
  <2> QED
    BY <1>3, <1>17, <2>1, <2>2, <2>3 DEF Runs
<1>19. /\ u.pairs[r].resolved /\ u.pairs[r].promise = s.pairs[r].promise
       /\ \A q \in Pa(s) : q # r => u.pairs[q] = s.pairs[q]
  <2>1. s.pairs \in Seq(AnyPair) /\ s.pairs[r] \in AnyPair
    BY DEF Good, AnyEngine, Pa
  <2>2. PICK y : y = [s.pairs[r] EXCEPT !.resolved = TRUE]
    OBVIOUS
  <2>3. y \in AnyPair /\ y.promise = s.pairs[r].promise /\ y.resolved
    BY <2>1, <2>2 DEF AnyPair
  <2>4. u.pairs = [s.pairs EXCEPT ![r] = y]
    BY <1>1, <1>6, <2>2 DEF Used, AnyEngine
  <2> QED
    BY <2>1, <2>3, <2>4, SeqExcept DEF Pa
<1>20. Shut(t, r) /\ \A q \in Pa(s) : Prom(t, q) = Prom(s, q) /\ (q # r => Shut(t, q) = Shut(s, q))
  BY <1>16, <1>19 DEF Shut, Prom
<1>21. Open(s, p) = {r}
  <2>1. r \in Open(s, p)
    BY <1>0 DEF Open
  <2>2. Single(Open(s, p), In(s.jobs, <<"thenable", p>>))
    BY <1>2 DEF Good, Sole
  <2> QED
    BY <2>1, <2>2 DEF Single
<1>22. Pr(t) = Pr(s) /\ Pa(t) = Pa(s)
  BY <1>2, <1>11, <1>16 DEF Pr, Pa
<1>23. /\ Out(s, p) = Pending /\ Out(t, p) = o /\ Mir(t, p) = Mir(s, p)
       /\ t.promises[p].thens = s.promises[p].thens
       /\ \A b \in BOOLEAN : t.promises[p].reactions[b] = <<>>
  BY <1>2, <1>8, <1>11, <1>16 DEF Out, Mir
<1>24. \A q \in Pr(s) : q # p => t.promises[q] = s.promises[q]
  BY <1>11, <1>16 DEF Pr
<1> QED
  BY <1>2, <1>16, <1>18, <1>20, <1>21, <1>22, <1>23, <1>24 DEF AfterSettle

\* Settling the promise of pair r with o is right.
Suits(s, r, o) ==
  /\ Mir(s, Prom(s, r)) # None => o = Out(s, Mir(s, Prom(s, r)))
  /\ \A g \in Gr(s) : s.groups[g].pair = r => Answers(s, s.groups[g], o)

\* A promise is settled with values that are there.
LEMMA PlainOk ==
  ASSUME NEW s, NEW o \in PlainO
  PROVE  OkOutcome(s, o) /\ o # Pending /\ o.reject \in BOOLEAN /\ o.value \in Plain
BY PromiseAssumption, PlainNotPending DEF PlainO, OkOutcome, AnyOutcome, AnyValue

\* fulfill_or_reject_promise only goes onward.
LEMMA SettleOnward ==
  ASSUME NEW s, Good(s), NEW r \in Pa(s), NEW p, NEW o, NEW t, Good(t), AfterSettle(s, r, p, o, t)
  PROVE  Onward(s, t)
<1>1. /\ Pr(t) = Pr(s) /\ Pa(t) = Pa(s) /\ t.groups = s.groups /\ Gr(t) = Gr(s)
  BY DEF AfterSettle, Gr
<1>2. \A q \in Pr(s) : Mir(t, q) = Mir(s, q)
  BY DEF AfterSettle, Mir
<1>3. \A q \in Pa(s) : Prom(s, q) \in Pr(s)
  BY DEF Good, OkPairs, Prom
<1>4. \A q \in Pr(s) : Out(s, q) # Pending => Out(t, q) = Out(s, q)
  BY DEF AfterSettle, Out
<1>5. \A g \in Gr(s) : s.groups[g].next <= s.groups[g].next
  BY OnwardSame DEF Onward
<1>6. \A q \in Pa(s) : Prom(t, q) = Prom(s, q) /\ (Shut(s, q) => Shut(t, q))
  BY DEF AfterSettle
<1> QED
  BY <1>1, <1>2, <1>3, <1>4, <1>5, <1>6 DEF Onward

\* fulfill_or_reject_promise makes due what the promise was given, in order.
LEMMA SettleDelivers ==
  ASSUME NEW s, Sound(s), NEW r \in Pa(s), NEW p, NEW o \in PlainO, NEW t, Good(t),
         AfterSettle(s, r, p, o, t), Runs(s, p, o, t)
  PROVE  Delivers(s, s.jobs, t)
<1>1. PICK run : run = s.promises[p].reactions[o.reject]
  OBVIOUS
<1>2. PICK n \in Nat : n = Len(s.jobs)
  BY DEF Runs
<1>3. PICK N \in Nat : N = Len(run)
  BY <1>1 DEF Runs
<1>4. /\ Len(t.jobs) = n + N /\ \A i \in 1 .. n : t.jobs[i] = s.jobs[i]
      /\ \A i \in 1 .. N : t.jobs[n + i] = [type |-> "reaction", reaction |-> run[i], outcome |-> o]
  BY <1>1, <1>2, <1>3 DEF Runs
<1>5. o \in PlainO /\ o # Pending /\ o.reject \in BOOLEAN
  BY PlainOk
<1>6. RightPromise(s, p) /\ p \in Pr(s) /\ Out(s, p) = Pending
  BY DEF Sound, Right, RPromises, AfterSettle
<1>7. N = s.promises[p].thens /\ \A i \in 1 .. N : run[i].n = i
  BY <1>1, <1>3, <1>5, <1>6 DEF RightPromise, Numbered
<1>8. \A i \in 1 .. N : run[i].on = p
  BY <1>1, <1>3, <1>5, <1>6 DEF RightPromise, Expects, RightFor
<1>9. \A i \in 1 .. N : /\ t.jobs[n + i].type = "reaction" /\ t.jobs[n + i].reaction.on = p
                        /\ t.jobs[n + i].reaction.n = i
  <2> SUFFICES ASSUME NEW i \in 1 .. N, NEW j, j = t.jobs[n + i]
               PROVE  j.type = "reaction" /\ j.reaction.on = p /\ j.reaction.n = i
    OBVIOUS
  <2>0. PICK x : x = run[i]
    OBVIOUS
  <2>0a. j = [type |-> "reaction", reaction |-> x, outcome |-> o]
    BY <1>4, <2>0
  <2>1. j.type = "reaction" /\ j.reaction = run[i]
    BY <2>0, <2>0a, JobParts
  <2> QED
    BY <1>7, <1>8, <2>1
<1>10. \A i \in n + 1 .. n + N : i - n \in 1 .. N /\ n + (i - n) = i
  OBVIOUS
<1>11. \A i \in n + 1 .. n + N : /\ t.jobs[i].type = "reaction" /\ t.jobs[i].reaction.on = p
                                 /\ t.jobs[i].reaction.n = i - n
  BY <1>9, <1>10
<1>12. ASSUME NEW q \in Pr(t) PROVE InTurn(s, n, t, q)
  <2>1. PICK a : a = Begin(s, q)
    OBVIOUS
  <2>2. PICK e : e = End(t, q)
    OBVIOUS
  <2>3. CASE q = p
    <3>1. Fresh(t, n, q) = n + 1 .. n + N
      BY <1>4, <1>11, <2>3 DEF Fresh
    <3>2. a = 1 /\ e = N
      BY <1>5, <1>6, <1>7, <2>1, <2>2, <2>3 DEF Begin, End, AfterSettle
    <3>3. \A k : k \in 1 .. N <=> \E i \in n + 1 .. n + N : i - n = k
      <4>1. \A k \in 1 .. N : n + k \in n + 1 .. n + N /\ (n + k) - n = k
        OBVIOUS
      <4> QED
        BY <1>10, <4>1
    <3>4. \A k : k \in 1 .. N <=> \E i \in n + 1 .. n + N : t.jobs[i].reaction.n = k
      BY <1>11, <3>3
    <3>5. \A i, j \in n + 1 .. n + N : i < j => t.jobs[i].reaction.n < t.jobs[j].reaction.n
      <4>1. \A i, j \in n + 1 .. n + N : i < j => i - n < j - n
        OBVIOUS
      <4> QED
        BY <1>11, <4>1
    <3> QED
      BY <2>1, <2>2, <3>1, <3>2, <3>4, <3>5 DEF InTurn
  <2>4. CASE q # p
    <3>1. Fresh(t, n, q) = {}
      BY <1>4, <1>11, <2>4 DEF Fresh
    <3>2. q \in Pr(s) /\ t.promises[q] = s.promises[q] /\ s.promises[q].thens \in Nat
      BY <2>4, ThensNat DEF AfterSettle, Sound
    <3>3. a \in Nat /\ e \in Nat /\ e < a
      BY <2>1, <2>2, <3>2 DEF Begin, End, Out
    <3>4. a .. e = {}
      BY <3>3
    <3> QED
      BY <2>1, <2>2, <3>1, <3>4 DEF InTurn
  <2> QED
    BY <2>3, <2>4
<1>13. ASSUME NEW q \in Pr(s) PROVE s.promises[q].thens <= t.promises[q].thens
  <2>1. t.promises[q].thens = s.promises[q].thens /\ s.promises[q].thens \in Nat
    BY ThensNat DEF AfterSettle, Sound
  <2> QED
    BY <2>1
<1>14. n <= Len(t.jobs)
  BY <1>4
<1> QED
  BY <1>2, <1>4, <1>12, <1>13, <1>14 DEF Delivers

\* fulfill_or_reject_promise, called by a pair that may, with what fits.
LEMMA SettleRight ==
  ASSUME NEW s, Sound(s), NEW r \in Pa(s), ~Shut(s, r), NEW p, p = Prom(s, r),
         NEW o \in PlainO, Suits(s, r, o), NEW t, t = fulfill_or_reject_promise(Used(s, r), p, o)
  PROVE  Advances(s, s.jobs, t) /\ Out(t, p) = o
<1>0. Good(s) /\ Right(s) /\ OkOutcome(s, o) /\ o # Pending /\ o.reject \in BOOLEAN
  BY PlainOk DEF Sound
<1>1. Good(t)
  BY <1>0, SettleOk DEF Shut, Prom
<1>2. AfterSettle(s, r, p, o, t) /\ Runs(s, p, o, t)
  BY <1>0, SettleIs
<1>3. Onward(s, t)
  BY <1>0, <1>1, <1>2, SettleOnward
<1>4. Delivers(s, s.jobs, t)
  BY <1>1, <1>2, SettleDelivers
<1>5. /\ p \in Pr(s) /\ Out(s, p) = Pending /\ Open(s, p) = {r} /\ Out(t, p) = o /\ Mir(t, p) = Mir(s, p)
      /\ Pr(t) = Pr(s) /\ t.groups = s.groups /\ t.asyncs = s.asyncs /\ Gr(t) = Gr(s) /\ As(t) = As(s)
      /\ \A q \in Pr(s) : q # p => t.promises[q] = s.promises[q]
  BY <1>2 DEF AfterSettle, Gr, As
<1>6. RightPromise(s, p)
  BY <1>0, <1>5 DEF Right, RPromises
<1>7. CPromises(s, t)
  <2> SUFFICES ASSUME NEW q \in Pr(s) PROVE SameP(s, t, q) \/ RightPromise(t, q)
    BY <1>5 DEF CPromises
  <2>1. CASE q # p
    BY <1>5, <2>1 DEF SameP, Out, Mir
  <2>2. CASE q = p
    <3>1. Expects(t, p)
      <4>1. \A b \in BOOLEAN : t.promises[p].reactions[b] = <<>>
        BY <1>2 DEF AfterSettle
      <4>2. \A b \in BOOLEAN : 1 .. Len(t.promises[p].reactions[b]) = {}
        BY <4>1
      <4> QED
        BY <4>2 DEF Expects
    <3>2. Numbered(t, p)
      BY <1>0, <1>5 DEF Numbered
    <3>3. Mirrored(t, p)
      <4> SUFFICES ASSUME Mir(t, p) # None PROVE Mir(t, p) \in Pr(t) /\ Out(t, p) = Out(t, Mir(t, p))
        BY DEF Mirrored
      <4>1. PICK q1 : q1 = Mir(s, p)
        OBVIOUS
      <4>2. q1 \in Pr(s) /\ o = Out(s, q1)
        BY <1>5, <1>6, <4>1 DEF Suits, RightPromise, Mirrored
      <4>3. Out(t, q1) = o
        BY <1>0, <1>3, <4>2 DEF Onward
      <4> QED
        BY <1>5, <4>1, <4>2, <4>3
    <3> QED
      BY <1>5, <2>2, <3>1, <3>2, <3>3 DEF RightPromise
  <2> QED
    BY <2>1, <2>2
<1>8. CJobs(s, t)
  <2>1. PICK run : run = s.promises[p].reactions[o.reject]
    OBVIOUS
  <2>2. PICK n \in Nat : n = Len(s.jobs)
    BY <1>2 DEF Runs
  <2>3. PICK N \in Nat : N = Len(run)
    BY <1>2, <2>1 DEF Runs
  <2>4. /\ Len(t.jobs) = n + N /\ \A i \in 1 .. n : t.jobs[i] = s.jobs[i]
        /\ \A i \in 1 .. N : t.jobs[n + i] = [type |-> "reaction", reaction |-> run[i], outcome |-> o]
    BY <1>2, <2>1, <2>2, <2>3 DEF Runs
  <2>5. \A i \in 1 .. n + N : i \in 1 .. n \/ (i - n \in 1 .. N /\ n + (i - n) = i)
    OBVIOUS
  <2>6. \A q \in Pr(s) : Mir(t, q) = Mir(s, q)
    BY <1>5 DEF Mir
  <2>7. ASSUME NEW i \in 1 .. n PROVE SameJ(s, t, t.jobs[i])
    <3>1. OkJob(s, s.jobs[i])
      BY <1>0, <2>2 DEF Good, OkJobs
    <3>2. s.jobs[i].type # "reaction" => s.jobs[i].promise \in Pr(s)
      BY <3>1 DEF OkJob, ReactionJobs
    <3> QED
      BY <2>2, <2>4, <2>6, <3>2 DEF SameJ
  <2>8. ASSUME NEW i \in 1 .. N PROVE RightJob(t, t.jobs[n + i])
    <3>1. RightFor(s, p, o.reject, run[i])
      BY <1>0, <1>6, <2>1, <2>3 DEF RightPromise, Expects
    <3>2. RightFor(t, p, o.reject, run[i])
      BY <1>0, <1>1, <1>3, <3>1, RightForStays
    <3>3. run[i].on = p
      BY <3>2 DEF RightFor
    <3>4. PICK j : j = t.jobs[n + i]
      OBVIOUS
    <3>4a. PICK x : x = run[i]
      OBVIOUS
    <3>4b. j = [type |-> "reaction", reaction |-> x, outcome |-> o]
      BY <2>4, <3>4, <3>4a
    <3>5. j.type = "reaction" /\ j.reaction = run[i] /\ j.outcome = o
      BY <3>4a, <3>4b, JobParts
    <3> QED
      BY <1>5, <3>2, <3>3, <3>4, <3>5 DEF RightJob
  <2> QED
    BY <2>4, <2>5, <2>7, <2>8 DEF CJobs
<1>9. CAsyncs(s, t)
  BY <1>5 DEF CAsyncs
<1>10. CGroups(s, t)
  <2> SUFFICES ASSUME NEW g \in Gr(s) PROVE SameG(s, t, g) \/ RightGroup(t, t.groups[g])
    BY <1>5 DEF CGroups
  <2>1. PICK x : x = s.groups[g]
    OBVIOUS
  <2>2. x.pair \in Pa(s) /\ Prom(s, x.pair) \in Pr(s) /\ \A i \in 1 .. Len(x.items) : x.items[i] \in Pr(s)
    BY <1>0, <2>1, GroupThere
  <2>3. RightGroup(s, x)
    BY <1>0, <2>1 DEF Right, RGroups
  <2>4. CASE x.pair = r
    <3>1. Answers(s, x, o)
      BY <2>1, <2>4 DEF Suits
    <3>2. Answers(t, x, o)
      BY <1>3, <2>2, <3>1, AnswersStay
    <3>3. Prom(t, r) = p /\ Shut(t, r)
      BY <1>2 DEF AfterSettle
    <3>4. Replying(t, x)
      BY <1>0, <1>5, <2>4, <3>2, <3>3 DEF Replying
    <3>5. InPlace(t, x)
      <4>1. \A i \in Done(x) : i \in 1 .. Len(x.items) /\ x.values[i] # Pending
        BY DEF Done
      <4>2. \A i \in Done(x) : x.values[i] = Out(t, x.items[i])
        BY <1>3, <2>2, <2>3, <4>1 DEF RightGroup, InPlace, Onward
      <4> QED
        BY <2>3, <4>2 DEF RightGroup, InPlace
    <3> QED
      BY <1>5, <2>1, <2>3, <3>4, <3>5 DEF RightGroup
  <2>5. CASE x.pair # r
    <3>1. Shut(t, x.pair) = Shut(s, x.pair)
      BY <1>2, <2>2, <2>5 DEF AfterSettle
    <3>2. Prom(s, x.pair) # p
      <4> SUFFICES ASSUME Prom(s, x.pair) = p PROVE FALSE
        OBVIOUS
      <4>1. x.pair \notin Open(s, p)
        BY <1>5, <2>5
      <4>2. Shut(s, x.pair)
        BY <2>2, <4>1 DEF Open, Shut, Prom
      <4> QED
        BY <1>5, <2>3, <4>2 DEF RightGroup, Replying
    <3>3. Out(t, Prom(s, x.pair)) = Out(s, Prom(s, x.pair))
      BY <1>5, <2>2, <3>2 DEF Out
    <3> QED
      BY <1>5, <2>1, <3>1, <3>3 DEF SameG
  <2> QED
    BY <2>4, <2>5
<1>11. CPairs(s, t)
  BY <1>5 DEF CPairs
<1>12. Right(t)
  BY <1>0, <1>1, <1>3, <1>7, <1>8, <1>9, <1>10, <1>11, CarryRight
<1> QED
  BY <1>1, <1>3, <1>4, <1>5, <1>12 DEF Advances, Sound

\* resolve with a promise or a thenable, by a pair that may be called with
\* anything: p repeats no other promise yet.
LEMMA FollowRight ==
  ASSUME NEW s, Sound(s), NEW r, Free(s, r), ~Shut(s, r), NEW p, p = Prom(s, r),
         NEW v, v = Thenable \/ v \in Pr(s),
         NEW t, t = JS_EnqueueJob(Used(s, r), [type |-> "thenable", promise |-> p, thenable |-> v])
  PROVE  Advances(s, s.jobs, t)
<1>0. Good(s) /\ Right(s) /\ r \in Pa(s) /\ Mir(s, p) = None /\ ~OfGroup(s, r)
  BY DEF Sound, Free
<1>1. Good(t)
  BY <1>0, FollowOk DEF Shut, Prom
<1>2. PICK job : job = [type |-> "thenable", promise |-> p, thenable |-> v]
  OBVIOUS
<1>3. job.type = "thenable" /\ job.promise = p
  BY <1>2
<1>4. /\ s \in AnyEngine /\ s.jobs \in Seq(Jobs) /\ s.pairs \in Seq(AnyPair) /\ s.pairs[r] \in AnyPair
      /\ r \in 1 .. Len(s.pairs)
  BY <1>0 DEF Good, AnyEngine, Pa
<1>5. PICK y : y = [s.pairs[r] EXCEPT !.resolved = TRUE]
  OBVIOUS
<1>6. y \in AnyPair /\ y.promise = s.pairs[r].promise /\ y.resolved
  BY <1>4, <1>5 DEF AnyPair
<1>7. PICK Q : Q = [s.pairs EXCEPT ![r] = y]
  OBVIOUS
<1>8. /\ Len(Q) = Len(s.pairs) /\ Q[r] = y /\ \A q \in 1 .. Len(s.pairs) : q # r => Q[q] = s.pairs[q]
  BY <1>4, <1>6, <1>7, SeqExcept
<1>9. PICK jobs : jobs = Append(s.jobs, job)
  OBVIOUS
<1>10. PICK n \in Nat : n = Len(s.jobs)
  BY <1>4
<1>11. Len(jobs) = n + 1 /\ jobs[n + 1] = job /\ \A i \in 1 .. n : jobs[i] = s.jobs[i]
  BY <1>4, <1>9, <1>10
<1>12. t = [s EXCEPT !.pairs = Q, !.jobs = jobs]
  BY <1>2, <1>5, <1>7, <1>9 DEF JS_EnqueueJob, Used
<1>13. /\ t.pairs = Q /\ t.jobs = jobs /\ t.promises = s.promises
       /\ t.asyncs = s.asyncs /\ t.groups = s.groups
  BY <1>4, <1>12 DEF AnyEngine
<1>14. /\ Pr(t) = Pr(s) /\ Pa(t) = Pa(s) /\ Gr(t) = Gr(s) /\ As(t) = As(s)
       /\ \A q : Out(t, q) = Out(s, q) /\ Mir(t, q) = Mir(s, q)
  BY <1>8, <1>13 DEF Pr, Pa, Gr, As, Out, Mir
<1>15. /\ \A q \in Pa(s) : Prom(t, q) = Prom(s, q) /\ (q # r => Shut(t, q) = Shut(s, q))
       /\ Shut(t, r)
  BY <1>6, <1>8, <1>13 DEF Pa, Prom, Shut
<1>16. Onward(s, t)
  <2>1. Onward(s, s)
    BY <1>0, OnwardSame
  <2>2. \A q \in Pa(s) : Shut(s, q) => Shut(t, q)
    BY <1>15
  <2> QED
    BY <1>13, <1>14, <1>15, <2>1, <2>2 DEF Onward
<1>17. Delivers(s, s.jobs, t)
  <2>1. \A i \in n + 1 .. n + 1 : i = n + 1
    OBVIOUS
  <2>2. \A i \in Len(s.jobs) + 1 .. Len(t.jobs) : t.jobs[i].type # "reaction"
    BY <1>3, <1>10, <1>11, <1>13, <2>1
  <2>3. Len(s.jobs) \in Nat /\ Len(s.jobs) <= Len(t.jobs)
    BY <1>10, <1>11, <1>13
  <2>4. \A q \in Pr(s) : s.promises[q].thens <= t.promises[q].thens
    BY <1>0, <1>13, ThensNat
  <2> QED
    BY <1>0, <1>1, <1>10, <1>11, <1>13, <1>14, <2>2, <2>3, <2>4, DeliversNothing
<1>18. CPromises(s, t)
  BY <1>13, <1>14 DEF CPromises, SameP
<1>19. CJobs(s, t)
  <2>1. RightJob(t, job)
    BY <1>0, <1>3, <1>14 DEF RightJob
  <2>2. \A i \in 1 .. n : SameJ(s, t, t.jobs[i])
    BY <1>10, <1>11, <1>13, <1>14 DEF SameJ
  <2>3. \A i \in 1 .. n + 1 : i \in 1 .. n \/ i = n + 1
    OBVIOUS
  <2> QED
    BY <1>11, <1>13, <2>1, <2>2, <2>3 DEF CJobs
<1>20. CAsyncs(s, t)
  BY <1>13, <1>14 DEF CAsyncs
<1>21. CGroups(s, t)
  <2> SUFFICES ASSUME NEW g \in Gr(s) PROVE SameG(s, t, g)
    BY <1>14 DEF CGroups
  <2>1. s.groups[g].pair \in Pa(s) /\ s.groups[g].pair # r
    BY <1>0 DEF OfGroup, Good, OkGroups
  <2> QED
    BY <1>13, <1>14, <1>15, <2>1 DEF SameG
<1>22. CPairs(s, t)
  BY <1>14 DEF CPairs
<1>23. Right(t)
  BY <1>0, <1>1, <1>16, <1>18, <1>19, <1>20, <1>21, <1>22, CarryRight
<1> QED
  BY <1>1, <1>16, <1>17, <1>23 DEF Advances, Sound

\* Pair r may be called with c.
Fair(s, r, c) ==
  /\ r \in Pa(s)
  /\ \/ Shut(s, r)
     \/ Free(s, r) /\ Clean(c) /\ (c.value \in Nat => c.value \in Pr(s))
     \/ c \in PlainO /\ Suits(s, r, c)

\* js_promise_resolve_function_call, with what fits: a promise is settled as it
\* should be, or is to follow the one it was resolved with.
LEMMA CallRight ==
  ASSUME NEW s, Sound(s), NEW r, NEW c, Fair(s, r, c), NEW t, t = js_promise_resolve_function_call(s, r, c)
  PROVE  /\ Advances(s, s.jobs, t)
         /\ ~Shut(s, r) /\ c \in PlainO => Out(t, Prom(s, r)) = c
<1>1. PICK p : p = Prom(s, r)
  OBVIOUS
<1>2. CASE Shut(s, r)
  BY <1>2, AdvancesSame DEF js_promise_resolve_function_call, Shut
<1>3. CASE ~Shut(s, r)
  <2>0. r \in Pa(s)
    BY DEF Fair
  <2>0a. p \in Pr(s) /\ p \in Nat
    BY <1>1, <2>0 DEF Sound, Good, OkPairs, Prom, Pr
  <2>1. CASE c \in PlainO
    <3>1. c.value \in Plain
      BY <2>1 DEF PlainO
    <3>2. ~Follows(p, c.value) /\ ~Fails(p, c.value)
      BY <2>0a, <3>1, PromiseAssumption DEF Follows, Fails, IsPromise, Promises
    <3>3. t = fulfill_or_reject_promise(Used(s, r), p, c)
      BY <1>1, <1>3, <3>2 DEF js_promise_resolve_function_call, Used, Shut, Prom
    <3>4. Suits(s, r, c)
      BY <1>3 DEF Fair, Suits, Free, OfGroup
    <3> QED
      BY <1>1, <1>3, <2>0, <2>1, <3>3, <3>4, SettleRight
  <2>2. CASE c \notin PlainO
    <3>1. Free(s, r) /\ Clean(c) /\ (c.value \in Nat => c.value \in Pr(s))
      BY <1>3, <2>2 DEF Fair
    <3>2. c.reject \in BOOLEAN /\ ~c.reject /\ c.value \in {Thenable, Trap} \cup Promises
      BY <2>2, <3>1 DEF Clean, PlainO
    <3>3. Follows(p, c.value) \/ Fails(p, c.value)
      BY <3>2 DEF Follows, Fails, IsPromise
    <3>4. \/ /\ Follows(p, c.value)
             /\ t = JS_EnqueueJob(Used(s, r), [type |-> "thenable", promise |-> p, thenable |-> c.value])
          \/ t = fulfill_or_reject_promise(Used(s, r), p, Reason(Error))
      BY <1>1, <1>3, <3>2, <3>3 DEF js_promise_resolve_function_call, Used, Shut, Prom
    <3>5. CASE /\ Follows(p, c.value)
               /\ t = JS_EnqueueJob(Used(s, r), [type |-> "thenable", promise |-> p, thenable |-> c.value])
      <4>1. PICK v : v = c.value
        OBVIOUS
      <4>2. v = Thenable \/ v \in Pr(s)
        BY <3>1, <3>5, <4>1 DEF Follows, IsPromise, Promises
      <4>3. t = JS_EnqueueJob(Used(s, r), [type |-> "thenable", promise |-> p, thenable |-> v])
        BY <3>5, <4>1
      <4> QED
        BY <1>1, <1>3, <2>2, <3>1, <4>2, <4>3, FollowRight
    <3>6. CASE t = fulfill_or_reject_promise(Used(s, r), p, Reason(Error))
      <4>2. PICK o : o = Reason(Error)
        OBVIOUS
      <4>3. t = fulfill_or_reject_promise(Used(s, r), p, o)
        BY <3>6, <4>2
      <4>4. o \in PlainO
        BY <4>2, PromiseAssumption DEF PlainO, Reason
      <4>5. Suits(s, r, o)
        BY <1>3, <3>1 DEF Suits, Free, OfGroup
      <4> QED
        BY <1>1, <1>3, <2>0, <2>2, <4>3, <4>4, <4>5, SettleRight
    <3> QED
      BY <3>4, <3>5, <3>6
  <2> QED
    BY <2>1, <2>2
<1> QED
  BY <1>2, <1>3

-----------------------------------------------------------------------------
(* New promises *)

\* One promise more, which is to repeat m, and its pair.
AfterNew(s, m, n, k, t) ==
  /\ n \in Nat /\ k \in Nat /\ n = Len(s.promises) /\ k = Len(s.pairs)
  /\ Pr(s) = 1 .. n /\ Pa(s) = 1 .. k /\ Pr(t) = 1 .. n + 1 /\ Pa(t) = 1 .. k + 1
  /\ \A p \in 1 .. n : t.promises[p] = s.promises[p]
  /\ \A r \in 1 .. k : t.pairs[r] = s.pairs[r]
  /\ Out(t, n + 1) = Pending /\ Mir(t, n + 1) = m /\ t.promises[n + 1].thens = 0
  /\ \A b \in BOOLEAN : t.promises[n + 1].reactions[b] = <<>>
  /\ Prom(t, k + 1) = n + 1 /\ ~Shut(t, k + 1)
  /\ t.jobs = s.jobs /\ t.asyncs = s.asyncs

\* js_new_promise_capability: what changes.
LEMMA NewIs ==
  ASSUME NEW s, Good(s), NEW t, t = js_new_promise_capability(s)
  PROVE  /\ AfterNew(s, None, Len(s.promises), Len(s.pairs), t) /\ Good(t) /\ t.groups = s.groups
         /\ Newest(t) = Len(s.promises) + 1 /\ NewestPair(t) = Len(s.pairs) + 1
<1>1. PICK n \in Nat : n = Len(s.promises)
  BY DEF Good, AnyEngine
<1>2. PICK k \in Nat : k = Len(s.pairs)
  BY DEF Good, AnyEngine
<1>3. PICK e : e = [b \in BOOLEAN |-> <<>>]
  OBVIOUS
<1>4. e \in [BOOLEAN -> Seq(AnyReaction)] /\ \A b \in BOOLEAN : e[b] = <<>>
  BY <1>3
<1>5. PICK x : x = [outcome |-> Pending, reactions |-> e, thens |-> 0, mirrors |-> None]
  OBVIOUS
<1>6. /\ x \in AnyPromise /\ x.outcome = Pending /\ x.reactions = e /\ x.thens = 0 /\ x.mirrors = None
  BY <1>4, <1>5 DEF AnyPromise, AnyOutcome, AnyValue, Pending
<1>7. PICK y : y = [promise |-> n + 1, resolved |-> FALSE]
  OBVIOUS
<1>8. y \in AnyPair /\ y.promise = n + 1 /\ ~y.resolved
  BY <1>7 DEF AnyPair
<1>9. PICK P : P = Append(s.promises, x)
  OBVIOUS
<1>10. PICK Q : Q = Append(s.pairs, y)
  OBVIOUS
<1>11. s \in AnyEngine /\ s.promises \in Seq(AnyPromise) /\ s.pairs \in Seq(AnyPair)
  BY DEF Good, AnyEngine
<1>12. P \in Seq(AnyPromise) /\ Len(P) = n + 1 /\ P[n + 1] = x /\ \A i \in 1 .. n : P[i] = s.promises[i]
  BY <1>1, <1>6, <1>9, <1>11, SeqAppend
<1>13. Q \in Seq(AnyPair) /\ Len(Q) = k + 1 /\ Q[k + 1] = y /\ \A i \in 1 .. k : Q[i] = s.pairs[i]
  BY <1>2, <1>8, <1>10, <1>11, SeqAppend
<1>14. t = [s EXCEPT !.promises = P, !.pairs = Q]
  BY <1>1, <1>3, <1>5, <1>7, <1>9, <1>10 DEF js_new_promise_capability, js_create_resolving_functions
<1>15. /\ t.promises = P /\ t.pairs = Q
       /\ t.jobs = s.jobs /\ t.asyncs = s.asyncs /\ t.groups = s.groups
  BY <1>11, <1>12, <1>13, <1>14 DEF AnyEngine
<1>16. Pr(s) = 1 .. n /\ Pa(s) = 1 .. k /\ Pr(t) = 1 .. n + 1 /\ Pa(t) = 1 .. k + 1
  BY <1>1, <1>2, <1>12, <1>13, <1>15 DEF Pr, Pa
<1>17. /\ Out(t, n + 1) = Pending /\ Mir(t, n + 1) = None /\ t.promises[n + 1].thens = 0
       /\ \A b \in BOOLEAN : t.promises[n + 1].reactions[b] = <<>>
  BY <1>4, <1>6, <1>12, <1>15 DEF Out, Mir
<1>18. Prom(t, k + 1) = n + 1 /\ ~Shut(t, k + 1)
  BY <1>8, <1>13, <1>15 DEF Prom, Shut
<1>19. Newest(t) = n + 1 /\ NewestPair(t) = k + 1
  BY <1>12, <1>13, <1>15 DEF Newest, NewestPair
<1>20. Good(t)
  BY NewOk DEF IsNew
<1> QED
  BY <1>1, <1>2, <1>12, <1>13, <1>15, <1>16, <1>17, <1>18, <1>19, <1>20 DEF AfterNew

\* A new promise that repeats no other one, or one that is there; the groups
\* are as they were, or the new promise is that of one more.
LEMMA NewOnward ==
  ASSUME NEW s, Good(s), NEW m, NEW n, NEW k, NEW t, Good(t), AfterNew(s, m, n, k, t),
         Gr(s) \subseteq Gr(t), \A g \in Gr(s) : t.groups[g] = s.groups[g],
         \A g \in Gr(t) : g \in Gr(s) \/ t.groups[g].pair = k + 1
  PROVE  Onward(s, t) /\ Delivers(s, s.jobs, t) /\ n + 1 \in Pr(t) /\ k + 1 \in Pa(t) /\ k + 1 \notin Pa(s)
<1>1. /\ n \in Nat /\ k \in Nat /\ Pr(s) = 1 .. n /\ Pa(s) = 1 .. k /\ Pr(t) = 1 .. n + 1 /\ Pa(t) = 1 .. k + 1
  BY DEF AfterNew
<1>2. /\ Pr(s) \subseteq Pr(t) /\ Pa(s) \subseteq Pa(t) /\ k + 1 \notin Pa(s)
      /\ n + 1 \in Pr(t) /\ k + 1 \in Pa(t) /\ \A p \in Pr(t) : p \in Pr(s) \/ p = n + 1
  BY <1>1
<1>3. \A p \in Pr(s) : t.promises[p] = s.promises[p] /\ Out(t, p) = Out(s, p) /\ Mir(t, p) = Mir(s, p)
  BY <1>1 DEF AfterNew, Out, Mir
<1>4. \A r \in Pa(s) : Prom(t, r) = Prom(s, r) /\ Shut(t, r) = Shut(s, r) /\ Prom(s, r) \in Pr(s)
  BY <1>1 DEF AfterNew, Prom, Shut, Good, OkPairs
<1>5. \A g \in Gr(s) : s.groups[g].next <= s.groups[g].next
  BY OnwardSame DEF Onward
<1>6. Onward(s, t)
  BY <1>2, <1>3, <1>4, <1>5 DEF Onward
<1>7. Delivers(s, s.jobs, t)
  <2>1. Len(s.jobs) \in Nat /\ t.jobs = s.jobs /\ Out(t, n + 1) = Pending
    BY ThensNat DEF AfterNew
  <2>2. /\ Len(s.jobs) <= Len(t.jobs)
        /\ \A i \in Len(s.jobs) + 1 .. Len(t.jobs) : t.jobs[i].type # "reaction"
    BY <2>1
  <2>3. ASSUME NEW p \in Pr(s) PROVE s.promises[p].thens <= t.promises[p].thens
    <3>1. t.promises[p].thens = s.promises[p].thens /\ s.promises[p].thens \in Nat
      BY <1>3, ThensNat
    <3> QED
      BY <3>1
  <2>4. \A p \in Pr(t) : \/ Out(t, p) = Pending
                         \/ p \in Pr(s) /\ Out(t, p) = Out(s, p)
                            /\ t.promises[p].thens = s.promises[p].thens
    BY <1>2, <1>3, <2>1
  <2> QED
    BY <2>1, <2>2, <2>3, <2>4, DeliversNothing
<1> QED
  BY <1>2, <1>6, <1>7

\* The new promise is right, whatever it is to repeat, and so is what was there.
LEMMA NewCarries ==
  ASSUME NEW s, Good(s), NEW m, NEW n, NEW k, NEW t, Good(t), AfterNew(s, m, n, k, t),
         m = None \/ m \in Pr(s), Onward(s, t)
  PROVE  CPromises(s, t) /\ CJobs(s, t) /\ CAsyncs(s, t)
<1>1. /\ n \in Nat /\ Pr(s) = 1 .. n /\ Pr(t) = 1 .. n + 1 /\ t.jobs = s.jobs /\ t.asyncs = s.asyncs
      /\ Out(t, n + 1) = Pending /\ Mir(t, n + 1) = m /\ t.promises[n + 1].thens = 0
      /\ \A b \in BOOLEAN : t.promises[n + 1].reactions[b] = <<>>
  BY DEF AfterNew
<1>2. \A p \in Pr(s) : t.promises[p] = s.promises[p] /\ Out(t, p) = Out(s, p) /\ Mir(t, p) = Mir(s, p)
  BY <1>1 DEF AfterNew, Out, Mir
<1>3. \A p \in Pr(t) : p \in Pr(s) \/ p = n + 1
  BY <1>1
<1>4. RightPromise(t, n + 1)
  <2>1. \A b \in BOOLEAN : Len(t.promises[n + 1].reactions[b]) = 0
    BY <1>1
  <2>2. Expects(t, n + 1)
    BY <2>1 DEF Expects
  <2>3. Numbered(t, n + 1)
    BY <1>1, <2>1 DEF Numbered
  <2>4. Mirrored(t, n + 1)
    BY <1>1 DEF Mirrored, Onward
  <2> QED
    BY <1>1, <2>2, <2>3, <2>4 DEF RightPromise
<1>5. CPromises(s, t)
  BY <1>2, <1>3, <1>4 DEF CPromises, SameP
<1>6. CJobs(s, t)
  <2> SUFFICES ASSUME NEW i \in 1 .. Len(s.jobs), NEW j, j = s.jobs[i] PROVE SameJ(s, t, j)
    BY <1>1 DEF CJobs
  <2>1. OkJob(s, j)
    BY DEF Good, OkJobs
  <2>2. j.type # "reaction" => j.promise \in Pr(s)
    BY <2>1 DEF OkJob, ReactionJobs
  <2> QED
    BY <1>2, <2>2 DEF SameJ
<1>7. CAsyncs(s, t)
  BY <1>1 DEF CAsyncs, As
<1> QED
  BY <1>5, <1>6, <1>7

\* js_new_promise_capability.
LEMMA NewRight ==
  ASSUME NEW s, Sound(s), NEW m, m = None \/ m \in Pr(s), NEW n, NEW k, NEW t, Good(t),
         AfterNew(s, m, n, k, t), t.groups = s.groups
  PROVE  /\ Advances(s, s.jobs, t) /\ n + 1 \in Pr(t) /\ k + 1 \in Pa(t) /\ Prom(t, k + 1) = n + 1
         /\ ~OfGroup(t, k + 1) /\ Mir(t, n + 1) = m /\ ~Shut(t, k + 1) /\ (m = None => Free(t, k + 1))
<1>0. Good(s) /\ Right(s) /\ Gr(t) = Gr(s)
  BY DEF Sound, Gr
<1>1. Onward(s, t) /\ Delivers(s, s.jobs, t) /\ n + 1 \in Pr(t) /\ k + 1 \in Pa(t) /\ k + 1 \notin Pa(s)
  BY <1>0, NewOnward
<1>2. CPromises(s, t) /\ CJobs(s, t) /\ CAsyncs(s, t)
  BY <1>0, <1>1, NewCarries
<1>3. CGroups(s, t)
  <2> SUFFICES ASSUME NEW g \in Gr(s) PROVE SameG(s, t, g)
    BY <1>0 DEF CGroups
  <2>1. s.groups[g].pair \in Pa(s) /\ Prom(s, s.groups[g].pair) \in Pr(s)
    BY <1>0, GroupThere
  <2> QED
    BY <2>1 DEF SameG, AfterNew, Shut, Out
<1>4. CPairs(s, t)
  BY <1>0 DEF CPairs
<1>5. Right(t)
  BY <1>0, <1>1, <1>2, <1>3, <1>4, CarryRight
<1>6. ~OfGroup(t, k + 1)
  BY <1>0, <1>1, GroupThere DEF OfGroup
<1>7. Prom(t, k + 1) = n + 1 /\ Mir(t, n + 1) = m /\ ~Shut(t, k + 1)
  BY DEF AfterNew
<1> QED
  BY <1>1, <1>5, <1>6, <1>7 DEF Advances, Sound, Free

-----------------------------------------------------------------------------
(* Adding a reaction *)

\* The reaction to a rejection (b), or to a value.
NewReaction(s, p, f, g, cap, b) == Reaction(p, s.promises[p].thens + 1, cap, IF b THEN g ELSE f)

\* p has one reaction more, or it is a job ...
AfterRegister(s, p, t) ==
  /\ t.pairs = s.pairs /\ t.groups = s.groups /\ t.asyncs = s.asyncs /\ Pr(t) = Pr(s)
  /\ Out(t, p) = Out(s, p) /\ Mir(t, p) = Mir(s, p) /\ t.promises[p].thens = s.promises[p].thens + 1
  /\ \A q \in Pr(s) : q # p => t.promises[q] = s.promises[q]

\* ... x[FALSE] or x[TRUE].
Defers(s, p, x, t) ==
  /\ t.jobs = s.jobs
  /\ \A b \in BOOLEAN :
       /\ Len(s.promises[p].reactions[b]) \in Nat
       /\ Len(t.promises[p].reactions[b]) = Len(s.promises[p].reactions[b]) + 1
       /\ t.promises[p].reactions[b][Len(s.promises[p].reactions[b]) + 1] = x[b]
       /\ \A i \in 1 .. Len(s.promises[p].reactions[b]) :
            t.promises[p].reactions[b][i] = s.promises[p].reactions[b][i]

Hurries(s, p, x, t) ==
  /\ t.promises[p].reactions = s.promises[p].reactions
  /\ Len(s.jobs) \in Nat /\ Len(t.jobs) = Len(s.jobs) + 1 /\ \A i \in 1 .. Len(s.jobs) : t.jobs[i] = s.jobs[i]
  /\ t.jobs[Len(s.jobs) + 1] = [type |-> "reaction", reaction |-> x[Out(s, p).reject], outcome |-> Out(s, p)]

\* perform_promise_then: what changes.
LEMMA RegisterIs ==
  ASSUME NEW s, NEW p, NEW f, NEW g, NEW cap, NEW t, Registers(s, p, f, g, cap, t),
         NEW x, x = [b \in BOOLEAN |-> NewReaction(s, p, f, g, cap, b)]
  PROVE  /\ AfterRegister(s, p, t)
         /\ Out(s, p) = Pending => Defers(s, p, x, t)
         /\ Out(s, p) # Pending => Hurries(s, p, x, t)
<1>1. /\ Good(s) /\ p \in Pr(s) /\ OkHandler(s, f) /\ OkHandler(s, g) /\ (cap = None \/ cap \in Pa(s))
      /\ t = perform_promise_then(s, p, f, g, cap)
  BY DEF Registers
<1>2. /\ s \in AnyEngine /\ s.promises \in Seq(AnyPromise) /\ p \in 1 .. Len(s.promises)
      /\ s.promises[p] \in AnyPromise /\ p \in Nat /\ f \in AnyHandler /\ g \in AnyHandler
      /\ cap \in Nat \cup {None} /\ s.jobs \in Seq(Jobs)
  BY <1>1 DEF Good, AnyEngine, Pr, Pa, OkHandler
<1>3. PICK old : old = s.promises[p]
  OBVIOUS
<1>4. PICK n : n = old.thens + 1
  OBVIOUS
<1>5. old \in AnyPromise /\ n \in Nat
  BY <1>2, <1>3, <1>4 DEF AnyPromise
<1>6. x = [b \in BOOLEAN |-> [on |-> p, n |-> n, cap |-> cap, handler |-> IF b THEN g ELSE f]]
  BY <1>3, <1>4 DEF NewReaction, Reaction
<1>7. \A b \in BOOLEAN : x[b] \in AnyReaction
  BY <1>2, <1>5, <1>6 DEF AnyReaction
<1>8. PICK w : w = [old EXCEPT !.thens = n]
  OBVIOUS
<1>9. /\ w \in AnyPromise /\ w.outcome = old.outcome /\ w.reactions = old.reactions
      /\ w.thens = n /\ w.mirrors = old.mirrors
  BY <1>5, <1>8 DEF AnyPromise
<1>10. PICK u : u = [s EXCEPT !.promises = [@ EXCEPT ![p] = w]]
  OBVIOUS
<1>11. u = [s EXCEPT !.promises[p].thens = n]
  BY <1>3, <1>8, <1>10
<1>12. /\ u.promises = [s.promises EXCEPT ![p] = w] /\ u.promises[p] = w /\ u.pairs = s.pairs
       /\ u.jobs = s.jobs /\ u.asyncs = s.asyncs /\ u.groups = s.groups
  BY <1>2, <1>10 DEF AnyEngine
<1>13. ASSUME NEW y \in AnyPromise, NEW P, P = [s.promises EXCEPT ![p] = y], t.promises = P,
              y.outcome = old.outcome, y.mirrors = old.mirrors, y.thens = n,
              t.pairs = s.pairs, t.groups = s.groups, t.asyncs = s.asyncs
       PROVE  AfterRegister(s, p, t) /\ t.promises[p] = y
  <2>1. /\ Len(P) = Len(s.promises) /\ P[p] = y
        /\ \A q \in 1 .. Len(s.promises) : q # p => P[q] = s.promises[q]
    BY <1>2, <1>13, SeqExcept
  <2> QED
    BY <1>3, <1>4, <1>13, <2>1 DEF AfterRegister, Pr, Out, Mir
<1>14. CASE old.outcome # Pending
  <2>1. PICK o : o = old.outcome
    OBVIOUS
  <2>2. o.reject \in BOOLEAN /\ o \in AnyOutcome
    BY <1>5, <2>1 DEF AnyPromise, AnyOutcome
  <2>3. PICK job : job = [type |-> "reaction", reaction |-> x[o.reject], outcome |-> o]
    OBVIOUS
  <2>4. job \in Jobs
    BY <1>7, <2>2, <2>3 DEF Jobs, ReactionJobs
  <2>5. t = JS_EnqueueJob(u, job)
    BY <1>1, <1>3, <1>4, <1>6, <1>11, <1>14, <2>1, <2>3 DEF perform_promise_then, ReactionJob
  <2>6. PICK jobs : jobs = Append(s.jobs, job)
    OBVIOUS
  <2>7. t = [u EXCEPT !.jobs = jobs]
    BY <1>12, <2>5, <2>6 DEF JS_EnqueueJob
  <2>8. /\ t.promises = u.promises /\ t.pairs = s.pairs /\ t.asyncs = s.asyncs /\ t.groups = s.groups
        /\ t.jobs = jobs
    BY <1>2, <1>10, <1>12, <2>7 DEF AnyEngine
  <2>9. AfterRegister(s, p, t) /\ t.promises[p] = w
    BY <1>9, <1>12, <1>13, <2>8
  <2>10. Len(jobs) = Len(s.jobs) + 1 /\ jobs[Len(s.jobs) + 1] = job /\ Len(s.jobs) \in Nat
         /\ \A i \in 1 .. Len(s.jobs) : jobs[i] = s.jobs[i]
    BY <1>2, <2>4, <2>6, SeqAppend
  <2>11. Hurries(s, p, x, t)
    BY <1>3, <1>9, <2>1, <2>3, <2>8, <2>9, <2>10 DEF Hurries, Out
  <2> QED
    BY <1>3, <1>14, <2>9, <2>11 DEF Out
<1>15. CASE old.outcome = Pending
  <2>1. PICK e : e = [b \in BOOLEAN |-> Append(old.reactions[b], x[b])]
    OBVIOUS
  <2>2. \A b \in BOOLEAN : old.reactions[b] \in Seq(AnyReaction)
    BY <1>5 DEF AnyPromise
  <2>3. ASSUME NEW b \in BOOLEAN
        PROVE  /\ e[b] \in Seq(AnyReaction) /\ Len(old.reactions[b]) \in Nat
               /\ Len(e[b]) = Len(old.reactions[b]) + 1 /\ e[b][Len(old.reactions[b]) + 1] = x[b]
               /\ \A i \in 1 .. Len(old.reactions[b]) : e[b][i] = old.reactions[b][i]
    <3>1. PICK A : A = old.reactions[b]
      OBVIOUS
    <3>2. PICK C : C = e[b]
      OBVIOUS
    <3>3. C = Append(A, x[b]) /\ A \in Seq(AnyReaction) /\ x[b] \in AnyReaction
      BY <1>7, <2>1, <2>2, <3>1, <3>2
    <3>4. /\ C \in Seq(AnyReaction) /\ Len(C) = Len(A) + 1 /\ C[Len(A) + 1] = x[b]
          /\ \A i \in 1 .. Len(A) : C[i] = A[i]
      BY <3>3, SeqAppend
    <3> QED
      BY <3>1, <3>2, <3>3, <3>4
  <2>4. e \in [BOOLEAN -> Seq(AnyReaction)]
    <3>1. e = [b \in BOOLEAN |-> e[b]]
      BY <2>1
    <3> QED
      BY <2>3, <3>1
  <2>5. PICK y : y = [w EXCEPT !.reactions = e]
    OBVIOUS
  <2>6. y \in AnyPromise /\ y.outcome = old.outcome /\ y.mirrors = old.mirrors /\ y.thens = n /\ y.reactions = e
    BY <1>9, <2>4, <2>5 DEF AnyPromise
  <2>7. t = [u EXCEPT !.promises[p].reactions = [b \in BOOLEAN |-> Append(@[b], x[b])]]
    <3>1. PICK rd : rd = [b \in BOOLEAN |-> [on |-> p, n |-> n, cap |-> cap, handler |-> IF b THEN g ELSE f]]
      OBVIOUS
    <3>2. t = [u EXCEPT !.promises[p].reactions = [b \in BOOLEAN |-> Append(@[b], rd[b])]]
      BY <1>1, <1>3, <1>4, <1>11, <1>15, <3>1 DEF perform_promise_then
    <3>3. rd = x
      BY <1>6, <3>1
    <3> QED
      BY <3>2, <3>3
  <2>8. t = [u EXCEPT !.promises = [@ EXCEPT ![p] = y]]
    BY <1>9, <1>12, <2>1, <2>5, <2>7
  <2>9. PICK P : P = [s.promises EXCEPT ![p] = y]
    OBVIOUS
  <2>10. t = [u EXCEPT !.promises = P]
    <3>1. [[s.promises EXCEPT ![p] = w] EXCEPT ![p] = y] = P
      BY <2>9
    <3> QED
      BY <1>12, <2>8, <3>1
  <2>11. /\ t.promises = P /\ t.pairs = s.pairs /\ t.asyncs = s.asyncs /\ t.groups = s.groups /\ t.jobs = s.jobs
    BY <1>2, <1>10, <1>12, <2>10 DEF AnyEngine
  <2>12. AfterRegister(s, p, t) /\ t.promises[p] = y
    BY <1>13, <2>6, <2>9, <2>11
  <2>13. Defers(s, p, x, t)
    BY <1>3, <2>3, <2>6, <2>11, <2>12 DEF Defers
  <2> QED
    BY <1>3, <1>15, <2>12, <2>13 DEF Out
<1> QED
  BY <1>14, <1>15

\* perform_promise_then with handlers that do what is right for the outcome of
\* p, known or not.
Apt(s, p, f, g, cap) ==
  \A b \in BOOLEAN : Out(s, p) = Pending \/ Out(s, p).reject = b =>
    RightFor(s, p, b, NewReaction(s, p, f, g, cap, b))

\* perform_promise_then adds a reaction that waits its turn, or is due at once.
LEMMA RegisterRight ==
  ASSUME NEW s, Sound(s), NEW p, NEW f, NEW g, NEW cap, NEW t, Registers(s, p, f, g, cap, t),
         Apt(s, p, f, g, cap)
  PROVE  Advances(s, s.jobs, t) /\ t.pairs = s.pairs /\ t.groups = s.groups /\ t.asyncs = s.asyncs /\ Pr(t) = Pr(s)
<1>0. Good(s) /\ Right(s) /\ p \in Pr(s)
  BY DEF Sound, Registers
<1>1. Good(t)
  BY ThenOk DEF AfterThen
<1>2. PICK x : x = [b \in BOOLEAN |-> NewReaction(s, p, f, g, cap, b)]
  OBVIOUS
<1>3. AfterRegister(s, p, t) /\ (Out(s, p) = Pending => Defers(s, p, x, t))
      /\ (Out(s, p) # Pending => Hurries(s, p, x, t))
  BY <1>2, RegisterIs
<1>4. /\ t.pairs = s.pairs /\ t.groups = s.groups /\ t.asyncs = s.asyncs /\ Pr(t) = Pr(s)
      /\ Pa(t) = Pa(s) /\ Gr(t) = Gr(s) /\ As(t) = As(s)
      /\ \A q \in Pr(s) : q # p => t.promises[q] = s.promises[q]
      /\ \A q \in Pr(s) : Out(t, q) = Out(s, q) /\ Mir(t, q) = Mir(s, q)
  BY <1>3 DEF AfterRegister, Pa, Gr, As, Out, Mir
<1>5. PICK n \in Nat : n = s.promises[p].thens
  BY <1>0, ThensNat
<1>6. t.promises[p].thens = n + 1
  BY <1>3, <1>5 DEF AfterRegister
<1>7. ASSUME NEW b \in BOOLEAN PROVE x[b].on = p /\ x[b].n = n + 1 /\ x[b] = NewReaction(s, p, f, g, cap, b)
  BY <1>2, <1>5 DEF NewReaction, Reaction
<1>8. Onward(s, t)
  <2>1. Onward(s, s)
    BY <1>0, OnwardSame
  <2>2. \A r : Prom(t, r) = Prom(s, r) /\ Shut(t, r) = Shut(s, r)
    BY <1>4 DEF Prom, Shut
  <2>3. \A r \in Pa(s) : Prom(s, r) \in Pr(s)
    BY <1>0 DEF Good, OkPairs, Prom
  <2> QED
    BY <1>4, <2>1, <2>2, <2>3 DEF Onward
<1>9. \A q \in Pr(s) : s.promises[q].thens <= t.promises[q].thens
  <2> SUFFICES ASSUME NEW q \in Pr(s) PROVE s.promises[q].thens <= t.promises[q].thens
    OBVIOUS
  <2>1. s.promises[q].thens \in Nat
    BY <1>0, ThensNat
  <2>2. CASE q = p
    BY <1>5, <1>6, <2>2
  <2>3. CASE q # p
    BY <1>4, <2>1, <2>3
  <2> QED
    BY <2>2, <2>3
<1>10. CAsyncs(s, t) /\ CPairs(s, t)
  BY <1>4 DEF CAsyncs, CPairs
<1>11. CGroups(s, t)
  <2> SUFFICES ASSUME NEW h \in Gr(s) PROVE SameG(s, t, h)
    BY <1>4 DEF CGroups
  <2>1. s.groups[h].pair \in Pa(s) /\ Prom(s, s.groups[h].pair) \in Pr(s)
    BY <1>0, GroupThere
  <2> QED
    BY <1>4, <2>1 DEF SameG, Shut
<1>12. RightPromise(s, p)
  BY <1>0 DEF Right, RPromises
<1>13. \A q \in Pr(s) : q # p => SameP(s, t, q)
  BY <1>4 DEF SameP
<1>14. Mirrored(t, p)
  BY <1>0, <1>4, <1>8, <1>12 DEF RightPromise, Mirrored
<1>15. ASSUME NEW i \in 1 .. Len(s.jobs) PROVE SameJ(s, t, s.jobs[i])
  <2>1. OkJob(s, s.jobs[i])
    BY <1>0 DEF Good, OkJobs
  <2>2. s.jobs[i].type # "reaction" => s.jobs[i].promise \in Pr(s)
    BY <2>1 DEF OkJob, ReactionJobs
  <2> QED
    BY <1>4, <2>2 DEF SameJ
<1>16. CASE Out(s, p) = Pending
  <2>1. Defers(s, p, x, t) /\ t.jobs = s.jobs
    BY <1>3, <1>16 DEF Defers
  <2>2. \A b \in BOOLEAN : /\ Len(s.promises[p].reactions[b]) = n
                           /\ \A i \in 1 .. n : s.promises[p].reactions[b][i].n = i
    BY <1>5, <1>12, <1>16 DEF RightPromise, Numbered
  <2>3. ASSUME NEW b \in BOOLEAN
        PROVE  /\ Len(t.promises[p].reactions[b]) = n + 1 /\ t.promises[p].reactions[b][n + 1] = x[b]
               /\ \A i \in 1 .. n : t.promises[p].reactions[b][i] = s.promises[p].reactions[b][i]
    BY <2>1, <2>2 DEF Defers
  <2>4. \A i \in 1 .. n + 1 : i \in 1 .. n \/ i = n + 1
    OBVIOUS
  <2>5. Numbered(t, p)
    <3>1. ASSUME NEW b \in BOOLEAN, NEW i \in 1 .. n + 1 PROVE t.promises[p].reactions[b][i].n = i
      <4>1. CASE i \in 1 .. n
        BY <2>2, <2>3, <4>1
      <4>2. CASE i = n + 1
        BY <1>7, <2>3, <4>2
      <4> QED
        BY <2>4, <4>1, <4>2
    <3> QED
      BY <1>6, <2>3, <3>1 DEF Numbered
  <2>6. Expects(t, p)
    <3> SUFFICES ASSUME NEW b \in BOOLEAN, NEW i \in 1 .. n + 1
                 PROVE  RightFor(t, p, b, t.promises[p].reactions[b][i])
      BY <2>3 DEF Expects
    <3>1. CASE i \in 1 .. n
      <4>1. RightFor(s, p, b, s.promises[p].reactions[b][i])
        BY <1>12, <2>2, <3>1 DEF RightPromise, Expects
      <4> QED
        BY <1>0, <1>1, <1>8, <2>3, <3>1, <4>1, RightForStays
    <3>2. CASE i = n + 1
      <4>1. RightFor(s, p, b, x[b])
        BY <1>7, <1>16 DEF Apt
      <4>2. RightFor(t, p, b, x[b])
        BY <1>0, <1>1, <1>8, <4>1, RightForStays
      <4> QED
        BY <2>3, <3>2, <4>2
    <3> QED
      BY <2>4, <3>1, <3>2
  <2>7. RightPromise(t, p)
    BY <1>0, <1>4, <1>14, <1>16, <2>5, <2>6 DEF RightPromise
  <2>8. CPromises(s, t)
    BY <1>4, <1>13, <2>7 DEF CPromises
  <2>9. CJobs(s, t)
    BY <1>15, <2>1 DEF CJobs
  <2>10. Right(t)
    BY <1>0, <1>1, <1>8, <1>10, <1>11, <2>8, <2>9, CarryRight
  <2>11. Delivers(s, s.jobs, t)
    <3>1. Len(s.jobs) \in Nat
      BY <1>0, ThensNat
    <3>2. Len(s.jobs) <= Len(t.jobs) /\ \A i \in Len(s.jobs) + 1 .. Len(t.jobs) : t.jobs[i].type # "reaction"
      BY <2>1, <3>1
    <3>3. \A q \in Pr(t) : \/ Out(t, q) = Pending
                           \/ q \in Pr(s) /\ Out(t, q) = Out(s, q) /\ t.promises[q].thens = s.promises[q].thens
      BY <1>4, <1>16
    <3> QED
      BY <1>0, <1>1, <1>9, <2>1, <3>1, <3>2, <3>3, DeliversNothing
  <2> QED
    BY <1>1, <1>4, <1>8, <2>10, <2>11 DEF Advances, Sound
<1>17. CASE Out(s, p) # Pending
  <2>1. PICK o : o = Out(s, p)
    OBVIOUS
  <2>2. o \in PlainO /\ o.reject \in BOOLEAN /\ Out(t, p) = o
    BY <1>0, <1>4, <1>12, <1>17, <2>1, PlainOk DEF RightPromise
  <2>3. PICK k \in Nat : k = Len(s.jobs)
    BY <1>0, ThensNat
  <2>4. PICK y : y = x[o.reject]
    OBVIOUS
  <2>5. PICK j : j = [type |-> "reaction", reaction |-> y, outcome |-> o]
    OBVIOUS
  <2>6. /\ t.promises[p].reactions = s.promises[p].reactions
        /\ Len(t.jobs) = k + 1 /\ (\A i \in 1 .. k : t.jobs[i] = s.jobs[i]) /\ t.jobs[k + 1] = j
    BY <1>3, <1>17, <2>1, <2>3, <2>4, <2>5 DEF Hurries
  <2>7. j.type = "reaction" /\ j.reaction = y /\ j.outcome = o
    BY <2>5, JobParts
  <2>8. y.on = p /\ y.n = n + 1 /\ RightFor(s, p, o.reject, y)
    BY <1>7, <2>1, <2>2, <2>4 DEF Apt
  <2>9. RightJob(t, j)
    <3>1. RightFor(t, p, o.reject, y)
      BY <1>0, <1>1, <1>8, <2>8, RightForStays
    <3> QED
      BY <1>0, <1>4, <2>2, <2>7, <2>8, <3>1 DEF RightJob
  <2>10. \A i \in 1 .. k + 1 : i \in 1 .. k \/ i = k + 1
    OBVIOUS
  <2>11. CJobs(s, t)
    BY <1>15, <2>3, <2>6, <2>9, <2>10 DEF CJobs
  <2>12. Expects(t, p)
    BY <1>0, <1>1, <1>8, <1>12, <2>6, RightForStays DEF RightPromise, Expects
  <2>13. Numbered(t, p)
    BY <1>0, <1>4, <1>17 DEF Numbered
  <2>14. RightPromise(t, p)
    BY <1>14, <2>2, <2>12, <2>13 DEF RightPromise
  <2>15. CPromises(s, t)
    BY <1>4, <1>13, <2>14 DEF CPromises
  <2>16. Right(t)
    BY <1>0, <1>1, <1>8, <1>10, <1>11, <2>11, <2>15, CarryRight
  <2>17. ASSUME NEW q \in Pr(t) PROVE InTurn(s, k, t, q)
    <3>1. PICK a : a = Begin(s, q)
      OBVIOUS
    <3>2. PICK e : e = End(t, q)
      OBVIOUS
    <3>3. \A i \in k + 1 .. k + 1 : i = k + 1
      OBVIOUS
    <3>4. k + 1 \in k + 1 .. k + 1
      OBVIOUS
    <3>5. CASE q = p
      <4>1. Fresh(t, k, q) = {k + 1}
        BY <2>6, <2>7, <2>8, <3>3, <3>4, <3>5 DEF Fresh
      <4>2. a = n + 1 /\ e = n + 1
        BY <1>0, <1>4, <1>5, <1>6, <1>17, <3>1, <3>2, <3>5 DEF Begin, End
      <4>3. t.jobs[k + 1].reaction.n = n + 1
        BY <2>6, <2>7, <2>8
      <4>4. \A z : z \in n + 1 .. n + 1 <=> z = n + 1
        OBVIOUS
      <4>5. \A i, h \in {k + 1} : ~(i < h)
        OBVIOUS
      <4>6. \A z : z \in a .. e <=> \E i \in {k + 1} : t.jobs[i].reaction.n = z
        BY <4>2, <4>3, <4>4
      <4> QED
        BY <3>1, <3>2, <4>1, <4>5, <4>6 DEF InTurn
    <3>6. CASE q # p
      <4>1. Fresh(t, k, q) = {}
        BY <2>6, <2>7, <2>8, <3>3, <3>6 DEF Fresh
      <4>2. q \in Pr(s) /\ t.promises[q] = s.promises[q] /\ s.promises[q].thens \in Nat
        BY <1>0, <1>4, <3>6, ThensNat
      <4>3. a \in Nat /\ e \in Nat /\ e < a
        BY <3>1, <3>2, <4>2 DEF Begin, End, Out
      <4>4. a .. e = {}
        BY <4>3
      <4> QED
        BY <3>1, <3>2, <4>1, <4>4 DEF InTurn
    <3> QED
      BY <3>5, <3>6
  <2>18. Delivers(s, s.jobs, t)
    <3>1. k <= Len(t.jobs)
      BY <2>6
    <3> QED
      BY <1>9, <2>3, <2>6, <2>17, <3>1 DEF Delivers
  <2> QED
    BY <1>1, <1>4, <1>8, <2>16, <2>18 DEF Advances, Sound
<1> QED
  BY <1>16, <1>17

-----------------------------------------------------------------------------
(* Taking a job off the list *)

\* JS_ExecutePendingJob: the first reaction is taken off the list, and what it
\* is to do is right.
LEMMA TakeRight ==
  ASSUME NEW s, Sound(s), NEW job, NEW t, Takes(s, job, t)
  PROVE  Advances(s, Tail(s.jobs), t) /\ RightJob(t, job) /\ job.type = "reaction"
<1>0. /\ Good(s) /\ Right(s) /\ s.jobs # <<>> /\ job = Head(s.jobs) /\ job.type = "reaction"
      /\ t = [s EXCEPT !.jobs = Tail(@)]
  BY DEF Takes, Sound
<1>1. /\ Good(t) /\ Pr(t) = Pr(s) /\ Pa(t) = Pa(s) /\ Gr(t) = Gr(s)
      /\ t.promises = s.promises /\ t.pairs = s.pairs /\ t.groups = s.groups /\ t.asyncs = s.asyncs
  BY TakeOk DEF AfterTake
<1>2. s \in AnyEngine /\ s.jobs \in Seq(Jobs)
  BY <1>0 DEF Good, AnyEngine
<1>3. PICK l : l = Tail(s.jobs)
  OBVIOUS
<1>4. PICK n \in Nat : n = Len(s.jobs)
  BY <1>2
<1>5. l \in Seq(Jobs) /\ Len(l) = n - 1 /\ n > 0 /\ s.jobs[1] = job /\ \A i \in 1 .. n - 1 : l[i] = s.jobs[i + 1]
  BY <1>0, <1>2, <1>3, <1>4, SeqTail
<1>6. t.jobs = l
  BY <1>0, <1>2, <1>3 DEF AnyEngine
<1>7. \A q : Out(t, q) = Out(s, q) /\ Mir(t, q) = Mir(s, q) /\ Prom(t, q) = Prom(s, q) /\ Shut(t, q) = Shut(s, q)
  BY <1>1 DEF Out, Mir, Prom, Shut
<1>8. Onward(s, t)
  <2>1. Onward(s, s)
    BY <1>0, OnwardSame
  <2> QED
    BY <1>1, <1>7, <2>1 DEF Onward
<1>9. CPromises(s, t) /\ CAsyncs(s, t) /\ CGroups(s, t) /\ CPairs(s, t)
  BY <1>1, <1>7 DEF CPromises, CAsyncs, CGroups, CPairs, SameP, SameG, As
<1>10. \A i \in 1 .. n - 1 : i + 1 \in 1 .. n
  BY <1>5
<1>11. CJobs(s, t)
  <2>1. \A i \in 1 .. n - 1 : SameJ(s, t, l[i])
    BY <1>4, <1>5, <1>7, <1>10 DEF SameJ
  <2> QED
    BY <1>5, <1>6, <2>1 DEF CJobs
<1>12. Right(t)
  BY <1>0, <1>1, <1>8, <1>9, <1>11, CarryRight
<1>13. Delivers(s, l, t)
  <2>1. Len(l) \in Nat /\ Len(l) <= Len(t.jobs)
    BY <1>5, <1>6
  <2>2. \A i \in Len(l) + 1 .. Len(t.jobs) : t.jobs[i].type # "reaction"
    BY <1>6, <2>1
  <2>3. \A q \in Pr(s) : s.promises[q].thens <= t.promises[q].thens
    BY <1>0, <1>1, ThensNat
  <2> QED
    BY <1>0, <1>1, <1>6, <1>7, <2>1, <2>2, <2>3, DeliversNothing
<1>14. RightJob(s, job)
  <2>1. RJobs(s)
    BY <1>0 DEF Right
  <2>2. 1 \in 1 .. Len(s.jobs)
    BY <1>4, <1>5
  <2>3. RightJob(s, s.jobs[1])
    BY <2>1, <2>2 DEF RJobs
  <2> QED
    BY <1>5, <2>3
<1>15. RightJob(t, job)
  BY <1>0, <1>1, <1>8, <1>14, RightJobStays
<1> QED
  BY <1>0, <1>1, <1>3, <1>8, <1>12, <1>13, <1>15 DEF Advances, Sound

\* The history variable mirrors of p is set.
AfterMirror(s, p, m, t) ==
  /\ t.pairs = s.pairs /\ t.jobs = s.jobs /\ t.asyncs = s.asyncs /\ t.groups = s.groups /\ Pr(t) = Pr(s)
  /\ \A q \in Pr(s) : q # p => t.promises[q] = s.promises[q]
  /\ Mir(t, p) = m /\ Out(t, p) = Out(s, p)
  /\ t.promises[p].thens = s.promises[p].thens /\ t.promises[p].reactions = s.promises[p].reactions

\* mirrors of one promise: what changes.
LEMMA MirrorIs ==
  ASSUME NEW s, Good(s), NEW p \in Pr(s), NEW m \in Nat, NEW t, t = [s EXCEPT !.promises[p].mirrors = m]
  PROVE  Good(t) /\ AfterMirror(s, p, m, t)
<1>1. /\ s \in AnyEngine /\ s.promises \in Seq(AnyPromise) /\ s.promises[p] \in AnyPromise
      /\ p \in 1 .. Len(s.promises)
  BY DEF Good, AnyEngine, Pr
<1>2. PICK x : x = [s.promises[p] EXCEPT !.mirrors = m]
  OBVIOUS
<1>3. /\ x \in AnyPromise /\ x.outcome = s.promises[p].outcome /\ x.reactions = s.promises[p].reactions
      /\ x.thens = s.promises[p].thens /\ x.mirrors = m
  BY <1>1, <1>2 DEF AnyPromise
<1>4. PICK P : P = [s.promises EXCEPT ![p] = x]
  OBVIOUS
<1>5. /\ Len(P) = Len(s.promises) /\ P[p] = x /\ \A q \in 1 .. Len(s.promises) : q # p => P[q] = s.promises[q]
  BY <1>1, <1>3, <1>4, SeqExcept
<1>6. t = [s EXCEPT !.promises = P]
  BY <1>2, <1>4
<1>7. /\ t.promises = P /\ t.pairs = s.pairs /\ t.jobs = s.jobs /\ t.asyncs = s.asyncs /\ t.groups = s.groups
  BY <1>1, <1>6 DEF AnyEngine
<1>8. Good(t)
  BY MirrorOk
<1> QED
  BY <1>3, <1>5, <1>7, <1>8 DEF AfterMirror, Pr, Mir, Out

\* The job for a thenable of p has passed its authority to pair k + 1, and p is
\* to repeat m.
AfterAdopt(s, p, m, k, t) ==
  /\ s.jobs # <<>> /\ t.jobs = Tail(s.jobs)
  /\ k \in Nat /\ Pa(s) = 1 .. k /\ Pa(t) = 1 .. k + 1 /\ Pr(t) = Pr(s)
  /\ t.groups = s.groups /\ t.asyncs = s.asyncs
  /\ \A r \in 1 .. k : t.pairs[r] = s.pairs[r]
  /\ Prom(t, k + 1) = p /\ ~Shut(t, k + 1)
  /\ p \in Pr(s) /\ Out(s, p) = Pending /\ Open(s, p) = {} /\ In(s.jobs, <<"thenable", p>>) = {1}
  /\ \A q \in Pr(s) : q # p => t.promises[q] = s.promises[q]
  /\ Mir(s, p) = None /\ Mir(t, p) = m /\ Out(t, p) = Pending
  /\ t.promises[p].thens = s.promises[p].thens /\ t.promises[p].reactions = s.promises[p].reactions

\* js_promise_resolve_thenable_job, up to the call of then: what changes.
LEMMA AdoptIs ==
  ASSUME NEW s, Sound(s), NEW job, NEW t, Adopts(s, job, t), NEW p, p = job.promise
  PROVE  AfterAdopt(s, p, None, Len(s.pairs), t) /\ NewestPair(t) = Len(s.pairs) + 1
<1>1. /\ Good(s) /\ Right(s) /\ s.jobs # <<>> /\ job = Head(s.jobs) /\ job.type = "thenable"
      /\ t = js_create_resolving_functions([s EXCEPT !.jobs = Tail(@)], job.promise)
  BY DEF Adopts, Sound
<1>2. s \in AnyEngine /\ s.jobs \in Seq(Jobs) /\ s.pairs \in Seq(AnyPair)
  BY <1>1 DEF Good, AnyEngine
<1>3. PICK jobs : jobs = Tail(s.jobs)
  OBVIOUS
<1>4. PICK n \in Nat : n = Len(s.jobs)
  BY <1>2
<1>5. n > 0 /\ s.jobs[1] = job
  BY <1>1, <1>2, <1>3, <1>4, SeqTail
<1>6. 1 \in 1 .. Len(s.jobs)
  BY <1>4, <1>5
<1>7. PICK k \in Nat : k = Len(s.pairs)
  BY <1>2
<1>8. OkJob(s, job) /\ RightJob(s, job)
  BY <1>1, <1>5, <1>6 DEF Good, OkJobs, Right, RJobs
<1>9. p \in Pr(s) /\ p \in Nat /\ Mir(s, p) = None
  BY <1>1, <1>8 DEF OkJob, ReactionJobs, Pr, RightJob
<1>10. PICK y : y = [promise |-> p, resolved |-> FALSE]
  OBVIOUS
<1>11. y \in AnyPair /\ y.promise = p /\ ~y.resolved
  BY <1>9, <1>10 DEF AnyPair
<1>12. PICK Q : Q = Append(s.pairs, y)
  OBVIOUS
<1>13. Len(Q) = k + 1 /\ Q[k + 1] = y /\ \A i \in 1 .. k : Q[i] = s.pairs[i]
  BY <1>2, <1>7, <1>11, <1>12, SeqAppend
<1>14. t = [s EXCEPT !.jobs = jobs, !.pairs = Q]
  BY <1>1, <1>3, <1>10, <1>12 DEF js_create_resolving_functions
<1>15. /\ t.jobs = jobs /\ t.pairs = Q /\ t.promises = s.promises
       /\ t.asyncs = s.asyncs /\ t.groups = s.groups
  BY <1>2, <1>14 DEF AnyEngine
<1>16. Pr(t) = Pr(s) /\ Pa(s) = 1 .. k /\ Pa(t) = 1 .. k + 1
  BY <1>7, <1>13, <1>15 DEF Pr, Pa
<1>17. 1 \in In(s.jobs, <<"thenable", p>>)
  BY <1>1, <1>5, <1>6 DEF In, Cls
<1>18. Out(s, p) = Pending /\ Open(s, p) = {} /\ In(s.jobs, <<"thenable", p>>) = {1}
  BY <1>1, <1>9, <1>17 DEF Good, Sole, Single, Out
<1>19. Prom(t, k + 1) = p /\ ~Shut(t, k + 1) /\ Mir(t, p) = None /\ Out(t, p) = Pending
  BY <1>9, <1>11, <1>13, <1>15, <1>18 DEF Prom, Shut, Mir, Out
<1> QED
  BY <1>1, <1>3, <1>7, <1>9, <1>13, <1>15, <1>16, <1>18, <1>19 DEF AfterAdopt, NewestPair

\* js_promise_resolve_thenable_job: nothing else can settle p, so that it may
\* repeat m from here on.
LEMMA AdoptRight ==
  ASSUME NEW s, Sound(s), NEW p, NEW m, m = None \/ m \in Pr(s), NEW k, NEW t, Good(t), AfterAdopt(s, p, m, k, t)
  PROVE  /\ Advances(s, Tail(s.jobs), t) /\ k + 1 \in Pa(t) /\ Prom(t, k + 1) = p /\ Mir(t, p) = m
         /\ ~OfGroup(t, k + 1) /\ (m = None => Free(t, k + 1))
<1>0. Good(s) /\ Right(s) /\ p \in Pr(s) /\ k \in Nat /\ t.groups = s.groups /\ Gr(t) = Gr(s) /\ Pr(t) = Pr(s)
  BY DEF Sound, AfterAdopt, Gr
<1>1. Pa(s) \subseteq Pa(t) /\ k + 1 \in Pa(t) /\ k + 1 \notin Pa(s)
  BY <1>0 DEF AfterAdopt
<1>2. \A r \in Pa(s) : Prom(t, r) = Prom(s, r) /\ Shut(t, r) = Shut(s, r) /\ Prom(s, r) \in Pr(s)
  BY <1>0 DEF AfterAdopt, Prom, Shut, Good, OkPairs
<1>3. \A q \in Pr(s) : Out(t, q) = Out(s, q) /\ (q # p => Mir(t, q) = Mir(s, q))
  BY DEF AfterAdopt, Out, Mir
<1>4. \A r \in Pa(s) : ~Shut(s, r) => Prom(s, r) # p
  BY DEF AfterAdopt, Open, Shut, Prom
<1>5. Onward(s, t)
  <2>1. \A g \in Gr(s) : s.groups[g].next <= s.groups[g].next
    BY <1>0, OnwardSame DEF Onward
  <2> QED
    BY <1>0, <1>1, <1>2, <1>3, <1>4, <2>1 DEF Onward
<1>6. RightPromise(s, p)
  BY <1>0 DEF Right, RPromises
<1>7. CPromises(s, t)
  <2>1. \A q \in Pr(s) : q # p => SameP(s, t, q)
    BY <1>3 DEF SameP, AfterAdopt
  <2>2. Expects(t, p)
    BY <1>0, <1>5, <1>6, RightForStays DEF RightPromise, Expects, AfterAdopt
  <2>3. Numbered(t, p)
    BY <1>0, <1>3, <1>6 DEF RightPromise, Numbered, AfterAdopt
  <2>4. Mirrored(t, p) /\ Out(t, p) = Pending
    BY <1>0 DEF Mirrored, AfterAdopt
  <2>5. RightPromise(t, p)
    BY <2>2, <2>3, <2>4 DEF RightPromise
  <2> QED
    BY <1>0, <2>1, <2>5 DEF CPromises
<1>8. PICK l : l = Tail(s.jobs)
  OBVIOUS
<1>9. s.jobs \in Seq(Jobs) /\ s.jobs # <<>> /\ t.jobs = l
  BY <1>0, <1>8 DEF Good, AnyEngine, AfterAdopt
<1>10. PICK n \in Nat : n = Len(s.jobs)
  BY <1>9
<1>11. Len(l) = n - 1 /\ n > 0 /\ \A i \in 1 .. n - 1 : l[i] = s.jobs[i + 1]
  BY <1>8, <1>9, <1>10, SeqTail
<1>12. \A i \in 1 .. n - 1 : i + 1 \in 1 .. n /\ i + 1 # 1
  BY <1>11
<1>13. CJobs(s, t)
  <2> SUFFICES ASSUME NEW i \in 1 .. n - 1, NEW j, j = l[i] PROVE SameJ(s, t, j)
    BY <1>9, <1>11 DEF CJobs
  <2>1. PICK h : h = i + 1
    OBVIOUS
  <2>2. h \in 1 .. Len(s.jobs) /\ h # 1 /\ j = s.jobs[h]
    BY <1>10, <1>11, <1>12, <2>1
  <2>3. OkJob(s, j)
    BY <1>0, <2>2 DEF Good, OkJobs
  <2>4. h \notin In(s.jobs, <<"thenable", p>>)
    BY <2>2 DEF AfterAdopt
  <2>5. j.type # "reaction" => j.promise \in Pr(s) /\ j.promise # p
    BY <2>2, <2>3, <2>4 DEF OkJob, ReactionJobs, In, Cls
  <2> QED
    BY <1>3, <2>2, <2>5 DEF SameJ
<1>14. CAsyncs(s, t) /\ CPairs(s, t)
  BY <1>0 DEF CAsyncs, CPairs, AfterAdopt, As
<1>15. CGroups(s, t)
  <2> SUFFICES ASSUME NEW g \in Gr(s) PROVE SameG(s, t, g)
    BY <1>0 DEF CGroups
  <2>1. s.groups[g].pair \in Pa(s) /\ Prom(s, s.groups[g].pair) \in Pr(s)
    BY <1>0, GroupThere
  <2> QED
    BY <1>0, <1>2, <1>3, <2>1 DEF SameG
<1>16. Right(t)
  BY <1>0, <1>5, <1>7, <1>13, <1>14, <1>15, CarryRight
<1>17. \A q \in Pr(s) : t.promises[q].thens = s.promises[q].thens /\ s.promises[q].thens \in Nat
  BY <1>0, ThensNat DEF AfterAdopt
<1>18. Delivers(s, l, t)
  <2>1. Len(l) \in Nat /\ Len(l) <= Len(t.jobs)
    BY <1>9, <1>11
  <2>2. \A i \in Len(l) + 1 .. Len(t.jobs) : t.jobs[i].type # "reaction"
    BY <1>9, <2>1
  <2>3. \A q \in Pr(s) : s.promises[q].thens <= t.promises[q].thens
    BY <1>17
  <2> QED
    BY <1>0, <1>3, <1>9, <1>17, <2>1, <2>2, <2>3, DeliversNothing
<1>19. ~OfGroup(t, k + 1)
  BY <1>0, <1>1, GroupThere DEF OfGroup
<1>20. Prom(t, k + 1) = p /\ Mir(t, p) = m
  BY DEF AfterAdopt
<1> QED
  BY <1>1, <1>5, <1>8, <1>16, <1>18, <1>19, <1>20 DEF Advances, Sound, Free

-----------------------------------------------------------------------------
(* Groups and async functions *)

\* A change of the async functions only.
LEMMA AsyncsRight ==
  ASSUME NEW s, Sound(s), NEW A, NEW t, Reasyncs(s, A, t), \A a \in 1 .. Len(A) : Free(s, A[a].pair)
  PROVE  Advances(s, s.jobs, t)
<1>0. Good(s) /\ Right(s) /\ t = [s EXCEPT !.asyncs = A]
  BY DEF Sound, Reasyncs
<1>1. Good(t)
  BY AsyncsOk
<1>2. /\ t.promises = s.promises /\ t.pairs = s.pairs /\ t.jobs = s.jobs /\ t.groups = s.groups /\ t.asyncs = A
  BY <1>0 DEF Good, AnyEngine
<1>3. /\ Pr(t) = Pr(s) /\ Pa(t) = Pa(s) /\ Gr(t) = Gr(s)
      /\ \A q : Out(t, q) = Out(s, q) /\ Mir(t, q) = Mir(s, q) /\ Prom(t, q) = Prom(s, q) /\ Shut(t, q) = Shut(s, q)
  BY <1>2 DEF Pr, Pa, Gr, Out, Mir, Prom, Shut
<1>4. Onward(s, t) /\ Advances(s, s.jobs, s)
  <2>1. Onward(s, s)
    BY <1>0, OnwardSame
  <2> QED
    BY <1>2, <1>3, <2>1, AdvancesSame DEF Onward
<1>5. CPromises(s, t) /\ CJobs(s, t) /\ CGroups(s, t) /\ CPairs(s, t)
  BY <1>2, <1>3 DEF CPromises, CJobs, CGroups, CPairs, SameP, SameG, SameJ
<1>6. CAsyncs(s, t)
  BY <1>2, <1>4, FreeStays DEF CAsyncs, As
<1>7. Right(t)
  BY <1>0, <1>1, <1>4, <1>5, <1>6, CarryRight
<1>8. Delivers(s, s.jobs, t)
  <2>1. Len(s.jobs) \in Nat /\ \A q \in Pr(s) : s.promises[q].thens \in Nat
    BY <1>0, ThensNat
  <2>2. Len(s.jobs) <= Len(t.jobs) /\ \A i \in Len(s.jobs) + 1 .. Len(t.jobs) : t.jobs[i].type # "reaction"
    BY <1>2, <2>1
  <2>3. \A q \in Pr(s) : s.promises[q].thens <= t.promises[q].thens
    BY <1>2, <2>1
  <2> QED
    BY <1>0, <1>1, <1>2, <1>3, <2>1, <2>2, <2>3, DeliversNothing
<1> QED
  BY <1>1, <1>4, <1>7, <1>8 DEF Advances, Sound

\* A change of one group that keeps what is right of it.
LEMMA RecountRight ==
  ASSUME NEW s, Sound(s), NEW g, NEW x, NEW t, Recounts(s, g, x, t),
         x.magic = s.groups[g].magic, s.groups[g].next <= x.next, RightGroup(s, x)
  PROVE  /\ Advances(s, s.jobs, t) /\ t.groups[g] = x /\ t.promises = s.promises /\ t.pairs = s.pairs
         /\ Gr(t) = Gr(s)
<1>0. /\ Good(s) /\ Right(s) /\ g \in Gr(s) /\ x \in AnyGroup
      /\ x.pair = s.groups[g].pair /\ x.items = s.groups[g].items
      /\ t = [s EXCEPT !.groups = [@ EXCEPT ![g] = x]]
  BY DEF Sound, Recounts
<1>1. Good(t) /\ Gr(t) = Gr(s) /\ t.groups[g] = x /\ Pr(t) = Pr(s) /\ Pa(t) = Pa(s)
  BY GroupOk
<1>2. /\ t.promises = s.promises /\ t.pairs = s.pairs /\ t.jobs = s.jobs /\ t.asyncs = s.asyncs
      /\ \A h \in Gr(s) : h # g => t.groups[h] = s.groups[h]
  BY <1>0 DEF Good, AnyEngine, Gr
<1>3. /\ \A q : Out(t, q) = Out(s, q) /\ Mir(t, q) = Mir(s, q) /\ Prom(t, q) = Prom(s, q) /\ Shut(t, q) = Shut(s, q)
  BY <1>2 DEF Out, Mir, Prom, Shut
<1>4. Onward(s, t)
  <2>1. Onward(s, s)
    BY <1>0, OnwardSame
  <2>2. \A h \in Gr(s) : s.groups[h].next <= t.groups[h].next
    BY <1>1, <1>2, <2>1 DEF Onward
  <2>3. \A h \in Gr(s) : /\ t.groups[h].magic = s.groups[h].magic /\ t.groups[h].items = s.groups[h].items
                         /\ t.groups[h].pair = s.groups[h].pair
    BY <1>0, <1>1, <1>2
  <2> QED
    BY <1>1, <1>3, <2>2, <2>3 DEF Onward
<1>5. CPromises(s, t) /\ CJobs(s, t) /\ CAsyncs(s, t) /\ CPairs(s, t)
  BY <1>1, <1>2, <1>3 DEF CPromises, CJobs, CAsyncs, CPairs, SameP, SameJ, As
<1>6. RightGroup(t, x)
  BY <1>3 DEF RightGroup, InPlace, Replying, Answers
<1>7. CGroups(s, t)
  BY <1>1, <1>2, <1>3, <1>6 DEF CGroups, SameG
<1>8. Right(t)
  BY <1>0, <1>1, <1>4, <1>5, <1>7, CarryRight
<1>9. Delivers(s, s.jobs, t)
  <2>1. Len(s.jobs) \in Nat /\ \A q \in Pr(s) : s.promises[q].thens \in Nat
    BY <1>0, ThensNat
  <2>2. Len(s.jobs) <= Len(t.jobs) /\ \A i \in Len(s.jobs) + 1 .. Len(t.jobs) : t.jobs[i].type # "reaction"
    BY <1>2, <2>1
  <2>3. \A q \in Pr(s) : s.promises[q].thens <= t.promises[q].thens
    BY <1>2, <2>1
  <2> QED
    BY <1>0, <1>1, <1>2, <1>3, <2>1, <2>2, <2>3, DeliversNothing
<1> QED
  BY <1>1, <1>2, <1>4, <1>8, <1>9 DEF Advances, Sound

\* The elements that are in their place: some of the items the loop has passed.
LEMMA DoneSize ==
  ASSUME NEW s, NEW x \in AnyGroup, InPlace(s, x), Counting(x)
  PROVE  /\ x.next \in Nat \ {0} /\ Len(x.items) \in Nat /\ x.remaining \in Int
         /\ IsFiniteSet(Done(x)) /\ Cardinality(Done(x)) \in Nat /\ Cardinality(Done(x)) <= x.next - 1
         /\ Cardinality(Done(x)) = Len(x.items) => Filled(x)
<1>1. x.next \in Nat \ {0} /\ x.items \in Seq(Nat) /\ x.remaining \in Int
  BY DEF AnyGroup
<1>2. PICK n \in Nat : n = Len(x.items)
  BY <1>1
<1>3. PICK k \in Nat : k = x.next - 1
  BY <1>1
<1>4. \A i \in 1 .. n : i < x.next => i \in 1 .. k
  BY <1>1, <1>3
<1>5. Done(x) \subseteq 1 .. k
  BY <1>2, <1>4 DEF InPlace, Done
<1>6. Done(x) \subseteq 1 .. n
  BY <1>2 DEF Done
<1>7. IsFiniteSet(1 .. k) /\ Cardinality(1 .. k) = k /\ IsFiniteSet(1 .. n) /\ Cardinality(1 .. n) = n
  <2>1. /\ IsFiniteSet(1 .. k) /\ Cardinality(1 .. k) = IF 1 > k THEN 0 ELSE k - 1 + 1
        /\ IsFiniteSet(1 .. n) /\ Cardinality(1 .. n) = IF 1 > n THEN 0 ELSE n - 1 + 1
    BY FS_Interval
  <2> QED
    BY <2>1
<1>8. IsFiniteSet(Done(x)) /\ Cardinality(Done(x)) <= k
  BY <1>5, <1>7, FS_Subset
<1>9. Cardinality(Done(x)) = n => 1 .. n = Done(x)
  BY <1>6, <1>7, FS_Subset
<1>10. Cardinality(Done(x)) = n => Filled(x)
  BY <1>2, <1>9 DEF Filled, Done
<1> QED
  BY <1>1, <1>2, <1>3, <1>8, <1>10, FS_CardinalityType

\* js_promise_all_resolve_element: when the count is zero, every element is in
\* its place.
LEMMA FullGroup ==
  ASSUME NEW s, NEW x \in AnyGroup, InPlace(s, x), Counting(x), x.remaining = 0
  PROVE  Filled(x)
<1>1. PICK d \in Nat : d = Cardinality(Done(x))
  BY DoneSize
<1>2. PICK n \in Nat : n = Len(x.items)
  BY DoneSize
<1>3. PICK k \in Nat \ {0} : k = x.next
  BY DoneSize
<1>4. d <= k - 1
  BY <1>1, <1>3, DoneSize
<1>5. 0 = (IF x.open THEN 1 ELSE 0) + (k - 1) - d /\ (~x.open => k = n + 1)
  BY <1>1, <1>2, <1>3 DEF Counting
<1>6. d = n
  BY <1>4, <1>5
<1> QED
  BY <1>1, <1>2, <1>6, DoneSize

\* What Promise.all and its kin answer by themselves.
Verdict(x) == IF x.magic = "any" THEN Reason(Error) ELSE Value(List)

\* The last element function, or the end of the loop, settles the promise of
\* the group with the array, or with the error of Promise.any.
LEMMA GroupEndRight ==
  ASSUME NEW s, Sound(s), NEW g \in Gr(s), s.groups[g].magic # "race", Filled(s.groups[g]),
         NEW o, o = Verdict(s.groups[g]),
         NEW t, t = js_promise_resolve_function_call(s, s.groups[g].pair, o)
  PROVE  Advances(s, s.jobs, t)
<1>1. PICK r : r = s.groups[g].pair
  OBVIOUS
<1>2. PICK x : x = s.groups[g]
  OBVIOUS
<1>3. r \in Pa(s) /\ RightGroup(s, x)
  BY <1>1, <1>2 DEF Sound, Good, OkGroups, Right, RGroups
<1>4. o \in PlainO /\ o # Pending
  <2>1. Error \in Plain /\ List \in Plain
    BY PromiseAssumption
  <2>2. o = Reason(Error) \/ o = Value(List)
    BY DEF Verdict
  <2>3. Reason(Error) \in PlainO /\ Value(List) \in PlainO
    BY <2>1 DEF PlainO, Value, Reason
  <2> QED
    BY <2>2, <2>3, PlainNotPending
<1>5. Answers(s, x, o)
  BY <1>2, <1>4 DEF Answers, Verdict
<1>6. \A h \in Gr(s) : s.groups[h].pair = r => h = g
  BY <1>1 DEF Sound, Right, RPairs
<1>7. ~Shut(s, r) => Mir(s, Prom(s, r)) = None
  BY <1>1, <1>2, <1>3 DEF RightGroup, Replying
<1>8. ~Shut(s, r) => Suits(s, r, o)
  BY <1>2, <1>5, <1>6, <1>7 DEF Suits
<1>9. Fair(s, r, o)
  BY <1>3, <1>4, <1>8 DEF Fair
<1> QED
  BY <1>1, <1>9, CallRight

\* The end of js_promise_all: the loop is taken off the count.
LEMMA EndItemsRight ==
  ASSUME NEW s, Sound(s), NEW g \in Gr(s), s.groups[g].open, s.groups[g].next > Len(s.groups[g].items),
         NEW t, t = EndItems(s, g)
  PROVE  Advances(s, s.jobs, t)
<1>1. PICK group : group = s.groups[g]
  OBVIOUS
<1>2. /\ Good(s) /\ group \in AnyGroup /\ s \in AnyEngine /\ RightGroup(s, group)
      /\ group.open /\ group.next > Len(group.items)
  BY <1>1 DEF Sound, Good, AnyEngine, Gr, Right, RGroups
<1>3. PICK x : x = [group EXCEPT !.open = FALSE, !.remaining = @ - 1]
  OBVIOUS
<1>4. /\ x \in AnyGroup /\ x.pair = group.pair /\ x.items = group.items /\ x.magic = group.magic
      /\ x.values = group.values /\ x.called = group.called /\ x.next = group.next /\ ~x.open
      /\ x.remaining = group.remaining - 1
  <2>1. group.remaining - 1 \in Int
    BY <1>2 DEF AnyGroup
  <2> QED
    BY <1>2, <1>3, <2>1 DEF AnyGroup
<1>5. PICK u : u = [s EXCEPT !.groups = [@ EXCEPT ![g] = x]]
  OBVIOUS
<1>6. u = [s EXCEPT !.groups[g].open = FALSE, !.groups[g].remaining = @ - 1]
  BY <1>1, <1>2, <1>3, <1>5 DEF AnyEngine, Gr
<1>7. Recounts(s, g, x, u)
  BY <1>1, <1>2, <1>4, <1>5 DEF Recounts
<1>8. Done(x) = Done(group) /\ (Filled(x) <=> Filled(group))
  BY <1>4 DEF Done, Filled
<1>9. InPlace(s, x)
  BY <1>2, <1>4, <1>8 DEF RightGroup, InPlace
<1>10. Replying(s, x)
  BY <1>2, <1>4, <1>8 DEF RightGroup, Replying, Answers
<1>11. Counting(x)
  <2>1. PICK d \in Nat : d = Cardinality(Done(group))
    BY <1>2, DoneSize DEF RightGroup
  <2>2. PICK n \in Nat : n = Len(group.items)
    BY <1>2, DoneSize DEF RightGroup
  <2>3. PICK k \in Nat : k = group.next
    BY <1>2, DoneSize DEF RightGroup
  <2>4. group.remaining = 1 + (k - 1) - d /\ k <= n + 1 /\ k > n
    BY <1>2, <2>1, <2>2, <2>3 DEF RightGroup, Counting
  <2>5. x.remaining = 0 + (k - 1) - d /\ k = n + 1
    BY <1>4, <2>4
  <2> QED
    BY <1>4, <1>8, <2>1, <2>2, <2>3, <2>4, <2>5 DEF Counting
<1>12. group.next <= x.next
  <2>1. group.next \in Nat
    BY <1>2, DoneSize DEF RightGroup
  <2> QED
    BY <1>4, <2>1
<1>13. RightGroup(s, x)
  BY <1>9, <1>10, <1>11 DEF RightGroup
<1>14. Advances(s, s.jobs, u) /\ u.groups[g] = x /\ Gr(u) = Gr(s)
  BY <1>1, <1>4, <1>7, <1>12, <1>13, RecountRight
<1>15. CASE group.magic # "race" /\ group.remaining = 1
  <2>1. PICK o : o = Verdict(x)
    OBVIOUS
  <2>2. t = js_promise_resolve_function_call(u, u.groups[g].pair, o)
    BY <1>1, <1>4, <1>6, <1>14, <1>15, <2>1 DEF EndItems, Verdict
  <2>3. Filled(x)
    BY <1>4, <1>9, <1>11, <1>15, FullGroup
  <2>4. Advances(u, u.jobs, t)
    BY <1>4, <1>14, <1>15, <2>1, <2>2, <2>3, GroupEndRight DEF Advances
  <2> QED
    BY <1>2, <1>14, <2>4, AdvancesTrans
<1>16. CASE ~(group.magic # "race" /\ group.remaining = 1)
  <2>1. t = u
    BY <1>1, <1>6, <1>16 DEF EndItems
  <2> QED
    BY <1>14, <2>1
<1> QED
  BY <1>15, <1>16

\* Element i of group x, whose item is q: in its place from now on.
LEMMA PlaceElement ==
  ASSUME NEW s, NEW x \in AnyGroup, InPlace(s, x), Counting(x), NEW i \in 1 .. Len(x.items), i < x.next,
         NEW o \in PlainO, o = Out(s, x.items[i]), x.magic \in Counted(o.reject), <<i, o.reject>> \notin x.called,
         NEW y \in AnyGroup, y.items = x.items, y.magic = x.magic, y.next = x.next, y.open = x.open,
         y.called = x.called \cup {<<i, o.reject>>}, y.values = [x.values EXCEPT ![i] = o],
         y.remaining = x.remaining - 1
  PROVE  InPlace(s, y) /\ Counting(y) /\ (Filled(x) => Filled(y))
<1>1. o # Pending
  BY PlainNotPending
<1>2. Len(x.values) = Len(x.items) /\ x.values \in Seq(AnyOutcome) /\ o \in AnyOutcome
  BY PlainOk DEF InPlace, AnyGroup, OkOutcome
<1>3. PICK n \in Nat : n = Len(x.items)
  BY DoneSize
<1>4. /\ Len(y.values) = n /\ y.values[i] = o
      /\ \A j \in 1 .. n : j # i => y.values[j] = x.values[j]
  BY <1>2, <1>3, SeqExcept
<1>5. Done(y) = Done(x) \cup {i}
  BY <1>1, <1>3, <1>4 DEF Done
<1>6. i \notin Done(x)
  BY DEF InPlace
<1>7. InPlace(s, y)
  BY <1>3, <1>4, <1>5 DEF InPlace, Done
<1>8. Cardinality(Done(y)) = Cardinality(Done(x)) + 1
  <2>1. IsFiniteSet(Done(x))
    BY DoneSize
  <2> QED
    BY <1>5, <1>6, <2>1, FS_AddElement
<1>9. Counting(y)
  <2>1. PICK d \in Nat : d = Cardinality(Done(x))
    BY DoneSize
  <2>2. PICK k \in Nat : k = x.next
    BY DoneSize
  <2>3. x.remaining = (IF x.open THEN 1 ELSE 0) + (k - 1) - d /\ x.remaining \in Int
    BY <2>1, <2>2, DoneSize DEF Counting
  <2>4. y.remaining = (IF x.open THEN 1 ELSE 0) + (k - 1) - (d + 1)
    BY <2>3
  <2> QED
    BY <1>8, <2>1, <2>2, <2>4 DEF Counting
<1> QED
  BY <1>1, <1>3, <1>4, <1>7, <1>9 DEF Filled

-----------------------------------------------------------------------------
(* The combinators *)

\* A reaction with this handler does what is right.
Does(s, q, b, h, cap) ==
  /\ h.kind = "resolve" => ~b /\ Copies(s, q, b, h.of)
  /\ h.kind = "reject" => b /\ Copies(s, q, b, h.of)
  /\ h.kind = "element" => Counts(s, q, b, h.of)
  /\ h.kind = "thunk" => Repeats(s, cap, h.of)
  /\ h.kind # "thunk" => cap = None \/ Free(s, cap)

\* perform_promise_then: it is enough to look at the handlers.
LEMMA DoesApt ==
  ASSUME NEW s, NEW p \in Pr(s), NEW f, NEW g, NEW cap,
         Out(s, p) = Pending \/ ~Out(s, p).reject => Does(s, p, FALSE, f, cap),
         Out(s, p) = Pending \/ Out(s, p).reject => Does(s, p, TRUE, g, cap)
  PROVE  Apt(s, p, f, g, cap)
<1> SUFFICES ASSUME NEW b \in BOOLEAN, Out(s, p) = Pending \/ Out(s, p).reject = b
             PROVE  RightFor(s, p, b, NewReaction(s, p, f, g, cap, b))
  BY DEF Apt
<1>1. PICK h : h = IF b THEN g ELSE f
  OBVIOUS
<1>2. Does(s, p, b, h, cap)
  <2>1. CASE b = TRUE
    BY <1>1, <2>1
  <2>2. CASE b = FALSE
    BY <1>1, <2>2
  <2> QED
    BY <2>1, <2>2
<1>3. PICK n : n = s.promises[p].thens + 1
  OBVIOUS
<1>4. PICK x : x = Reaction(p, n, cap, h)
  OBVIOUS
<1>5. x.on = p /\ x.cap = cap /\ x.handler = h
  BY <1>4 DEF Reaction
<1>6. RightFor(s, p, b, x)
  BY <1>2, <1>5 DEF RightFor, Does
<1> QED
  BY <1>1, <1>3, <1>4, <1>6 DEF NewReaction

\* A turn of the loop of js_promise_all: the functions it hands to then are
\* the right ones for the item.
LEMMA AddItemRight ==
  ASSUME NEW s, Sound(s), NEW g \in Gr(s), s.groups[g].next <= Len(s.groups[g].items),
         NEW t, t = AddItem(s, g)
  PROVE  Advances(s, s.jobs, t)
<1>1. PICK group : group = s.groups[g]
  OBVIOUS
<1>2. Good(s) /\ group \in AnyGroup /\ s \in AnyEngine /\ RightGroup(s, group)
  BY <1>1 DEF Sound, Good, AnyEngine, Gr, Right, RGroups
<1>3. PICK k \in Nat \ {0} : k = group.next
  BY <1>2 DEF AnyGroup
<1>3a. PICK n \in Nat : n = Len(group.items)
  BY <1>2 DEF AnyGroup
<1>3b. k <= n /\ group.remaining \in Int /\ group.magic \in Combinators
  BY <1>1, <1>2, <1>3, <1>3a DEF AnyGroup
<1>4. k \in 1 .. n
  BY <1>3, <1>3b
<1>5. PICK p : p = group.items[k]
  OBVIOUS
<1>6. p \in Pr(s) /\ group.pair \in Pa(s)
  BY <1>1, <1>2, <1>3a, <1>4, <1>5 DEF Good, OkGroups
<1>7. PICK x : x = [group EXCEPT !.next = @ + 1, !.remaining = @ + 1]
  OBVIOUS
<1>8. /\ x \in AnyGroup /\ x.pair = group.pair /\ x.items = group.items /\ x.magic = group.magic
      /\ x.values = group.values /\ x.called = group.called /\ x.next = k + 1 /\ x.open = group.open
      /\ x.remaining = group.remaining + 1
  <2>1. group.next + 1 \in Nat \ {0} /\ group.remaining + 1 \in Int
    BY <1>3, <1>3b
  <2> QED
    BY <1>2, <1>3, <1>7, <2>1 DEF AnyGroup
<1>9. PICK u : u = [s EXCEPT !.groups = [@ EXCEPT ![g] = x]]
  OBVIOUS
<1>10. u = [s EXCEPT !.groups[g].next = @ + 1, !.groups[g].remaining = @ + 1]
  BY <1>1, <1>2, <1>7, <1>9 DEF AnyEngine, Gr
<1>11. Recounts(s, g, x, u)
  BY <1>1, <1>2, <1>8, <1>9 DEF Recounts
<1>12. Good(u) /\ Gr(u) = Gr(s) /\ Pr(u) = Pr(s) /\ Pa(u) = Pa(s)
  BY <1>11, GroupOk
<1>13. Done(x) = Done(group) /\ (Filled(x) <=> Filled(group))
  BY <1>8 DEF Done, Filled
<1>14. InPlace(s, x)
  <2>1. \A i \in 1 .. n : i < k => i < k + 1
    OBVIOUS
  <2> QED
    BY <1>2, <1>3, <1>3a, <1>8, <1>13, <2>1 DEF RightGroup, InPlace, Done
<1>15. Replying(s, x)
  BY <1>2, <1>8, <1>13 DEF RightGroup, Replying, Answers
<1>16. Counting(x)
  <2>1. PICK d \in Nat : d = Cardinality(Done(group))
    BY <1>2, DoneSize DEF RightGroup
  <2>2. /\ group.remaining = (IF group.open THEN 1 ELSE 0) + (k - 1) - d
        /\ ~group.open => k = n + 1
    BY <1>2, <1>3, <1>3a, <2>1 DEF RightGroup, Counting
  <2>3. x.remaining = (IF group.open THEN 1 ELSE 0) + ((k + 1) - 1) - d /\ group.open /\ k + 1 <= n + 1
    BY <1>3b, <1>8, <2>2
  <2> QED
    BY <1>3a, <1>8, <1>13, <2>1, <2>3 DEF Counting
<1>17. group.next <= x.next
  BY <1>3, <1>8
<1>18. RightGroup(s, x)
  BY <1>14, <1>15, <1>16 DEF RightGroup
<1>19. Advances(s, s.jobs, u) /\ u.groups[g] = x
  BY <1>1, <1>8, <1>11, <1>17, <1>18, RecountRight
<1>20. PICK h : h = <<g, k>>
  OBVIOUS
<1>21. PICK e : e = Handler("element", h)
  OBVIOUS
<1>22. PICK v : v = Handler("resolve", group.pair)
  OBVIOUS
<1>23. PICK w : w = Handler("reject", group.pair)
  OBVIOUS
<1>24. PICK f : f = IF group.magic \in {"all", "allSettled"} THEN e ELSE v
  OBVIOUS
<1>25. PICK j : j = IF group.magic \in {"any", "allSettled"} THEN e ELSE w
  OBVIOUS
<1>26. g \in Gr(u) /\ g \in Nat /\ k \in Nat /\ group.pair \in Pa(u)
  BY <1>6, <1>12 DEF Gr
<1>27. /\ OkHandler(u, e) /\ ~IsWaker(e) /\ OkHandler(u, v) /\ ~IsWaker(v) /\ OkHandler(u, w) /\ ~IsWaker(w)
  BY <1>12, <1>20, <1>21, <1>22, <1>23, <1>26, HandlersOk
<1>28. t = perform_promise_then(u, p, f, j, None)
  BY <1>1, <1>3, <1>5, <1>10, <1>20, <1>21, <1>22, <1>23, <1>24, <1>25 DEF AddItem
<1>29. Registers(u, p, f, j, None, t)
  BY <1>6, <1>12, <1>24, <1>25, <1>27, <1>28 DEF Registers
<1>30. h[1] = g /\ h[2] = k /\ h \in Nat \X Nat
  BY <1>20, <1>26
<1>31. ASSUME NEW b, group.magic \in Counted(b) PROVE Does(u, p, b, e, None)
  <2>1. e.kind = "element" /\ e.of = h
    BY <1>21 DEF Handler
  <2>2. k < x.next
    BY <1>8
  <2>3. Counts(u, p, b, h)
    BY <1>3a, <1>4, <1>5, <1>8, <1>19, <1>26, <1>30, <1>31, <2>2 DEF Counts
  <2> QED
    BY <2>1, <2>3 DEF Does
<1>32. ASSUME NEW b, group.magic \in Direct(b) PROVE Copies(u, p, b, group.pair)
  <2>1. Item(x, p)
    BY <1>3a, <1>4, <1>5, <1>8 DEF Item
  <2> QED
    BY <1>8, <1>19, <1>26, <1>32, <2>1 DEF Copies
<1>33. Does(u, p, FALSE, f, None)
  <2>1. CASE group.magic \in Counted(FALSE)
    BY <1>24, <1>31, <2>1 DEF Counted
  <2>2. CASE group.magic \notin Counted(FALSE)
    <3>1. group.magic \in Direct(FALSE) /\ f = v
      BY <1>3b, <1>24, <2>2 DEF Counted, Direct, Combinators
    <3>2. f.kind = "resolve" /\ f.of = group.pair
      BY <1>22, <3>1 DEF Handler
    <3> QED
      BY <1>32, <3>1, <3>2 DEF Does
  <2> QED
    BY <2>1, <2>2
<1>34. Does(u, p, TRUE, j, None)
  <2>1. CASE group.magic \in Counted(TRUE)
    BY <1>25, <1>31, <2>1 DEF Counted
  <2>2. CASE group.magic \notin Counted(TRUE)
    <3>1. group.magic \in Direct(TRUE) /\ j = w
      BY <1>3b, <1>25, <2>2 DEF Counted, Direct, Combinators
    <3>2. j.kind = "reject" /\ j.of = group.pair
      BY <1>23, <3>1 DEF Handler
    <3> QED
      BY <1>32, <3>1, <3>2 DEF Does
  <2> QED
    BY <2>1, <2>2
<1>35. Apt(u, p, f, j, None)
  BY <1>6, <1>12, <1>33, <1>34, DoesApt
<1>36. Advances(u, u.jobs, t)
  BY <1>19, <1>29, <1>35, RegisterRight DEF Advances
<1> QED
  BY <1>2, <1>19, <1>36, AdvancesTrans

\* js_promise_all_resolve_element: the outcome of the item is put in its place
\* once, and the last one is for the whole group.
LEMMA ElementRight ==
  ASSUME NEW s, Sound(s), NEW q \in Pr(s), NEW o \in PlainO, o = Out(s, q),
         NEW g, NEW i, Counts(s, q, o.reject, <<g, i>>),
         NEW t, t = js_promise_all_resolve_element(s, g, i, o)
  PROVE  Advances(s, s.jobs, t)
<1>0. /\ g \in Gr(s) /\ i \in 1 .. Len(s.groups[g].items) /\ i < s.groups[g].next
      /\ s.groups[g].items[i] = q /\ s.groups[g].magic \in Counted(o.reject) /\ i \in Nat
  <2>1. PICK h : h = <<g, i>>
    OBVIOUS
  <2>2. h[1] = g /\ h[2] = i
    BY <2>1
  <2> QED
    BY <2>1, <2>2 DEF Counts
<1>1. PICK group : group = s.groups[g]
  OBVIOUS
<1>2. Good(s) /\ group \in AnyGroup /\ s \in AnyEngine /\ RightGroup(s, group) /\ o \in AnyOutcome
  <2>1. OkOutcome(s, o)
    BY PlainOk
  <2>2. Good(s) /\ RightGroup(s, group)
    BY <1>0, <1>1 DEF Sound, Right, RGroups
  <2> QED
    BY <1>0, <1>1, <2>1, <2>2 DEF Good, AnyEngine, Gr, OkOutcome
<1>3. CASE <<i, o.reject>> \in group.called
  <2>1. t = s
    BY <1>1, <1>3 DEF js_promise_all_resolve_element
  <2> QED
    BY <2>1, AdvancesSame
<1>4. CASE <<i, o.reject>> \notin group.called
  <2>1. PICK vs : vs = [group.values EXCEPT ![i] = o]
    OBVIOUS
  <2>2. vs \in Seq(AnyOutcome)
    BY <1>0, <1>1, <1>2, <2>1, SeqExcept DEF AnyGroup, RightGroup, InPlace
  <2>3. PICK cs : cs = group.called \cup {<<i, o.reject>>}
    OBVIOUS
  <2>4. cs \in SUBSET (Nat \X BOOLEAN)
    BY <1>0, <1>2, <2>3 DEF AnyGroup, AnyOutcome
  <2>5. PICK x : x = [group EXCEPT !.called = cs, !.values = vs, !.remaining = @ - 1]
    OBVIOUS
  <2>6. /\ x \in AnyGroup /\ x.pair = group.pair /\ x.items = group.items /\ x.magic = group.magic
        /\ x.next = group.next /\ x.open = group.open /\ x.called = cs /\ x.values = vs
        /\ x.remaining = group.remaining - 1
    <3>1. group.remaining - 1 \in Int
      BY <1>2 DEF AnyGroup
    <3> QED
      BY <1>2, <2>2, <2>4, <2>5, <3>1 DEF AnyGroup
  <2>7. PICK u : u = [s EXCEPT !.groups = [@ EXCEPT ![g] = x]]
    OBVIOUS
  <2>8. u = [s EXCEPT !.groups[g].called = @ \cup {<<i, o.reject>>},
                      !.groups[g].values[i] = o,
                      !.groups[g].remaining = @ - 1]
    <3>1. u = [s EXCEPT !.groups[g].called = cs, !.groups[g].values = vs, !.groups[g].remaining = @ - 1]
      BY <1>0, <1>1, <1>2, <2>5, <2>7 DEF AnyEngine, Gr
    <3> QED
      BY <1>0, <1>1, <1>2, <2>1, <2>3, <3>1, SMTT(30) DEF AnyEngine, Gr
  <2>9. Recounts(s, g, x, u)
    BY <1>0, <1>1, <1>2, <2>6, <2>7 DEF Recounts
  <2>10. InPlace(s, x) /\ Counting(x) /\ (Filled(group) => Filled(x))
    <3>1. /\ InPlace(s, group) /\ Counting(group) /\ i \in 1 .. Len(group.items) /\ i < group.next
          /\ o = Out(s, group.items[i]) /\ group.magic \in Counted(o.reject)
      BY <1>0, <1>1, <1>2 DEF RightGroup
    <3> QED
      BY <1>2, <1>4, <2>1, <2>3, <2>6, <3>1, PlaceElement
  <2>11. Replying(s, x)
    BY <1>2, <2>6, <2>10 DEF RightGroup, Replying, Answers
  <2>12. s.groups[g].next <= x.next
    <3>1. group.next \in Nat
      BY <1>2 DEF AnyGroup
    <3> QED
      BY <1>1, <2>6, <3>1
  <2>13. RightGroup(s, x)
    BY <2>10, <2>11 DEF RightGroup
  <2>14. Advances(s, s.jobs, u) /\ u.groups[g] = x /\ Gr(u) = Gr(s)
    BY <1>1, <2>6, <2>9, <2>12, <2>13, RecountRight
  <2>15. CASE group.remaining = 1
    <3>1. PICK c : c = Verdict(x)
      OBVIOUS
    <3>2. t = js_promise_resolve_function_call(u, u.groups[g].pair, c)
      BY <1>1, <1>4, <2>6, <2>8, <2>14, <2>15, <3>1 DEF js_promise_all_resolve_element, Verdict
    <3>3. Filled(x)
      BY <2>6, <2>10, <2>15, FullGroup
    <3>4. x.magic # "race"
      BY <1>0, <1>1, <2>6 DEF Counted
    <3>5. Advances(u, u.jobs, t)
      BY <1>0, <2>14, <3>1, <3>2, <3>3, <3>4, GroupEndRight DEF Advances
    <3> QED
      BY <1>2, <2>14, <3>5, AdvancesTrans
  <2>16. CASE group.remaining # 1
    <3>1. t = u
      BY <1>1, <1>4, <2>8, <2>16 DEF js_promise_all_resolve_element
    <3> QED
      BY <2>14, <3>1
  <2> QED
    BY <2>15, <2>16
<1> QED
  BY <1>3, <1>4

\* js_promise_all and js_promise_race, up to their loop: the promise of the
\* group is its own.
LEMMA AllRight ==
  ASSUME NEW s, Sound(s), NEW magic \in Combinators, NEW items \in Seq(Pr(s)),
         NEW t, t = js_promise_all(s, magic, items)
  PROVE  Advances(s, s.jobs, t)
<1>0. Good(s) /\ Right(s) /\ s \in AnyEngine /\ s.groups \in Seq(AnyGroup)
  BY DEF Sound, Good, AnyEngine
<1>1. PICK u : u = js_new_promise_capability(s)
  OBVIOUS
<1>2. PICK n \in Nat : n = Len(s.promises)
  BY <1>0 DEF AnyEngine
<1>3. PICK k \in Nat : k = Len(s.pairs)
  BY <1>0 DEF AnyEngine
<1>4. AfterNew(s, None, n, k, u) /\ Good(u) /\ u.groups = s.groups /\ NewestPair(u) = k + 1
  BY <1>0, <1>1, <1>2, <1>3, NewIs
<1>5. PICK r : r = k + 1
  OBVIOUS
<1>6. PICK x : x = NewGroup(magic, items, r)
  OBVIOUS
<1>7. PICK v : v = [i \in DOMAIN items |-> Pending]
  OBVIOUS
<1>8. PICK m \in Nat : m = Len(items) /\ DOMAIN items = 1 .. m
  OBVIOUS
<1>9. Len(v) = m /\ \A i \in 1 .. m : v[i] = Pending
  BY <1>7, <1>8
<1>10. x = [magic |-> magic, items |-> items, pair |-> r, called |-> {},
            values |-> v, remaining |-> 1, next |-> 1, open |-> TRUE]
  BY <1>6, <1>7 DEF NewGroup
<1>11. /\ x.magic = magic /\ x.items = items /\ x.pair = r /\ x.called = {} /\ x.values = v
       /\ x.remaining = 1 /\ x.next = 1 /\ x.open = TRUE
  BY <1>10
<1>12. PICK G : G = Append(s.groups, x)
  OBVIOUS
<1>13. t = [u EXCEPT !.groups = G]
  BY <1>1, <1>4, <1>5, <1>6, <1>12 DEF js_promise_all
<1>14. /\ t.groups = G /\ t.promises = u.promises /\ t.pairs = u.pairs /\ t.jobs = u.jobs /\ t.asyncs = u.asyncs
  BY <1>4, <1>13 DEF Good, AnyEngine
<1>15. Good(t)
  BY <1>0, AllOk
<1>16. AfterNew(s, None, n, k, t)
  BY <1>4, <1>14 DEF AfterNew, Pr, Pa, Out, Mir, Prom, Shut
<1>17. PICK z \in Nat : z = Len(s.groups)
  BY <1>0
<1>18. Len(G) = z + 1 /\ G[z + 1] = x /\ \A j \in 1 .. z : G[j] = s.groups[j]
  BY <1>0, <1>12, <1>17
<1>19. Gr(s) = 1 .. z /\ Gr(t) = 1 .. z + 1
  BY <1>14, <1>17, <1>18 DEF Gr
<1>20. Gr(s) \subseteq Gr(t) /\ (\A g \in Gr(s) : t.groups[g] = s.groups[g])
       /\ (\A g \in Gr(t) : g \in Gr(s) \/ g = z + 1) /\ t.groups[z + 1] = x
  BY <1>14, <1>18, <1>19
<1>21. Onward(s, t) /\ Delivers(s, s.jobs, t)
  BY <1>0, <1>5, <1>11, <1>15, <1>16, <1>20, NewOnward
<1>22. CPromises(s, t) /\ CJobs(s, t) /\ CAsyncs(s, t)
  BY <1>0, <1>15, <1>16, <1>21, NewCarries
<1>23. CPairs(s, t)
  BY <1>20 DEF CPairs
<1>24. Done(x) = {}
  BY <1>8, <1>9, <1>11 DEF Done
<1>25. RightGroup(t, x)
  <2>1. InPlace(t, x)
    BY <1>8, <1>9, <1>11, <1>24 DEF InPlace
  <2>2. Counting(x)
    <3>1. x.remaining = 1 + (1 - 1) - 0 /\ 1 <= m + 1
      BY <1>11
    <3> QED
      BY <1>8, <1>11, <1>24, <3>1, FS_EmptySet DEF Counting
  <2>3. Replying(t, x)
    BY <1>5, <1>11, <1>16 DEF Replying, AfterNew
  <2> QED
    BY <2>1, <2>2, <2>3 DEF RightGroup
<1>26. CGroups(s, t)
  <2>1. ASSUME NEW g \in Gr(s) PROVE SameG(s, t, g)
    <3>1. s.groups[g].pair \in Pa(s) /\ Prom(s, s.groups[g].pair) \in Pr(s)
      BY <1>0, GroupThere
    <3> QED
      BY <1>16, <1>20, <3>1 DEF SameG, AfterNew, Shut, Out
  <2> QED
    BY <1>20, <1>25, <2>1 DEF CGroups
<1>27. Right(t)
  BY <1>0, <1>15, <1>21, <1>22, <1>23, <1>26, CarryRight
<1> QED
  BY <1>15, <1>21, <1>27 DEF Advances, Sound

-----------------------------------------------------------------------------
(* Promise.resolve, then and finally *)

\* A pair that may be called with anything is called with a value that is there.
LEMMA FreeFair ==
  ASSUME NEW s, NEW r, Free(s, r), NEW c, Clean(c), OkOutcome(s, c)
  PROVE  Fair(s, r, c)
BY DEF Free, Fair, OkOutcome

\* js_promise_resolve: the promise it returns has the value, if that has no
\* then method.
LEMMA ResolveRight ==
  ASSUME NEW s, Sound(s), NEW c, Clean(c), OkOutcome(s, c), NEW x, x = js_promise_resolve(s, c)
  PROVE  Advances(s, s.jobs, x[1]) /\ x[2] \in Pr(x[1]) /\ (c \in PlainO => Out(x[1], x[2]) = c)
<1>0. Good(s)
  BY DEF Sound
<1>1. CASE ~c.reject /\ IsPromise(c.value)
  <2>1. PICK v : v = c.value
    OBVIOUS
  <2>2. x = <<s, v>>
    BY <1>1, <2>1 DEF js_promise_resolve
  <2>3. x[1] = s /\ x[2] = v
    BY <2>2
  <2>4. v \in Pr(s)
    BY <1>1, <2>1 DEF IsPromise, Promises, OkOutcome
  <2>5. c \notin PlainO
    BY <1>1, PromiseAssumption DEF PlainO, IsPromise, Promises
  <2> QED
    BY <2>3, <2>4, <2>5, AdvancesSame
<1>2. CASE ~(~c.reject /\ IsPromise(c.value))
  <2>1. PICK t : t = js_new_promise_capability(s)
    OBVIOUS
  <2>2. PICK n \in Nat : n = Len(s.promises)
    BY <1>0 DEF Good, AnyEngine
  <2>3. PICK k \in Nat : k = Len(s.pairs)
    BY <1>0 DEF Good, AnyEngine
  <2>4. AfterNew(s, None, n, k, t) /\ Good(t) /\ t.groups = s.groups /\ NewestPair(t) = k + 1 /\ Newest(t) = n + 1
    BY <1>0, <2>1, <2>2, <2>3, NewIs
  <2>5. /\ Advances(s, s.jobs, t) /\ n + 1 \in Pr(t) /\ Prom(t, k + 1) = n + 1
        /\ ~Shut(t, k + 1) /\ Free(t, k + 1)
    <3>1. Advances(s, s.jobs, t) /\ n + 1 \in Pr(t) /\ Free(t, k + 1)
      BY <2>4, NewRight
    <3> QED
      BY <2>4, <3>1 DEF AfterNew
  <2>6. PICK u : u = js_promise_resolve_function_call(t, k + 1, c)
    OBVIOUS
  <2>7. x = <<u, n + 1>>
    BY <1>2, <2>1, <2>4, <2>6 DEF js_promise_resolve
  <2>8. x[1] = u /\ x[2] = n + 1
    BY <2>7
  <2>9. OkOutcome(t, c)
    BY <2>5 DEF OkOutcome, Advances, Onward
  <2>10. Fair(t, k + 1, c) /\ Sound(t)
    BY <2>5, <2>9, FreeFair DEF Advances
  <2>11. Advances(t, t.jobs, u) /\ (c \in PlainO => Out(u, n + 1) = c)
    BY <2>5, <2>6, <2>10, CallRight
  <2>12. Advances(s, s.jobs, u)
    BY <1>0, <2>5, <2>11, AdvancesTrans
  <2>13. n + 1 \in Pr(u)
    BY <2>5, <2>11 DEF Advances, Onward
  <2> QED
    BY <2>8, <2>11, <2>12, <2>13
<1> QED
  BY <1>1, <1>2

\* The end of a reaction job.
LEMMA CompleteRight ==
  ASSUME NEW s, Sound(s), NEW cap, cap = None \/ Free(s, cap), NEW c, Clean(c), OkOutcome(s, c),
         NEW t, t = Complete(s, cap, c)
  PROVE  Advances(s, s.jobs, t)
<1>1. CASE cap = None
  BY <1>1, AdvancesSame DEF Complete
<1>2. CASE cap # None
  BY <1>2, FreeFair, CallRight DEF Complete
<1> QED
  BY <1>1, <1>2

\* Handlers that settle nothing by themselves.
Simple(h) == h.kind \notin {"resolve", "reject", "element", "thunk"}

\* They are right for every promise.
LEMMA SimpleApt ==
  ASSUME NEW s, NEW p \in Pr(s), NEW f, Simple(f), NEW g, Simple(g), NEW cap, cap = None \/ Free(s, cap)
  PROVE  Apt(s, p, f, g, cap)
BY DoesApt DEF Simple, Does

\* The handlers of the script and of finally are such, and so are those that
\* resume a function.
LEMMA SimpleKinds ==
  ASSUME NEW k \in {"undefined", "script", "finally", "resume", "generator"}, NEW of
  PROVE  Simple(Handler(k, of))
BY DEF Simple, Handler

\* js_promise_then.
LEMMA ThenCallRight ==
  ASSUME NEW s, Sound(s), NEW p \in Pr(s), NEW f, OkHandler(s, f), ~IsWaker(f), Simple(f),
         NEW g, OkHandler(s, g), ~IsWaker(g), Simple(g), NEW t, t = js_promise_then(s, p, f, g)
  PROVE  Advances(s, s.jobs, t) /\ Newest(t) = Len(s.promises) + 1
<1>0. Good(s)
  BY DEF Sound
<1>1. PICK u : u = js_new_promise_capability(s)
  OBVIOUS
<1>2. PICK n \in Nat : n = Len(s.promises)
  BY <1>0 DEF Good, AnyEngine
<1>3. PICK k \in Nat : k = Len(s.pairs)
  BY <1>0 DEF Good, AnyEngine
<1>4. AfterNew(s, None, n, k, u) /\ Good(u) /\ u.groups = s.groups /\ NewestPair(u) = k + 1
  BY <1>0, <1>1, <1>2, <1>3, NewIs
<1>5. Advances(s, s.jobs, u) /\ Free(u, k + 1) /\ k + 1 \in Pa(u)
  BY <1>4, NewRight
<1>6. p \in Pr(u)
  BY <1>5 DEF Advances, Onward
<1>7. Quiet(s, u)
  BY <1>0, <1>1, NewOk DEF IsNew
<1>8. OkHandler(u, f) /\ OkHandler(u, g)
  BY <1>0, <1>4, <1>7, Later DEF Quiet
<1>9. t = perform_promise_then(u, p, f, g, k + 1)
  BY <1>1, <1>4 DEF js_promise_then
<1>10. Registers(u, p, f, g, k + 1, t)
  BY <1>4, <1>5, <1>6, <1>8, <1>9 DEF Registers
<1>11. Apt(u, p, f, g, k + 1)
  BY <1>5, <1>6, SimpleApt
<1>12. Advances(u, u.jobs, t) /\ Pr(t) = Pr(u)
  BY <1>5, <1>10, <1>11, RegisterRight DEF Advances
<1>13. Newest(t) = n + 1
  <2>1. PICK l \in Nat : l = Len(t.promises)
    BY <1>12 DEF Advances, Sound, Good, AnyEngine
  <2>2. 1 .. l = 1 .. n + 1
    BY <1>4, <1>12, <2>1 DEF AfterNew, Pr
  <2>3. n + 1 \in 1 .. l
    BY <2>2
  <2>4. l >= n + 1
    BY <2>3
  <2>5. l \in 1 .. n + 1
    BY <2>2, <2>4
  <2> QED
    BY <2>1, <2>4, <2>5 DEF Newest
<1> QED
  BY <1>0, <1>2, <1>5, <1>12, <1>13, AdvancesTrans

\* js_promise_resolve_function_call makes no promise.
LEMMA CallLength ==
  ASSUME NEW s, Good(s), NEW r, NEW c, NEW t, t = js_promise_resolve_function_call(s, r, c)
  PROVE  Len(t.promises) = Len(s.promises)
<1>1. s \in AnyEngine /\ s.promises \in Seq(AnyPromise)
  BY DEF Good, AnyEngine
<1>2. PICK u : u = [s EXCEPT !.pairs[r].resolved = TRUE]
  OBVIOUS
<1>3. u.promises = s.promises
  BY <1>1, <1>2 DEF AnyEngine
<1>4. ASSUME NEW j PROVE Len(JS_EnqueueJob(u, j).promises) = Len(s.promises)
  BY <1>1, <1>2, <1>3 DEF JS_EnqueueJob, AnyEngine
<1>5. ASSUME NEW p, NEW o PROVE Len(fulfill_or_reject_promise(u, p, o).promises) = Len(s.promises)
  BY <1>1, <1>2, <1>3 DEF fulfill_or_reject_promise, AnyEngine
<1> QED
  BY <1>2, <1>4, <1>5 DEF js_promise_resolve_function_call

\* js_promise_resolve makes at most one.
LEMMA ResolveLength ==
  ASSUME NEW s, Good(s), NEW c, NEW x, x = js_promise_resolve(s, c)
  PROVE  Len(x[1].promises) <= Len(s.promises) + 1
<1>0. Len(s.promises) \in Nat
  BY DEF Good, AnyEngine
<1>1. PICK t : t = js_new_promise_capability(s)
  OBVIOUS
<1>2. Good(t) /\ Len(t.promises) = Len(s.promises) + 1
  BY <1>1, NewOk DEF IsNew
<1>3. PICK u : u = js_promise_resolve_function_call(t, NewestPair(t), c)
  OBVIOUS
<1>4. Len(u.promises) = Len(s.promises) + 1
  BY <1>2, <1>3, CallLength
<1>5. x[1] = s \/ x[1] = u
  BY <1>1, <1>3 DEF js_promise_resolve
<1> QED
  BY <1>0, <1>4, <1>5

\* js_promise_then_finally_func, once its function returned a value without a
\* then method: the outcome it repeats is that of the first promise, whatever
\* happens in between.
LEMMA ThunkApt ==
  ASSUME NEW s, NEW q \in Pr(s), NEW c \in PlainO, ~c.reject, Out(s, q) = c,
         NEW r \in Pa(s), ~OfGroup(s, r), NEW m \in Pr(s), Mir(s, Prom(s, r)) = m,
         NEW o \in PlainO, Out(s, m) = o
  PROVE  Apt(s, q, Handler("thunk", o), NoHandler, r)
<1>1. PICK f : f = Handler("thunk", o)
  OBVIOUS
<1>2. f.kind = "thunk" /\ f.of = o
  BY <1>1 DEF Handler
<1>3. Repeats(s, r, o)
  BY DEF Repeats
<1>4. Does(s, q, FALSE, f, r)
  BY <1>2, <1>3 DEF Does
<1>5. c # Pending
  BY PlainNotPending
<1> QED
  BY <1>1, <1>4, <1>5, DoesApt

\* And when it returned anything else: the promise that finally returns is
\* nobody's.
LEMMA ThunkFree ==
  ASSUME NEW s, NEW q \in Pr(s), NEW r, Free(s, r), NEW o \in PlainO
  PROVE  Apt(s, q, Handler("thunk", o), NoHandler, r)
<1>1. PICK f : f = Handler("thunk", o)
  OBVIOUS
<1>2. f.kind = "thunk" /\ f.of = o
  BY <1>1 DEF Handler
<1>3. Does(s, q, FALSE, f, r)
  BY <1>2 DEF Does, Repeats
<1>4. Does(s, q, TRUE, NoHandler, r)
  BY DEF Does, NoHandler, Handler
<1> QED
  BY <1>1, <1>3, <1>4, DoesApt

\* js_promise_then_finally_func.
LEMMA FinallyRight ==
  ASSUME NEW s, Sound(s), NEW reaction, reaction.on \in Pr(s), reaction.cap = None \/ Free(s, reaction.cap),
         NEW o \in PlainO, o = Out(s, reaction.on), NEW c, Clean(c), OkOutcome(s, c),
         c.reject \/ Len(s.promises) + 2 <= MaxPromises,
         NEW t, t = js_promise_then_finally_func(s, reaction, o, c)
  PROVE  Advances(s, s.jobs, t)
<1>0. Good(s)
  BY DEF Sound
<1>1. CASE c.reject
  BY <1>1, CompleteRight DEF js_promise_then_finally_func
<1>2. CASE ~c.reject
  <2>1. PICK x : x = js_promise_resolve(s, c)
    OBVIOUS
  <2>2. PICK a : a = x[1]
    OBVIOUS
  <2>3. PICK q : q = x[2]
    OBVIOUS
  <2>4. Advances(s, s.jobs, a) /\ q \in Pr(a) /\ (c \in PlainO => Out(a, q) = c)
    BY <2>1, <2>2, <2>3, ResolveRight
  <2>5. Good(a) /\ Sound(a) /\ OkOutcome(a, o)
    BY <2>4, PlainOk DEF Advances, Sound
  <2>6. PICK on : on = reaction.on
    OBVIOUS
  <2>7. on \in Pr(a) /\ Out(a, on) = o
    BY <2>4, <2>6, PlainNotPending DEF Advances, Onward
  <2>8. PICK b : b = js_new_promise_capability(a)
    OBVIOUS
  <2>9. PICK n \in Nat : n = Len(a.promises)
    BY <2>5 DEF Good, AnyEngine
  <2>10. PICK k \in Nat : k = Len(a.pairs)
    BY <2>5 DEF Good, AnyEngine
  <2>11. AfterNew(a, None, n, k, b) /\ Good(b) /\ b.groups = a.groups /\ NewestPair(b) = k + 1 /\ Newest(b) = n + 1
    BY <2>5, <2>8, <2>9, <2>10, NewIs
  <2>12. PICK d : d = IF c.value \in Plain THEN [b EXCEPT !.promises[n + 1].mirrors = on] ELSE b
    OBVIOUS
  <2>13. PICK m : m = IF c.value \in Plain THEN on ELSE None
    OBVIOUS
  <2>14. AfterNew(a, m, n, k, d) /\ Good(d) /\ d.groups = a.groups
    <3>1. CASE c.value \in Plain
      <4>1. n + 1 \in Pr(b) /\ on \in Nat
        BY <2>7, <2>11 DEF AfterNew, Pr
      <4>2. d = [b EXCEPT !.promises[n + 1].mirrors = on]
        BY <2>12, <3>1
      <4>3. Good(d) /\ AfterMirror(b, n + 1, on, d)
        BY <2>11, <4>1, <4>2, MirrorIs
      <4>4. \A p \in 1 .. n : p # n + 1 /\ p \in Pr(b)
        BY <2>11 DEF AfterNew
      <4>5. AfterNew(a, on, n, k, d) /\ d.groups = a.groups
        BY <2>11, <4>3, <4>4 DEF AfterNew, AfterMirror, Pa, Prom, Shut
      <4> QED
        BY <2>13, <3>1, <4>3, <4>5
    <3>2. CASE c.value \notin Plain
      BY <2>11, <2>12, <2>13, <3>2
    <3> QED
      BY <3>1, <3>2
  <2>15. m = None \/ m \in Pr(a)
    BY <2>7, <2>13
  <2>16. /\ Advances(a, a.jobs, d) /\ n + 1 \in Pr(d) /\ k + 1 \in Pa(d) /\ Prom(d, k + 1) = n + 1
         /\ ~OfGroup(d, k + 1) /\ Mir(d, n + 1) = m /\ (m = None => Free(d, k + 1))
    <3>1. Advances(a, a.jobs, d) /\ n + 1 \in Pr(d) /\ k + 1 \in Pa(d) /\ ~OfGroup(d, k + 1)
      BY <2>5, <2>14, <2>15, NewRight
    <3>2. m = None => Free(d, k + 1)
      BY <2>5, <2>14, <2>15, NewRight
    <3> QED
      BY <2>14, <3>1, <3>2 DEF AfterNew
  <2>17. q \in Pr(d) /\ on \in Pr(d) /\ Out(d, on) = o /\ (c \in PlainO => Out(d, q) = c)
    BY <2>4, <2>7, <2>16, PlainNotPending DEF Advances, Onward
  <2>18. PICK r : r = k + 1
    OBVIOUS
  <2>19. PICK f : f = Handler("thunk", o)
    OBVIOUS
  <2>20. Apt(d, q, f, NoHandler, r)
    <3>1. CASE c.value \in Plain
      <4>1. c \in PlainO
        BY <3>1 DEF PlainO, Clean
      <4>2. m = on /\ Mir(d, Prom(d, r)) = on /\ r \in Pa(d) /\ ~OfGroup(d, r)
        BY <2>13, <2>16, <2>18, <3>1
      <4> QED
        BY <1>2, <2>17, <2>19, <4>1, <4>2, ThunkApt
    <3>2. CASE c.value \notin Plain
      <4>1. Free(d, r)
        BY <2>13, <2>16, <2>18, <3>2
      <4> QED
        BY <2>17, <2>19, <4>1, ThunkFree
    <3> QED
      BY <3>1, <3>2
  <2>21. OkHandler(d, f) /\ ~IsWaker(f) /\ OkHandler(d, NoHandler) /\ ~IsWaker(NoHandler)
    BY <2>14, <2>19, PlainOk, HandlersOk DEF NoHandler
  <2>22. PICK e : e = perform_promise_then(d, q, f, NoHandler, r)
    OBVIOUS
  <2>23. Registers(d, q, f, NoHandler, r, e)
    BY <2>14, <2>16, <2>17, <2>18, <2>21, <2>22 DEF Registers
  <2>24. Advances(d, d.jobs, e) /\ Pr(e) = Pr(d)
    BY <2>16, <2>20, <2>23, RegisterRight DEF Advances
  <2>25. PICK v : v = Value(n + 1)
    OBVIOUS
  <2>26. t = Complete(e, reaction.cap, v)
    BY <1>2, <2>1, <2>2, <2>3, <2>6, <2>8, <2>11, <2>12, <2>18, <2>19, <2>22, <2>25
       DEF js_promise_then_finally_func
  <2>27. Advances(a, a.jobs, e)
    BY <2>5, <2>16, <2>24, AdvancesTrans
  <2>28. Advances(s, s.jobs, e)
    BY <1>0, <2>4, <2>27, AdvancesTrans
  <2>29. reaction.cap = None \/ Free(e, reaction.cap)
    BY <2>28, FreeStays DEF Advances
  <2>30. OkOutcome(e, v)
    BY <2>16, <2>24, <2>25, PromiseValue
  <2>31. n + 1 \in Promises
    <3>1. n <= Len(s.promises) + 1
      BY <1>0, <2>1, <2>2, <2>9, ResolveLength
    <3>2. Len(s.promises) \in Nat /\ MaxPromises \in Nat
      BY <1>0, PromiseAssumption DEF Good, AnyEngine
    <3>3. n + 1 \in 1 .. MaxPromises
      BY <1>2, <3>1, <3>2
    <3> QED
      BY <3>3 DEF Promises
  <2>32. Clean(v)
    BY <2>25, <2>31 DEF Clean, Value
  <2>33. Advances(e, e.jobs, t)
    BY <2>26, <2>28, <2>29, <2>30, <2>32, CompleteRight DEF Advances
  <2> QED
    BY <1>0, <2>28, <2>33, AdvancesTrans
<1> QED
  BY <1>1, <1>2

-----------------------------------------------------------------------------
(* Async functions *)

\* An await registers a reaction that resumes, and nothing else.
LEMMA AwaitRight ==
  ASSUME NEW s, Sound(s), NEW v, OkOutcome(s, Value(v)), Clean(Value(v)), NEW h, OkHandler(s, h), Simple(h),
         NEW x, x = js_promise_resolve(s, Value(v)),
         NEW t, t = perform_promise_then(x[1], x[2], h, h, None)
  PROVE  Advances(s, s.jobs, t)
<1>0. Good(s)
  BY DEF Sound
<1>1. PICK a : a = x[1]
  OBVIOUS
<1>2. PICK q : q = x[2]
  OBVIOUS
<1>3. PICK c : c = Value(v)
  OBVIOUS
<1>4. OkOutcome(s, c) /\ Clean(c) /\ x = js_promise_resolve(s, c)
  BY <1>3
<1>5. Advances(s, s.jobs, a) /\ q \in Pr(a)
  BY <1>1, <1>2, <1>4, ResolveRight
<1>6. Good(a) /\ Quiet(s, a)
  BY <1>0, <1>1, <1>4, ResolveOk
<1>7. OkHandler(a, h)
  BY <1>0, <1>6, Later DEF Quiet
<1>8. Registers(a, q, h, h, None, t)
  BY <1>1, <1>2, <1>5, <1>6, <1>7 DEF Registers
<1>9. Apt(a, q, h, h, None)
  BY <1>5, SimpleApt
<1>10. Advances(a, a.jobs, t)
  BY <1>5, <1>8, <1>9, RegisterRight DEF Advances
<1> QED
  BY <1>0, <1>5, <1>10, AdvancesTrans

\* js_async_function_resume.
LEMMA ResumeRight ==
  ASSUME NEW s, Sound(s), NEW a \in As(s), NEW ends \in BOOLEAN,
         NEW c, OkOutcome(s, c), Clean(c), ends \/ ~c.reject,
         NEW t, t = js_async_function_resume(s, a, ends, c)
  PROVE  Advances(s, s.jobs, t)
<1>0. Good(s) /\ Free(s, s.asyncs[a].pair)
  BY DEF Sound, Right, RAsyncs
<1>1. CASE ends
  <2>1. PICK r : r = s.asyncs[a].pair
    OBVIOUS
  <2>2. PICK u : u = js_promise_resolve_function_call(s, r, c)
    OBVIOUS
  <2>3. Fair(s, r, c) /\ r \in Pa(s)
    BY <1>0, <2>1, FreeFair DEF Free
  <2>4. Advances(s, s.jobs, u)
    BY <2>2, <2>3, CallRight
  <2>5. Good(u) /\ Quiet(s, u)
    BY <1>0, <2>2, <2>3, CallOk DEF Calls
  <2>6. u.asyncs = s.asyncs /\ As(u) = As(s) /\ u.asyncs \in Seq(AnyAsync) /\ a \in 1 .. Len(u.asyncs)
    BY <2>5 DEF Quiet, Grows, As, Good, AnyEngine
  <2>7. PICK y : y = [u.asyncs[a] EXCEPT !.active = FALSE]
    OBVIOUS
  <2>8. y \in AnyAsync /\ y.pair = u.asyncs[a].pair
    <3>1. u.asyncs[a] \in AnyAsync
      BY <2>6
    <3> QED
      BY <2>7, <3>1 DEF AnyAsync
  <2>9. PICK A : A = [u.asyncs EXCEPT ![a] = y]
    OBVIOUS
  <2>10. /\ A \in Seq(AnyAsync) /\ Len(A) = Len(u.asyncs) /\ A[a] = y
         /\ \A b \in 1 .. Len(u.asyncs) : b # a => A[b] = u.asyncs[b]
    BY <2>6, <2>8, <2>9, SeqExcept
  <2>11. t = [u EXCEPT !.asyncs = A]
    BY <1>1, <2>1, <2>2, <2>7, <2>9 DEF js_async_function_resume
  <2>12. \A b \in 1 .. Len(A) : Free(u, A[b].pair)
    <3>1. \A b \in As(u) : Free(u, u.asyncs[b].pair)
      BY <2>4 DEF Advances, Sound, Right, RAsyncs
    <3> QED
      BY <2>6, <2>8, <2>10, <3>1 DEF As
  <2>13. Reasyncs(u, A, t)
    <3>1. Len(u.asyncs) <= Len(A)
      BY <2>6, <2>10
    <3> QED
      BY <2>5, <2>10, <2>11, <2>12, <3>1 DEF Reasyncs, Free
  <2>14. Advances(u, u.jobs, t)
    BY <2>4, <2>12, <2>13, AsyncsRight DEF Advances
  <2> QED
    BY <1>0, <2>4, <2>14, AdvancesTrans
<1>2. CASE ~ends
  <2>1. PICK h : h = Handler("resume", a)
    OBVIOUS
  <2>2. PICK v : v = c.value
    OBVIOUS
  <2>3. OkOutcome(s, Value(v)) /\ Clean(Value(v))
    BY <1>2, <2>2 DEF OkOutcome, AnyOutcome, Value, Clean
  <2>4. PICK x : x = js_promise_resolve(s, Value(v))
    OBVIOUS
  <2>5. t = perform_promise_then(x[1], x[2], h, h, None)
    BY <1>2, <2>1, <2>2, <2>4 DEF js_async_function_resume
  <2>6. OkHandler(s, h) /\ Simple(h)
    BY <1>0, <2>1, HandlersOk, SimpleKinds
  <2> QED
    BY <2>3, <2>4, <2>5, <2>6, AwaitRight
<1> QED
  BY <1>1, <1>2

\* js_async_function_call: the promise of the call is the function's own.
LEMMA CallAsyncRight ==
  ASSUME NEW s, Sound(s), NEW ends \in BOOLEAN, NEW c, OkOutcome(s, c), Clean(c), ends \/ ~c.reject,
         NEW t, t = js_async_function_call(s, ends, c)
  PROVE  Advances(s, s.jobs, t)
<1>0. Good(s)
  BY DEF Sound
<1>1. PICK u : u = js_new_promise_capability(s)
  OBVIOUS
<1>2. PICK n \in Nat : n = Len(s.promises)
  BY <1>0 DEF Good, AnyEngine
<1>3. PICK k \in Nat : k = Len(s.pairs)
  BY <1>0 DEF Good, AnyEngine
<1>4. AfterNew(s, None, n, k, u) /\ Good(u) /\ u.groups = s.groups /\ NewestPair(u) = k + 1
  BY <1>0, <1>1, <1>2, <1>3, NewIs
<1>5. Advances(s, s.jobs, u) /\ Free(u, k + 1)
  BY <1>4, NewRight
<1>6. PICK r : r = k + 1
  OBVIOUS
<1>7. PICK y : y = [pair |-> r, active |-> TRUE]
  OBVIOUS
<1>8. y \in AnyAsync /\ y.pair = r
  BY <1>6, <1>7 DEF AnyAsync
<1>9. PICK A : A = Append(u.asyncs, y)
  OBVIOUS
<1>10. u.asyncs \in Seq(AnyAsync)
  BY <1>4 DEF Good, AnyEngine
<1>11. PICK m \in Nat : m = Len(u.asyncs)
  BY <1>10
<1>12. A \in Seq(AnyAsync) /\ Len(A) = m + 1 /\ A[m + 1] = y /\ \A j \in 1 .. m : A[j] = u.asyncs[j]
  BY <1>8, <1>9, <1>10, <1>11, SeqAppend
<1>13. PICK z : z = [u EXCEPT !.asyncs = A]
  OBVIOUS
<1>14. \A j \in 1 .. m + 1 : j \in 1 .. m \/ j = m + 1
  OBVIOUS
<1>15. \A j \in 1 .. m : Free(u, A[j].pair)
  BY <1>5, <1>11, <1>12 DEF Advances, Sound, Right, RAsyncs, As
<1>16. \A j \in 1 .. m + 1 : Free(u, A[j].pair)
  BY <1>5, <1>6, <1>8, <1>12, <1>14, <1>15
<1>17. Reasyncs(u, A, z)
  BY <1>4, <1>11, <1>12, <1>13, <1>16 DEF Reasyncs, Free
<1>18. Advances(u, u.jobs, z)
  BY <1>5, <1>12, <1>16, <1>17, AsyncsRight DEF Advances
<1>19. Advances(s, s.jobs, z)
  BY <1>0, <1>5, <1>18, AdvancesTrans
<1>20. z.asyncs = A /\ m + 1 \in As(z)
  <2>1. z.asyncs = A
    BY <1>17, AsyncsOk
  <2> QED
    BY <1>12, <2>1 DEF As
<1>21. OkOutcome(z, c)
  BY <1>19 DEF OkOutcome, Advances, Onward
<1>22. t = js_async_function_resume(z, m + 1, ends, c)
  BY <1>1, <1>4, <1>6, <1>7, <1>9, <1>12, <1>13, <1>20 DEF js_async_function_call
<1>23. Advances(z, z.jobs, t)
  BY <1>19, <1>20, <1>21, <1>22, ResumeRight DEF Advances
<1> QED
  BY <1>0, <1>19, <1>23, AdvancesTrans

-----------------------------------------------------------------------------
(* The actions of Promises *)

\* What the script and the jobs may rely on.
RState == PInv /\ Right(rt) /\ (\A r \in held : Free(rt, r)) /\ seen \subseteq Promises

\* A step, or a step that runs the first job.
Forward(s, t) == Advances(s, s.jobs, t) \/ (s.jobs # <<>> /\ Advances(s, Tail(s.jobs), t))

RStep == Forward(rt, rt') /\ (\A r \in held' : Free(rt', r)) /\ seen' \subseteq Promises

\* What the script passes around may be passed to any function.
LEMMA ThingsClean ==
  ASSUME RState
  PROVE  /\ Sound(rt) /\ Good(rt)
         /\ \A v \in Things : Clean(Value(v)) /\ OkOutcome(rt, Value(v))
         /\ \A c \in Completions : Clean(c) /\ OkOutcome(rt, c)
         /\ Clean(Value(Undefined)) /\ Clean(Reason(Error))
<1>1. PInv /\ Right(rt) /\ Good(rt) /\ seen \subseteq Promises
  BY DEF RState, PInv, Eng
<1>2. script.passes \subseteq Plain \cup {Thenable, Trap}
  BY <1>1, PromiseAssumption DEF PInv
<1>3. Things \subseteq Plain \cup {Thenable, Trap} \cup Promises
  BY <1>1, <1>2 DEF Things
<1>4. \A v \in Things : Clean(Value(v))
  BY <1>3 DEF Clean, Value
<1>5. Clean(Reason(Error)) /\ Clean(Value(Undefined))
  BY PromiseAssumption DEF Clean, Reason, Value
<1>6. \A c \in Completions : (c = Reason(Error) \/ \E v \in Things : c = Value(v))
  <2> SUFFICES ASSUME NEW c \in [reject : {FALSE}, value : Things] PROVE \E v \in Things : c = Value(v)
    BY DEF Completions
  <2>1. c = [reject |-> FALSE, value |-> c.value] /\ c.value \in Things
    OBVIOUS
  <2> QED
    BY <2>1 DEF Value
<1> QED
  BY <1>1, <1>4, <1>5, <1>6, CompletionsOk DEF Sound

\* A step that gives the script no pair and no promise.
LEMMA RStepOld ==
  ASSUME RState, Forward(rt, rt'), UNCHANGED <<held, seen>>
  PROVE  RStep
<1>1. Onward(rt, rt')
  BY DEF Forward, Advances
<1> QED
  BY <1>1, FreeStays DEF RStep, RState

\* A step that gives it a promise.
LEMMA RStepSeen ==
  ASSUME RState, Advances(rt, rt.jobs, rt'), held' = held, NEW p \in Promises, seen' = seen \cup {p}
  PROVE  RStep
<1>1. Onward(rt, rt')
  BY DEF Advances
<1> QED
  BY <1>1, FreeStays DEF RStep, RState, Forward

\* There is room for the promise it asks for.
LEMMA AsksRoom ==
  ASSUME RState, Asks
  PROVE  Len(rt.promises) + 1 \in Promises
<1>1. Len(rt.promises) \in Nat /\ MaxPromises \in Nat
  BY ThingsClean, PromiseAssumption DEF Good, AnyEngine
<1>2. Len(rt.promises) + 1 <= MaxPromises
  BY DEF Asks, Room
<1> QED
  BY <1>1, <1>2 DEF Promises

\* new Promise(executor)
LEMMA NewPromiseRight ==
  ASSUME RState, NewPromise
  PROVE  RStep
<1>0. Good(rt) /\ Sound(rt) /\ (\A r \in held : Free(rt, r)) /\ seen \subseteq Promises
  BY ThingsClean DEF RState
<1>1. PICK t : t = js_new_promise_capability(rt)
  OBVIOUS
<1>2. PICK n \in Nat : n = Len(rt.promises)
  BY <1>0 DEF Good, AnyEngine
<1>3. PICK k \in Nat : k = Len(rt.pairs)
  BY <1>0 DEF Good, AnyEngine
<1>4. /\ AfterNew(rt, None, n, k, t) /\ Good(t) /\ t.groups = rt.groups
      /\ NewestPair(t) = k + 1 /\ Newest(t) = n + 1
  BY <1>0, <1>1, <1>2, <1>3, NewIs
<1>5. Advances(rt, rt.jobs, t) /\ Free(t, k + 1)
  BY <1>0, <1>4, NewRight
<1>6. PICK r : r = k + 1
  OBVIOUS
<1>7. /\ rt' = t \/ rt' = js_promise_resolve_function_call(t, r, Reason(Error))
      /\ held' = held \cup {r} /\ seen' = seen \cup {n + 1}
  BY <1>1, <1>4, <1>6 DEF NewPromise
<1>8. n + 1 \in Promises
  BY <1>2, AsksRoom DEF NewPromise
<1>9. \A z \in held' : Free(t, z)
  BY <1>0, <1>5, <1>6, <1>7, FreeStays DEF Advances
<1>10. CASE rt' = t
  BY <1>0, <1>5, <1>7, <1>8, <1>9, <1>10 DEF RStep, Forward
<1>11. CASE rt' = js_promise_resolve_function_call(t, r, Reason(Error))
  <2>1. PICK c : c = Reason(Error)
    OBVIOUS
  <2>2. Fair(t, r, c)
    BY <1>5, <1>6, <2>1, ThingsClean, ErrorOk, FreeFair
  <2>3. Advances(t, t.jobs, rt')
    BY <1>5, <1>11, <2>1, <2>2, CallRight DEF Advances
  <2>4. Advances(rt, rt.jobs, rt')
    BY <1>0, <1>5, <2>3, AdvancesTrans
  <2>5. \A z \in held' : Free(rt', z)
    BY <1>9, <2>3, FreeStays DEF Advances
  <2> QED
    BY <1>0, <1>7, <1>8, <2>4, <2>5 DEF RStep, Forward
<1> QED
  BY <1>7, <1>10, <1>11

\* A call of a resolving function by the script or the host.
LEMMA SettleStepRight ==
  ASSUME RState, NEW r \in held, NEW c \in Completions, Settle(r, c)
  PROVE  RStep
<1>1. Sound(rt) /\ Fair(rt, r, c)
  BY ThingsClean, FreeFair DEF RState
<1>2. rt' = js_promise_resolve_function_call(rt, r, c) /\ UNCHANGED <<held, seen>>
  BY DEF Settle
<1>3. Advances(rt, rt.jobs, rt')
  BY <1>1, <1>2, CallRight
<1> QED
  BY <1>2, <1>3, RStepOld DEF Forward

\* Promise.resolve and Promise.reject
LEMMA ResolveStepRight ==
  ASSUME RState, NEW c \in Completions, Resolve(c)
  PROVE  RStep
<1>1. Sound(rt) /\ Good(rt) /\ Clean(c) /\ OkOutcome(rt, c)
  BY ThingsClean
<1>2. PICK x : x = js_promise_resolve(rt, c)
  OBVIOUS
<1>3. Advances(rt, rt.jobs, x[1])
  BY <1>1, <1>2, ResolveRight
<1>4. rt' = x[1] /\ seen' = seen \cup {x[2]} /\ held' = held
  BY <1>2 DEF Resolve
<1>5. x[2] = Len(rt.promises) + 1
  <2>1. PICK t : t = js_new_promise_capability(rt)
    OBVIOUS
  <2>2. Newest(t) = Len(rt.promises) + 1
    BY <1>1, <2>1, NewIs
  <2>3. PICK u : u = js_promise_resolve_function_call(t, NewestPair(t), c)
    OBVIOUS
  <2>4. x = <<u, Newest(t)>>
    BY <1>2, <2>1, <2>3 DEF js_promise_resolve, Resolve
  <2> QED
    BY <2>2, <2>4
<1>6. x[2] \in Promises
  BY <1>5, AsksRoom DEF Resolve
<1> QED
  BY <1>3, <1>4, <1>6, RStepSeen

\* then, catch and finally
LEMMA ThenStepRight ==
  ASSUME RState, Asks, NEW p \in seen, NEW f, NEW g,
         f \in {Handler("script", None), Handler("undefined", None), Handler("finally", None)},
         g \in {Handler("script", None), Handler("undefined", None), Handler("finally", None)},
         rt' = js_promise_then(rt, p, f, g), seen' = seen \cup {Newest(rt')}, held' = held
  PROVE  RStep
<1>1. Sound(rt) /\ Good(rt) /\ p \in Pr(rt)
  BY ThingsClean DEF RState, PInv, Known
<1>2. OkHandler(rt, f) /\ ~IsWaker(f) /\ OkHandler(rt, g) /\ ~IsWaker(g)
  BY <1>1, HandlersOk
<1>3. Simple(f) /\ Simple(g)
  BY SimpleKinds
<1>4. PICK t : t = rt'
  OBVIOUS
<1>5. Advances(rt, rt.jobs, t) /\ Newest(t) = Len(rt.promises) + 1
  BY <1>1, <1>2, <1>3, <1>4, ThenCallRight
<1>6. Newest(t) \in Promises
  BY <1>5, AsksRoom
<1> QED
  BY <1>4, <1>5, <1>6, RStepSeen

\* Promise.all and its kin, up to their loop
LEMMA CombineStepRight ==
  ASSUME RState, NEW magic \in Combinators, NEW items \in SeqOf(seen, 2), Combine(magic, items)
  PROVE  RStep
<1>1. Sound(rt) /\ seen \subseteq Pr(rt)
  BY ThingsClean DEF RState, PInv, Known
<1>2. items \in Seq(seen)
  <2>1. PICK m \in 0 .. 2 : items \in [1 .. m -> seen]
    BY DEF SeqOf
  <2> QED
    BY <2>1
<1>3. items \in Seq(Pr(rt))
  BY <1>1, <1>2
<1>4. rt' = js_promise_all(rt, magic, items) /\ seen' = seen \cup {Len(rt.promises) + 1} /\ held' = held
  BY DEF Combine, Newest
<1>5. Advances(rt, rt.jobs, rt')
  BY <1>1, <1>3, <1>4, AllRight
<1>6. Len(rt.promises) + 1 \in Promises
  BY AsksRoom DEF Combine
<1> QED
  BY <1>4, <1>5, <1>6, RStepSeen

\* A turn of their loop
LEMMA CombineTurnRight ==
  ASSUME RState, CombineTurn
  PROVE  RStep
<1>1. PICK g \in Loops :
        /\ rt' = IF rt.groups[g].next <= Len(rt.groups[g].items) THEN AddItem(rt, g) ELSE EndItems(rt, g)
        /\ UNCHANGED <<held, seen>>
  BY DEF CombineTurn
<1>2. Sound(rt) /\ Good(rt) /\ rt.groups \in Seq(AnyGroup)
  BY ThingsClean DEF Good, AnyEngine
<1>3. g \in Gr(rt) /\ rt.groups[g].open
  BY <1>2 DEF Loops, Gr
<1>4. rt.groups[g].next \in Nat /\ Len(rt.groups[g].items) \in Nat
  BY <1>2, <1>3, GroupThere
<1>5. CASE rt.groups[g].next <= Len(rt.groups[g].items)
  <2>1. Advances(rt, rt.jobs, rt')
    BY <1>1, <1>2, <1>3, <1>5, AddItemRight
  <2> QED
    BY <1>1, <2>1, RStepOld DEF Forward
<1>6. CASE ~(rt.groups[g].next <= Len(rt.groups[g].items))
  <2>0. rt.groups[g].next > Len(rt.groups[g].items)
    BY <1>4, <1>6
  <2>1. Advances(rt, rt.jobs, rt')
    BY <1>1, <1>2, <1>3, <1>6, <2>0, EndItemsRight
  <2> QED
    BY <1>1, <2>1, RStepOld DEF Forward
<1> QED
  BY <1>5, <1>6

\* The call of an async function
LEMMA CallAsyncStepRight ==
  ASSUME RState, NEW ends \in BOOLEAN, NEW c \in Completions, CallAsync(ends, c)
  PROVE  RStep
<1>1. Sound(rt) /\ OkOutcome(rt, c) /\ Clean(c)
  BY ThingsClean
<1>2. /\ rt' = js_async_function_call(rt, ends, c) /\ (ends \/ ~c.reject)
      /\ seen' = seen \cup {Len(rt.promises) + 1} /\ held' = held
  BY DEF CallAsync, Newest
<1>3. Advances(rt, rt.jobs, rt')
  BY <1>1, <1>2, CallAsyncRight
<1>4. Len(rt.promises) + 1 \in Promises
  BY AsksRoom DEF CallAsync
<1> QED
  BY <1>2, <1>3, <1>4, RStepSeen

\* Whatever the script or the host calls.
LEMMA ScriptRight ==
  ASSUME RState, Script
  PROVE  RStep
<1>1. CASE NewPromise
  BY <1>1, NewPromiseRight
<1>2. ASSUME NEW r \in held, NEW c \in Completions, Settle(r, c) PROVE RStep
  BY <1>2, SettleStepRight
<1>3. ASSUME NEW c \in Completions, Resolve(c) PROVE RStep
  BY <1>3, ResolveStepRight
<1>4. ASSUME NEW p \in seen, NEW f \in {ScriptHandler, NoHandler}, NEW g \in {ScriptHandler, NoHandler}, Then(p, f, g)
      PROVE  RStep
  BY <1>4, ThenStepRight DEF Then, ScriptHandler, NoHandler
<1>5. ASSUME NEW p \in seen, CallFinally(p) PROVE RStep
  BY <1>5, ThenStepRight DEF CallFinally
<1>6. ASSUME NEW magic \in Combinators, NEW items \in SeqOf(seen, 2), Combine(magic, items) PROVE RStep
  BY <1>6, CombineStepRight
<1>7. ASSUME NEW ends \in BOOLEAN, NEW c \in Completions, CallAsync(ends, c) PROVE RStep
  BY <1>7, CallAsyncStepRight
<1> QED
  BY <1>1, <1>2, <1>3, <1>4, <1>5, <1>6, <1>7 DEF Script

-----------------------------------------------------------------------------
(* The jobs *)

\* The first job runs a reaction, and what it is to do is right.
Took(job, kind, u) ==
  /\ Ran(job, kind, u) /\ rt.jobs # <<>> /\ Sound(u) /\ Advances(rt, Tail(rt.jobs), u)
  /\ job.outcome \in PlainO /\ job.reaction.on \in Pr(u) /\ job.outcome = Out(u, job.reaction.on)
  /\ RightFor(u, job.reaction.on, job.outcome.reject, job.reaction)
  /\ kind # "thunk" => job.reaction.cap = None \/ Free(u, job.reaction.cap)

\* JS_ExecutePendingJob takes it off the list.
LEMMA TookOk ==
  ASSUME RState, NEW kind, Reacts(kind)
  PROVE  \E job, u : Took(job, kind, u)
<1>0. PInv /\ Sound(rt) /\ Good(rt)
  BY ThingsClean DEF RState
<1>1. PICK job, u : Ran(job, kind, u)
  BY <1>0, ReactOk
<1>2. Takes(rt, job, u) /\ rt.jobs # <<>>
  BY <1>0, <1>1 DEF Ran, Reacts, Takes, Job, Dequeued
<1>3. Advances(rt, Tail(rt.jobs), u) /\ RightJob(u, job) /\ job.type = "reaction"
  BY <1>0, <1>2, TakeRight
<1>4. job.reaction.handler.kind = kind
  BY <1>1 DEF Ran
<1>5. /\ job.reaction.on \in Pr(u) /\ job.outcome = Out(u, job.reaction.on) /\ job.outcome \in PlainO
      /\ RightFor(u, job.reaction.on, job.outcome.reject, job.reaction)
  BY <1>3 DEF RightJob
<1>6. kind # "thunk" => job.reaction.cap = None \/ Free(u, job.reaction.cap)
  BY <1>4, <1>5 DEF RightFor
<1>7. Sound(u)
  BY <1>3 DEF Advances
<1>8. Took(job, kind, u)
  BY <1>1, <1>2, <1>3, <1>5, <1>6, <1>7 DEF Took
<1> QED
  BY <1>8

\* What the job does after that is part of the step.
LEMMA TookForward ==
  ASSUME RState, NEW job, NEW kind, NEW u, Took(job, kind, u), NEW t, Advances(u, u.jobs, t)
  PROVE  Forward(rt, t)
<1>1. Good(rt) /\ rt.jobs # <<>> /\ Advances(rt, Tail(rt.jobs), u)
  BY ThingsClean DEF Took
<1>2. Advances(rt, Tail(rt.jobs), t)
  BY <1>1, AdvancesTrans
<1> QED
  BY <1>1, <1>2 DEF Forward

\* The outcome of the handler is passed on, to a promise that may be settled
\* with anything.
LEMMA TookComplete ==
  ASSUME RState, NEW job, NEW kind, NEW u, Took(job, kind, u), kind # "thunk",
         NEW t, Advances(u, u.jobs, t), NEW c, Clean(c), OkOutcome(u, c),
         rt' = Complete(t, job.reaction.cap, c), UNCHANGED <<held, seen>>
  PROVE  RStep
<1>1. PICK cap : cap = job.reaction.cap
  OBVIOUS
<1>2. cap = None \/ Free(u, cap)
  BY <1>1 DEF Took
<1>3. Onward(u, t) /\ Sound(t) /\ Good(u)
  BY DEF Advances, Took, Sound
<1>4. cap = None \/ Free(t, cap)
  BY <1>2, <1>3, FreeStays
<1>5. OkOutcome(t, c)
  BY <1>3 DEF OkOutcome, Onward
<1>6. PICK v : v = rt'
  OBVIOUS
<1>7. v = Complete(t, cap, c)
  BY <1>1, <1>6
<1>8. Advances(t, t.jobs, v)
  BY <1>3, <1>4, <1>5, <1>7, CompleteRight
<1>9. Advances(u, u.jobs, v)
  BY <1>3, <1>8, AdvancesTrans
<1>10. Forward(rt, v)
  BY <1>9, TookForward
<1>11. Forward(rt, rt')
  BY <1>6, <1>10
<1> QED
  BY <1>11, RStepOld

\* promise_reaction_job without a handler
LEMMA PassOnRight ==
  ASSUME RState, PassOn
  PROVE  RStep
<1>1. PICK job, u : Took(job, "undefined", u)
  BY TookOk DEF PassOn
<1>2. Sound(u) /\ Clean(job.outcome) /\ OkOutcome(u, job.outcome)
  BY <1>1, PlainNotPending, PlainOk DEF Took
<1>3. Advances(u, u.jobs, u)
  BY <1>2, AdvancesSame
<1>4. rt' = Complete(u, job.reaction.cap, job.outcome) /\ UNCHANGED <<held, seen>>
  BY <1>1 DEF PassOn, Took, Ran
<1> QED
  BY <1>1, <1>2, <1>3, <1>4, TookComplete

\* promise_reaction_job with a function of the script
LEMMA CallHandlerRight ==
  ASSUME RState, NEW c \in Completions, CallHandler(c)
  PROVE  RStep
<1>1. PICK job, u : Took(job, "script", u)
  BY TookOk DEF CallHandler
<1>2. Sound(u) /\ Pr(u) = Pr(rt)
  BY <1>1 DEF Took, Ran, AfterTake
<1>3. Clean(c) /\ OkOutcome(u, c)
  BY <1>2, ThingsClean DEF OkOutcome
<1>4. Advances(u, u.jobs, u)
  BY <1>2, AdvancesSame
<1>5. rt' = Complete(u, job.reaction.cap, c) /\ UNCHANGED <<held, seen>>
  BY <1>1 DEF CallHandler, Took, Ran
<1> QED
  BY <1>1, <1>3, <1>4, <1>5, TookComplete

\* A resolving function that is to be called with the outcome of q may be: its
\* promise repeats q, or q is an item that decides for the group.
LEMMA CopyFair ==
  ASSUME NEW s, Sound(s), NEW q \in Pr(s), NEW o \in PlainO, o = Out(s, q),
         NEW r, Copies(s, q, o.reject, r)
  PROVE  Fair(s, r, o)
<1>1. r \in Pa(s) /\ o # Pending
  BY PlainNotPending DEF Copies
<1>2. CASE Shut(s, r)
  BY <1>1, <1>2 DEF Fair
<1>3. CASE Mir(s, Prom(s, r)) = q /\ ~OfGroup(s, r)
  <2>1. Suits(s, r, o)
    BY <1>3 DEF Suits, OfGroup
  <2> QED
    BY <1>1, <2>1 DEF Fair
<1>4. ASSUME ~Shut(s, r), NEW g \in Gr(s), s.groups[g].pair = r, Item(s.groups[g], q),
             s.groups[g].magic \in Direct(o.reject)
      PROVE  Fair(s, r, o)
  <2>1. Replying(s, s.groups[g])
    BY DEF Sound, Right, RGroups, RightGroup
  <2>2. Mir(s, Prom(s, r)) = None
    BY <1>4, <2>1 DEF Replying
  <2>3. Answers(s, s.groups[g], o)
    BY <1>1, <1>4 DEF Answers, Item
  <2>4. ASSUME NEW h \in Gr(s), s.groups[h].pair = r PROVE h = g
    BY <1>4, <2>4 DEF Sound, Right, RPairs
  <2>5. Suits(s, r, o)
    BY <2>2, <2>3, <2>4 DEF Suits
  <2> QED
    BY <1>1, <2>5 DEF Fair
<1> QED
  BY <1>2, <1>3, <1>4 DEF Copies

\* And the promise of finally may be settled with what it is to repeat.
LEMMA RepeatFair ==
  ASSUME NEW s, NEW r, r # None, NEW o, Repeats(s, r, o)
  PROVE  Fair(s, r, o)
<1>1. o \in PlainO /\ Clean(o) /\ OkOutcome(s, o)
  BY PlainNotPending, PlainOk DEF Repeats
<1>2. CASE Free(s, r)
  BY <1>1, <1>2, FreeFair
<1>3. CASE /\ r \in Pa(s) /\ ~OfGroup(s, r)
           /\ Mir(s, Prom(s, r)) \in Pr(s) /\ Out(s, Mir(s, Prom(s, r))) = o
  <2>1. Suits(s, r, o)
    BY <1>3 DEF Suits, OfGroup
  <2> QED
    BY <1>1, <1>3, <2>1 DEF Fair
<1> QED
  BY <1>2, <1>3 DEF Repeats

\* promise_reaction_job with a resolving function: of a promise that follows
\* another one, or of that of Promise.race and any
LEMMA CallResolvingRight ==
  ASSUME RState, NEW kind \in {"resolve", "reject"}, CallResolving(kind)
  PROVE  RStep
<1>1. PICK job, u : Took(job, kind, u)
  BY TookOk DEF CallResolving
<1>2. PICK o : o = job.outcome
  OBVIOUS
<1>3. PICK x : x = job.reaction
  OBVIOUS
<1>4. PICK r : r = x.handler.of
  OBVIOUS
<1>5. /\ Sound(u) /\ o \in PlainO /\ x.on \in Pr(u) /\ o = Out(u, x.on)
      /\ RightFor(u, x.on, o.reject, x) /\ x.handler.kind = kind
  BY <1>1, <1>2, <1>3 DEF Took, Ran
<1>6. (kind = "reject" <=> o.reject) /\ Copies(u, x.on, o.reject, r)
  BY <1>4, <1>5 DEF RightFor
<1>7. o = IF kind = "reject" THEN Reason(o.value) ELSE Value(o.value)
  <2>1. o = [reject |-> o.reject, value |-> o.value] /\ o.reject \in BOOLEAN
    BY <1>5 DEF PlainO
  <2> QED
    BY <1>6, <2>1 DEF Reason, Value
<1>8. PICK t : t = js_promise_resolve_function_call(u, r, o)
  OBVIOUS
<1>9. rt' = Complete(t, job.reaction.cap, Value(Undefined)) /\ UNCHANGED <<held, seen>>
  BY <1>1, <1>2, <1>3, <1>4, <1>7, <1>8 DEF CallResolving, Took, Ran
<1>10. Fair(u, r, o)
  BY <1>5, <1>6, CopyFair
<1>11. Advances(u, u.jobs, t)
  BY <1>5, <1>8, <1>10, CallRight
<1>12. Clean(Value(Undefined)) /\ OkOutcome(u, Value(Undefined))
  BY ThingsClean, ErrorOk, PromiseAssumption
<1> QED
  BY <1>1, <1>9, <1>11, <1>12, TookComplete

\* promise_reaction_job with a function of Promise.all
LEMMA CallElementRight ==
  ASSUME RState, CallElement
  PROVE  RStep
<1>1. PICK job, u : Took(job, "element", u)
  BY TookOk DEF CallElement
<1>2. PICK o : o = job.outcome
  OBVIOUS
<1>3. PICK x : x = job.reaction
  OBVIOUS
<1>4. PICK h : h = x.handler.of
  OBVIOUS
<1>5. PICK g : g = h[1]
  OBVIOUS
<1>6. PICK i : i = h[2]
  OBVIOUS
<1>7. /\ Sound(u) /\ o \in PlainO /\ x.on \in Pr(u) /\ o = Out(u, x.on)
      /\ RightFor(u, x.on, o.reject, x) /\ x.handler.kind = "element"
  BY <1>1, <1>2, <1>3 DEF Took, Ran
<1>8. Counts(u, x.on, o.reject, h)
  BY <1>4, <1>7 DEF RightFor
<1>9. h = <<g, i>>
  BY <1>5, <1>6, <1>8 DEF Counts
<1>10. PICK t : t = js_promise_all_resolve_element(u, g, i, o)
  OBVIOUS
<1>11. rt' = Complete(t, job.reaction.cap, Value(Undefined)) /\ UNCHANGED <<held, seen>>
  BY <1>1, <1>2, <1>3, <1>4, <1>5, <1>6, <1>10 DEF CallElement, Took, Ran
<1>12. Advances(u, u.jobs, t)
  BY <1>7, <1>8, <1>9, <1>10, ElementRight
<1>13. Clean(Value(Undefined)) /\ OkOutcome(u, Value(Undefined))
  BY ThingsClean, ErrorOk, PromiseAssumption
<1> QED
  BY <1>1, <1>11, <1>12, <1>13, TookComplete

\* promise_reaction_job with the function of finally
LEMMA CallThenFinallyRight ==
  ASSUME RState, NEW c \in Completions, CallThenFinally(c)
  PROVE  RStep
<1>1. PICK job, u : Took(job, "finally", u)
  BY TookOk DEF CallThenFinally
<1>2. PICK o : o = job.outcome
  OBVIOUS
<1>3. PICK x : x = job.reaction
  OBVIOUS
<1>4. /\ Sound(u) /\ o \in PlainO /\ x.on \in Pr(u) /\ o = Out(u, x.on)
      /\ (x.cap = None \/ Free(u, x.cap)) /\ Pr(u) = Pr(rt) /\ u.promises = rt.promises
  BY <1>1, <1>2, <1>3 DEF Took, Ran, AfterTake
<1>5. Clean(c) /\ OkOutcome(u, c)
  BY <1>4, ThingsClean DEF OkOutcome
<1>6. c.reject \/ Len(u.promises) + 2 <= MaxPromises
  BY <1>4 DEF CallThenFinally, Room
<1>7. PICK t : t = rt'
  OBVIOUS
<1>8. t = js_promise_then_finally_func(u, x, o, c) /\ UNCHANGED <<held, seen>>
  BY <1>1, <1>2, <1>3, <1>7 DEF CallThenFinally, Took, Ran
<1>9. Advances(u, u.jobs, t)
  BY <1>4, <1>5, <1>6, <1>8, FinallyRight
<1>10. Forward(rt, t)
  BY <1>1, <1>9, TookForward
<1>11. Forward(rt, rt')
  BY <1>7, <1>10
<1> QED
  BY <1>8, <1>11, RStepOld

\* js_promise_finally_value_thunk and js_promise_finally_thrower: the outcome
\* that finally has kept
LEMMA CallThunkRight ==
  ASSUME RState, CallThunk
  PROVE  RStep
<1>1. PICK job, u : Took(job, "thunk", u)
  BY TookOk DEF CallThunk
<1>2. PICK x : x = job.reaction
  OBVIOUS
<1>3. PICK cap : cap = x.cap
  OBVIOUS
<1>4. PICK o : o = x.handler.of
  OBVIOUS
<1>5. Sound(u) /\ RightFor(u, x.on, job.outcome.reject, x) /\ x.handler.kind = "thunk"
  BY <1>1, <1>2 DEF Took, Ran
<1>6. Repeats(u, cap, o)
  BY <1>3, <1>4, <1>5 DEF RightFor
<1>7. PICK t : t = rt'
  OBVIOUS
<1>8. t = Complete(u, cap, o) /\ UNCHANGED <<held, seen>>
  BY <1>1, <1>2, <1>3, <1>4, <1>7 DEF CallThunk, Took, Ran
<1>9. Advances(u, u.jobs, t)
  <2>1. CASE cap = None
    BY <1>5, <1>8, <2>1, AdvancesSame DEF Complete
  <2>2. CASE cap # None
    <3>1. Fair(u, cap, o)
      BY <1>6, <2>2, RepeatFair
    <3>2. t = js_promise_resolve_function_call(u, cap, o)
      BY <1>8, <2>2 DEF Complete
    <3> QED
      BY <1>5, <3>1, <3>2, CallRight
  <2> QED
    BY <2>1, <2>2
<1>10. Forward(rt, t)
  BY <1>1, <1>9, TookForward
<1>11. Forward(rt, rt')
  BY <1>7, <1>10
<1> QED
  BY <1>8, <1>11, RStepOld

\* js_async_function_resolve_call
LEMMA ResumeAsyncRight ==
  ASSUME RState, NEW ends \in BOOLEAN, NEW c \in Completions, ResumeAsync(ends, c)
  PROVE  RStep
<1>1. PICK job, u : Took(job, "resume", u)
  BY TookOk DEF ResumeAsync
<1>2. PICK h : h = job.reaction.handler
  OBVIOUS
<1>3. PICK a : a = h.of
  OBVIOUS
<1>4. Sound(u) /\ OkHandler(u, h) /\ h.kind = "resume" /\ Pr(u) = Pr(rt)
  BY <1>1, <1>2 DEF Took, Ran, AfterTake
<1>5. a \in As(u)
  BY <1>3, <1>4 DEF OkHandler
<1>6. Clean(c) /\ OkOutcome(u, c)
  BY <1>4, ThingsClean DEF OkOutcome
<1>7. PICK t : t = js_async_function_resume(u, a, ends, c)
  OBVIOUS
<1>8. /\ rt' = Complete(t, job.reaction.cap, Value(Undefined)) /\ UNCHANGED <<held, seen>>
      /\ (ends \/ ~c.reject)
  BY <1>1, <1>2, <1>3, <1>7 DEF ResumeAsync, Took, Ran
<1>9. Advances(u, u.jobs, t)
  BY <1>4, <1>5, <1>6, <1>7, <1>8, ResumeRight
<1>10. Clean(Value(Undefined)) /\ OkOutcome(u, Value(Undefined))
  BY ThingsClean, ErrorOk, PromiseAssumption
<1> QED
  BY <1>1, <1>8, <1>9, <1>10, TookComplete

\* js_promise_resolve_thenable_job
LEMMA ResolveThenableRight ==
  ASSUME RState, ResolveThenable
  PROVE  RStep
<1>0. Sound(rt) /\ Good(rt)
  BY ThingsClean
<1>1. PICK job : job = Job
  OBVIOUS
<1>2. PICK p : p = job.promise
  OBVIOUS
<1>3. PICK t : t = js_create_resolving_functions(Dequeued, p)
  OBVIOUS
<1>4. PICK r : r = NewestPair(t)
  OBVIOUS
<1>5. rt.jobs # <<>> /\ job.type = "thenable" /\ seen' = seen
  BY <1>1 DEF ResolveThenable
<1>6. Adopts(rt, job, t)
  BY <1>0, <1>1, <1>2, <1>3, <1>5 DEF Adopts, Job, Dequeued
<1>7. /\ Good(t) /\ Pr(t) = Pr(rt) /\ r \in Pa(t)
      /\ p \in Pr(t) /\ (job.thenable = Thenable \/ job.thenable \in Pr(t))
  BY <1>2, <1>4, <1>6, AdoptOk
<1>8. PICK k : k = Len(rt.pairs)
  OBVIOUS
<1>9. AfterAdopt(rt, p, None, k, t) /\ r = k + 1
  BY <1>0, <1>2, <1>4, <1>6, <1>8, AdoptIs
<1>10. \/ /\ IsPromise(job.thenable)
          /\ rt' = perform_promise_then([t EXCEPT !.promises[p].mirrors = job.thenable],
                     job.thenable, Handler("resolve", r), Handler("reject", r), None)
          /\ held' = held
       \/ /\ job.thenable = Thenable
          /\ rt' \in {t, js_promise_resolve_function_call(t, r, Reason(Error))}
          /\ held' = held \cup {r}
  BY <1>1, <1>2, <1>3, <1>4 DEF ResolveThenable
<1>11. CASE /\ IsPromise(job.thenable)
            /\ rt' = perform_promise_then([t EXCEPT !.promises[p].mirrors = job.thenable],
                       job.thenable, Handler("resolve", r), Handler("reject", r), None)
            /\ held' = held
  <2>1. PICK q : q = job.thenable
    OBVIOUS
  <2>2. q \in Nat
    BY <1>11, <2>1, PromiseAssumption DEF IsPromise, Promises
  <2>3. q # Thenable
    BY <2>2, PromiseAssumption
  <2>4. q \in Pr(t) /\ q \in Pr(rt)
    BY <1>7, <2>1, <2>3
  <2>5. PICK u : u = [t EXCEPT !.promises[p].mirrors = q]
    OBVIOUS
  <2>6. Good(u) /\ AfterMirror(t, p, q, u)
    BY <1>7, <2>2, <2>5, MirrorIs
  <2>7. AfterAdopt(rt, p, q, k, u)
    BY <1>9, <2>6 DEF AfterAdopt, AfterMirror, Pa, Prom, Shut
  <2>8. /\ Advances(rt, Tail(rt.jobs), u) /\ r \in Pa(u) /\ Prom(u, r) = p /\ Mir(u, p) = q
        /\ ~OfGroup(u, r)
    BY <1>0, <1>9, <2>4, <2>6, <2>7, AdoptRight
  <2>9. PICK f : f = Handler("resolve", r)
    OBVIOUS
  <2>10. PICK g : g = Handler("reject", r)
    OBVIOUS
  <2>11. OkHandler(u, f) /\ ~IsWaker(f) /\ OkHandler(u, g) /\ ~IsWaker(g)
    BY <2>6, <2>8, <2>9, <2>10, HandlersOk
  <2>12. PICK v : v = rt'
    OBVIOUS
  <2>13. v = perform_promise_then(u, q, f, g, None)
    BY <1>11, <2>1, <2>5, <2>9, <2>10, <2>12
  <2>14. q \in Pr(u) /\ Sound(u)
    BY <2>4, <2>8 DEF Advances, Onward
  <2>15. Registers(u, q, f, g, None, v)
    BY <2>6, <2>11, <2>13, <2>14 DEF Registers
  <2>16. Copies(u, q, FALSE, r) /\ Copies(u, q, TRUE, r)
    BY <2>8 DEF Copies
  <2>17. Does(u, q, FALSE, f, None) /\ Does(u, q, TRUE, g, None)
    BY <2>9, <2>10, <2>16 DEF Does, Handler
  <2>18. Apt(u, q, f, g, None)
    BY <2>14, <2>17, DoesApt
  <2>19. Advances(u, u.jobs, v)
    BY <2>14, <2>15, <2>18, RegisterRight
  <2>20. Advances(rt, Tail(rt.jobs), v)
    BY <1>0, <2>8, <2>19, AdvancesTrans
  <2>21. Forward(rt, rt')
    BY <1>5, <2>12, <2>20 DEF Forward
  <2> QED
    BY <1>5, <1>11, <2>21, RStepOld
<1>12. CASE /\ job.thenable = Thenable
            /\ rt' \in {t, js_promise_resolve_function_call(t, r, Reason(Error))}
            /\ held' = held \cup {r}
  <2>1. Advances(rt, Tail(rt.jobs), t) /\ Free(t, r)
    BY <1>0, <1>7, <1>9, AdoptRight
  <2>2. PICK v : v = rt'
    OBVIOUS
  <2>3. Advances(t, t.jobs, v)
    <3>1. Sound(t)
      BY <2>1 DEF Advances
    <3>2. CASE v = t
      BY <3>1, <3>2, AdvancesSame
    <3>3. CASE v = js_promise_resolve_function_call(t, r, Reason(Error))
      <4>1. PICK c : c = Reason(Error)
        OBVIOUS
      <4>2. Clean(c) /\ OkOutcome(t, c)
        BY <4>1, ThingsClean, ErrorOk
      <4>3. Fair(t, r, c)
        BY <2>1, <4>2, FreeFair
      <4> QED
        BY <3>1, <3>3, <4>1, <4>3, CallRight
    <3> QED
      BY <1>12, <2>2, <3>2, <3>3
  <2>4. Advances(rt, Tail(rt.jobs), v)
    BY <1>0, <2>1, <2>3, AdvancesTrans
  <2>5. Onward(rt, v) /\ Onward(t, v)
    BY <2>3, <2>4 DEF Advances
  <2>6. ASSUME NEW x \in held' PROVE Free(rt', x)
    <3>1. CASE x = r
      BY <2>1, <2>2, <2>5, <3>1, FreeStays
    <3>2. CASE x \in held
      <4>1. Free(rt, x)
        BY <3>2 DEF RState
      <4> QED
        BY <2>2, <2>5, <4>1, FreeStays
    <3> QED
      BY <1>12, <3>1, <3>2
  <2>7. Forward(rt, rt') /\ seen' \subseteq Promises
    BY <1>5, <2>2, <2>4 DEF Forward, RState
  <2> QED
    BY <2>6, <2>7 DEF RStep
<1> QED
  BY <1>10, <1>11, <1>12

\* Every job.
LEMMA RunJobRight ==
  ASSUME RState, RunJob
  PROVE  RStep
<1>1. CASE PassOn
  BY <1>1, PassOnRight
<1>2. ASSUME NEW c \in Completions, CallHandler(c) PROVE RStep
  BY <1>2, CallHandlerRight
<1>3. ASSUME NEW c \in Completions, CallThenFinally(c) PROVE RStep
  BY <1>3, CallThenFinallyRight
<1>4. ASSUME NEW kind \in {"resolve", "reject"}, CallResolving(kind) PROVE RStep
  BY <1>4, CallResolvingRight
<1>5. CASE CallElement
  BY <1>5, CallElementRight
<1>6. CASE CallThunk
  BY <1>6, CallThunkRight
<1>7. ASSUME NEW ends \in BOOLEAN, NEW c \in Completions, ResumeAsync(ends, c) PROVE RStep
  BY <1>7, ResumeAsyncRight
<1>8. CASE ResolveThenable
  BY <1>8, ResolveThenableRight
<1> QED
  BY <1>1, <1>2, <1>3, <1>4, <1>5, <1>6, <1>7, <1>8 DEF RunJob

-----------------------------------------------------------------------------
(* The generator *)

\* What every step does.
GStep == RStep /\ QueueRight(rt', gen'.queue)

\* The requests stay right.
LEMMA QueueRightStays ==
  ASSUME NEW s, NEW t, Onward(s, t), NEW q, QueueRight(s, q)
  PROVE  QueueRight(t, q)
BY FreeStays DEF QueueRight

\* What the steps of the generator may rely on.
LEMMA RInvState ==
  ASSUME RInv
  PROVE  /\ RState /\ AInv /\ Sound(rt) /\ Good(rt) /\ IsGen(gen) /\ QueueRight(rt, gen.queue)
         /\ gen.queue \in Seq(AnyRequest)
<1>1. AInv /\ PInv /\ IsGen(gen)
  BY DEF RInv, AInv
<1>2. RState
  BY <1>1 DEF RInv, RState
<1>3. gen.queue \in Seq(AnyRequest)
  BY <1>1 DEF IsGen
<1> QED
  BY <1>1, <1>2, <1>3, ThingsClean DEF RInv

\* A step that takes no request off the queue and adds none.
LEMMA GStepQueue ==
  ASSUME RInv, RStep, gen'.queue = gen.queue
  PROVE  GStep
<1>1. Onward(rt, rt')
  BY DEF RStep, Forward, Advances
<1> QED
  BY <1>1, RInvState, QueueRightStays DEF GStep

\* Steps of the script and of jobs that are none of the generator's.
LEMMA EngineRight ==
  ASSUME RInv, Script \/ RunJob \/ CombineTurn, gen' = gen
  PROVE  GStep
BY RInvState, ScriptRight, RunJobRight, CombineTurnRight, GStepQueue

\* js_async_generator_next: the promise of a request is for its answer only.
LEMMA RequestRight ==
  ASSUME RInv, NEW kind \in ReqKinds, NEW v, Clean(Value(v)), kind = "throw" => v \in Plain,
         js_async_generator_next(kind, v)
  PROVE  GStep
<1>0. RState /\ Sound(rt) /\ Good(rt) /\ QueueRight(rt, gen.queue) /\ gen.queue \in Seq(AnyRequest)
  BY RInvState
<1>1. PICK t : t = js_new_promise_capability(rt)
  OBVIOUS
<1>2. PICK n \in Nat : n = Len(rt.promises)
  BY <1>0 DEF Good, AnyEngine
<1>3. PICK k \in Nat : k = Len(rt.pairs)
  BY <1>0 DEF Good, AnyEngine
<1>4. AfterNew(rt, None, n, k, t) /\ Good(t) /\ t.groups = rt.groups /\ NewestPair(t) = k + 1
  BY <1>0, <1>1, <1>2, <1>3, NewIs
<1>5. Advances(rt, rt.jobs, t) /\ Free(t, k + 1)
  BY <1>0, <1>4, NewRight
<1>6. PICK r : r = [n |-> Len(gen.asked) + 1, kind |-> kind, value |-> v, pair |-> NewestPair(t)]
  OBVIOUS
<1>7. PICK q : q = Append(gen.queue, r)
  OBVIOUS
<1>8. rt' = t /\ UNCHANGED <<held, seen>> /\ gen'.queue = q
  <2>1. IsGen(gen)
    BY RInvState
  <2> QED
    BY <1>1, <1>6, <1>7, <2>1 DEF js_async_generator_next, Push, IsGen
<1>9. r.kind = kind /\ r.value = v /\ r.pair = k + 1
  BY <1>4, <1>6
<1>10. PICK l \in Nat : l = Len(gen.queue)
  BY <1>0
<1>11. /\ Len(q) = l + 1 /\ q[l + 1] = r
       /\ \A j \in 1 .. l : q[j] = gen.queue[j]
  <2>1. gen.queue \in Seq(AnyRequest \cup {r})
    BY <1>0
  <2> QED
    BY <1>7, <1>10, <2>1, SeqAppend
<1>12. \A i \in 1 .. l + 1 : i \in 1 .. l \/ i = l + 1
  OBVIOUS
<1>13. QueueRight(t, gen.queue)
  BY <1>0, <1>5, QueueRightStays DEF Advances
<1>14. QueueRight(t, q)
  BY <1>5, <1>9, <1>10, <1>11, <1>12, <1>13 DEF QueueRight
<1>15. Forward(rt, rt')
  BY <1>5, <1>8 DEF Forward
<1>16. RStep
  BY <1>0, <1>8, <1>15, RStepOld
<1> QED
  BY <1>8, <1>14, <1>16 DEF GStep

\* js_async_generator_resolve_or_reject: the answer goes to the promise of the
\* first request, which nothing else settles.
LEMMA AnswerRight ==
  ASSUME NEW s, Sound(s), NEW g, IsGen(g), QueueRight(s, g.queue), NEW what,
         NEW c, Clean(c), OkOutcome(s, c), js_async_generator_resolve_or_reject(s, g, what, c)
  PROVE  Advances(s, s.jobs, rt') /\ QueueRight(rt', gen'.queue)
<1>1. Good(s) /\ g.queue \in Seq(AnyRequest)
  BY DEF Sound, IsGen
<1>2. CASE g.queue = <<>>
  <2>1. rt' = s /\ gen'.queue = g.queue
    BY <1>2 DEF js_async_generator_resolve_or_reject, IsGen
  <2>2. Advances(s, s.jobs, s)
    BY AdvancesSame
  <2> QED
    BY <2>1, <2>2
<1>3. CASE g.queue # <<>>
  <2>1. PICK q, r : q = Tail(g.queue) /\ r = g.queue[1]
    OBVIOUS
  <2>2. /\ Len(q) = Len(g.queue) - 1 /\ Len(g.queue) > 0
        /\ r = Head(g.queue)
        /\ \A j \in 1 .. Len(g.queue) - 1 : q[j] = g.queue[j + 1]
    BY <1>1, <1>3, <2>1, SeqTail
  <2>3. PICK n \in Nat : n = Len(g.queue)
    BY <1>1
  <2>4. Free(s, r.pair)
    BY <2>1, <2>2, <2>3 DEF QueueRight
  <2>5. PICK v : v = rt'
    OBVIOUS
  <2>6. v = js_promise_resolve_function_call(s, r.pair, c) /\ gen'.queue = q
    BY <1>3, <2>1, <2>2, <2>5 DEF js_async_generator_resolve_or_reject, IsGen
  <2>7. Fair(s, r.pair, c)
    BY <2>4, FreeFair
  <2>8. Advances(s, s.jobs, v)
    BY <2>6, <2>7, CallRight
  <2>9. QueueRight(s, q)
    <3>1. \A i \in 1 .. n - 1 : i + 1 \in 1 .. n
      OBVIOUS
    <3> QED
      BY <2>2, <2>3, <3>1 DEF QueueRight
  <2>10. QueueRight(v, q)
    BY <2>8, <2>9, QueueRightStays DEF Advances
  <2> QED
    BY <2>5, <2>6, <2>8, <2>10
<1> QED
  BY <1>2, <1>3

\* A step that answers the first request.
LEMMA AnswerGStep ==
  ASSUME RInv, NEW g, IsGen(g), g.queue = gen.queue, NEW what,
         NEW c, Clean(c), OkOutcome(rt, c), js_async_generator_resolve_or_reject(rt, g, what, c),
         UNCHANGED <<held, seen>>
  PROVE  GStep
<1>1. RState /\ Sound(rt) /\ QueueRight(rt, g.queue)
  BY RInvState
<1>2. Advances(rt, rt.jobs, rt') /\ QueueRight(rt', gen'.queue)
  BY <1>1, AnswerRight
<1>3. RStep
  BY <1>1, <1>2, RStepOld DEF Forward
<1> QED
  BY <1>2, <1>3 DEF GStep

\* The turns of the loop that only move the generator on.
LEMMA MovesRight ==
  ASSUME RInv, Moves
  PROVE  GStep
<1>1. RState /\ Sound(rt) /\ IsGen(gen)
  BY RInvState
<1>2. UNCHANGED <<rt, held, seen>>
  BY DEF Moves, LoopEnd, LoopResume, LoopAbandon, LoopAnswered, Finalize, Loop
<1>3. gen'.queue = gen.queue
  <2>1. CASE LoopEnd
    BY <1>1, <2>1 DEF LoopEnd, Pop, IsGen
  <2>2. CASE LoopResume
    BY <1>1, <2>2 DEF LoopResume, async_func_resume, At, IsGen
  <2>3. CASE LoopAbandon
    BY <1>1, <2>3 DEF LoopAbandon, js_async_generator_complete, async_func_free, IsGen
  <2>4. CASE LoopAnswered
    BY <1>1, <2>4 DEF LoopAnswered, At, Pop, IsGen
  <2>5. CASE Finalize
    BY <1>1, <2>5 DEF Finalize, async_func_free, IsGen
  <2> QED
    BY <2>1, <2>2, <2>3, <2>4, <2>5 DEF Moves
<1>4. Advances(rt, rt.jobs, rt)
  BY <1>1, AdvancesSame
<1>5. Forward(rt, rt')
  BY <1>2, <1>4 DEF Forward
<1>6. RStep
  BY <1>1, <1>2, <1>5, RStepOld
<1> QED
  BY <1>3, <1>6, GStepQueue

\* What the engine answers with, and the values of requests.
LEMMA AnswersClean ==
  ASSUME RInv
  PROVE  /\ Clean(Value(Result)) /\ Clean(Reason(Error))
         /\ gen.queue # <<>> =>
              /\ Clean(Value(Head(gen.queue).value))
              /\ Head(gen.queue).kind = "throw" => Clean(Reason(Head(gen.queue).value))
<1>1. Clean(Value(Result)) /\ Clean(Reason(Error))
  BY PromiseAssumption, GeneratorAssumption DEF Clean, Value, Reason
<1>2. ASSUME gen.queue # <<>>
      PROVE  /\ Clean(Value(Head(gen.queue).value))
             /\ Head(gen.queue).kind = "throw" => Clean(Reason(Head(gen.queue).value))
  <2>1. gen.queue \in Seq(AnyRequest) /\ QueueRight(rt, gen.queue)
    BY RInvState
  <2>2. 1 \in 1 .. Len(gen.queue) /\ Head(gen.queue) = gen.queue[1]
    BY <1>2, <2>1
  <2>3. PICK r : r = Head(gen.queue)
    OBVIOUS
  <2>4. Clean(Value(r.value)) /\ (r.kind = "throw" => r.value \in Plain)
    BY <2>1, <2>2, <2>3 DEF QueueRight
  <2>5. r.kind = "throw" => Clean(Reason(r.value))
    BY <2>4 DEF Clean, Reason
  <2> QED
    BY <2>3, <2>4, <2>5
<1> QED
  BY <1>1, <1>2

\* An ended generator answers next and throw.
LEMMA LoopAnswerRight ==
  ASSUME RInv, LoopAnswer
  PROVE  GStep
<1>1. UNCHANGED <<held, seen>> /\ gen.queue # <<>> /\ IsGen(gen) /\ AInv
  BY RInvState DEF LoopAnswer, Loop
<1>2. CASE js_async_generator_resolve_or_reject(rt, At(gen, "last"), "done", Value(Result))
  <2>1. PICK g : g = At(gen, "last")
    OBVIOUS
  <2>2. IsGen(g) /\ g.queue = gen.queue
    BY <1>1, <2>1 DEF IsGen, At
  <2>3. PICK c : c = Value(Result)
    OBVIOUS
  <2>4. OkOutcome(rt, c) /\ Clean(c)
    BY <1>1, <2>3, ValuesOk, AnswersClean
  <2> QED
    BY <1>1, <1>2, <2>1, <2>2, <2>3, <2>4, AnswerGStep
<1>3. CASE /\ Head(gen.queue).kind = "throw"
           /\ js_async_generator_resolve_or_reject(rt, Pop(gen), "reject", Reason(Head(gen.queue).value))
  <2>1. PICK g : g = Pop(gen)
    OBVIOUS
  <2>2. IsGen(g) /\ g.queue = gen.queue
    BY <1>1, <2>1 DEF IsGen, Pop
  <2>3. PICK c : c = Reason(Head(gen.queue).value)
    OBVIOUS
  <2>4. OkOutcome(rt, c) /\ Clean(c)
    BY <1>1, <1>3, <2>3, ValuesOk, AnswersClean
  <2> QED
    BY <1>1, <1>3, <2>1, <2>2, <2>3, <2>4, AnswerGStep
<1> QED
  BY <1>2, <1>3 DEF LoopAnswer

\* Yield, return and throw of the body.
LEMMA BodyAnswerRight ==
  ASSUME RInv, (\E state \in {"yield", "yieldStar"} : Yield(state)) \/ BodyReturn \/ BodyThrow
  PROVE  GStep
<1>1. UNCHANGED <<held, seen>> /\ IsGen(gen) /\ AInv
  BY RInvState DEF Yield, BodyReturn, BodyThrow, BodyRuns
<1>2. PICK c : c = Value(Result)
  OBVIOUS
<1>3. OkOutcome(rt, c) /\ Clean(c)
  BY <1>1, <1>2, ValuesOk, AnswersClean
<1>4. ASSUME NEW state \in {"yield", "yieldStar"}, Yield(state) PROVE GStep
  <2>1. PICK g : g = At([Suspended EXCEPT !.state = state], "again")
    OBVIOUS
  <2>2. IsGen(g) /\ g.queue = gen.queue
    BY <1>1, <2>1 DEF IsGen, At, Suspended, GenFrames, GenStates
  <2>3. js_async_generator_resolve_or_reject(rt, g, "yield", c)
    BY <1>2, <1>4, <2>1 DEF Yield
  <2> QED
    BY <1>1, <1>3, <2>2, <2>3, AnswerGStep
<1>5. PICK f : f = js_async_generator_complete(Suspended)
  OBVIOUS
<1>6. IsGen(f) /\ f.queue = gen.queue
  BY <1>1, <1>5 DEF IsGen, Suspended, js_async_generator_complete, async_func_free, GenFrames, GenStates
<1>7. CASE BodyReturn
  <2>1. PICK g : g = At(f, "again")
    OBVIOUS
  <2>2. IsGen(g) /\ g.queue = gen.queue
    BY <1>6, <2>1 DEF IsGen, At
  <2>3. js_async_generator_resolve_or_reject(rt, g, "done", c)
    BY <1>2, <1>5, <1>7, <2>1 DEF BodyReturn
  <2> QED
    BY <1>1, <1>3, <2>2, <2>3, AnswerGStep
<1>8. CASE BodyThrow
  <2>1. PICK g : g = At(f, "loop")
    OBVIOUS
  <2>2. IsGen(g) /\ g.queue = gen.queue
    BY <1>6, <2>1 DEF IsGen, At
  <2>3. PICK d : d = Reason(Error)
    OBVIOUS
  <2>4. OkOutcome(rt, d) /\ Clean(d)
    BY <1>1, <2>3, ValuesOk, AnswersClean
  <2>5. js_async_generator_resolve_or_reject(rt, g, "reject", d)
    BY <1>5, <1>8, <2>1, <2>3 DEF BodyThrow
  <2> QED
    BY <1>1, <2>2, <2>4, <2>5, AnswerGStep
<1> QED
  BY <1>4, <1>7, <1>8

\* js_async_generator_await: the reaction resumes the generator, and nothing else.
LEMMA GenAwaitRight ==
  ASSUME RInv, NEW v, OkOutcome(rt, Value(v)), Clean(Value(v)), NEW w \in {"await", "return"},
         rt' = Await(rt, v, w), UNCHANGED <<held, seen>>, gen'.queue = gen.queue
  PROVE  GStep
<1>0. RState /\ Sound(rt) /\ Good(rt)
  BY RInvState
<1>1. PICK h : h = Handler("generator", w)
  OBVIOUS
<1>2. OkHandler(rt, h) /\ Simple(h)
  BY <1>0, <1>1, HandlersOk, SimpleKinds
<1>3. PICK x : x = js_promise_resolve(rt, Value(v))
  OBVIOUS
<1>4. PICK t : t = rt'
  OBVIOUS
<1>5. t = perform_promise_then(x[1], x[2], h, h, None)
  BY <1>1, <1>3, <1>4 DEF Await
<1>6. Advances(rt, rt.jobs, t)
  BY <1>0, <1>2, <1>3, <1>5, AwaitRight
<1>7. Forward(rt, rt')
  BY <1>4, <1>6 DEF Forward
<1>8. RStep
  BY <1>0, <1>7, RStepOld
<1> QED
  BY <1>8, GStepQueue

\* js_async_generator_completed_return
LEMMA AwaitReturnRight ==
  ASSUME RInv, LoopAwaitReturn
  PROVE  GStep
<1>1. UNCHANGED <<held, seen>> /\ gen.queue # <<>> /\ IsGen(gen) /\ AInv
  BY RInvState DEF LoopAwaitReturn, Loop
<1>2. PICK v : v = Head(gen.queue).value
  OBVIOUS
<1>3. OkOutcome(rt, Value(v)) /\ Clean(Value(v)) /\ rt' = Await(rt, v, "return")
  BY <1>1, <1>2, ValuesOk, AnswersClean DEF LoopAwaitReturn
<1>4. gen'.queue = gen.queue
  BY <1>1 DEF LoopAwaitReturn, Pop, IsGen
<1> QED
  BY <1>1, <1>3, <1>4, GenAwaitRight

\* js_async_generator_await, called by the body
LEMMA BodyAwaitRight ==
  ASSUME RInv, NEW v \in Things, BodyAwait(v)
  PROVE  GStep
<1>1. UNCHANGED <<held, seen>> /\ IsGen(gen) /\ RState
  BY RInvState DEF BodyAwait, BodyRuns
<1>2. OkOutcome(rt, Value(v)) /\ Clean(Value(v)) /\ rt' = Await(rt, v, "await")
  BY <1>1, ThingsClean DEF BodyAwait
<1>3. gen'.queue = gen.queue
  BY <1>1 DEF BodyAwait, Suspended, Pop, IsGen
<1> QED
  BY <1>1, <1>2, <1>3, GenAwaitRight

\* js_async_generator_resolve_function, for the body.
LEMMA AwaitOverRight ==
  ASSUME RInv, AwaitOver
  PROVE  GStep
<1>0. RState /\ IsGen(gen)
  BY RInvState
<1>1. PICK job, u : Took(job, "generator", u)
  BY <1>0, TookOk DEF AwaitOver, Awaited
<1>2. rt' = u /\ UNCHANGED <<held, seen>>
  BY <1>1 DEF AwaitOver, Awaited, Reacts, Took, Ran
<1>3. gen'.queue = gen.queue
  BY <1>0 DEF AwaitOver, Push, IsGen
<1>4. Forward(rt, rt')
  BY <1>1, <1>2 DEF Took, Forward
<1>5. RStep
  BY <1>0, <1>2, <1>4, RStepOld
<1> QED
  BY <1>3, <1>5, GStepQueue

\* js_async_generator_resolve_function, for a request to return: it is answered
\* with the reason, or as done.
LEMMA ReturnOverRight ==
  ASSUME RInv, ReturnOver
  PROVE  GStep
<1>0. RState /\ IsGen(gen) /\ AInv /\ QueueRight(rt, gen.queue)
  BY RInvState
<1>1. PICK job, u : Took(job, "generator", u)
  BY <1>0, TookOk DEF ReturnOver, Awaited
<1>2. job = Job /\ u = Dequeued /\ UNCHANGED <<held, seen>>
  BY <1>1 DEF ReturnOver, Awaited, Reacts, Took, Ran
<1>3. Sound(u) /\ Onward(rt, u) /\ Clean(job.outcome) /\ OkOutcome(u, job.outcome)
  BY <1>1, PlainNotPending, PlainOk DEF Took, Advances
<1>4. PICK g : g = [gen EXCEPT !.state = "completed",
                       !.fault = @ \/ gen.state \notin {"awaitingReturn", "completed"}]
  OBVIOUS
<1>5. PICK h : h = Push(g, "last")
  OBVIOUS
<1>6. IsGen(g) /\ g.queue = gen.queue /\ IsGen(h) /\ h.queue = gen.queue
  BY <1>0, <1>4, <1>5 DEF IsGen, Push, GenStates
<1>7. QueueRight(u, gen.queue)
  BY <1>0, <1>3, QueueRightStays
<1>8. PICK c : c = Value(Result)
  OBVIOUS
<1>9. OkOutcome(u, c) /\ Clean(c)
  BY <1>0, <1>8, ValuesOk, AnswersClean
<1>10. \/ js_async_generator_resolve_or_reject(u, g, "reject", job.outcome)
       \/ js_async_generator_resolve_or_reject(u, h, "done", c)
  BY <1>2, <1>4, <1>5, <1>8 DEF ReturnOver
<1>11. Advances(u, u.jobs, rt') /\ QueueRight(rt', gen'.queue)
  <2>1. CASE js_async_generator_resolve_or_reject(u, g, "reject", job.outcome)
    BY <1>3, <1>6, <1>7, <2>1, AnswerRight
  <2>2. CASE js_async_generator_resolve_or_reject(u, h, "done", c)
    BY <1>3, <1>6, <1>7, <1>9, <2>2, AnswerRight
  <2> QED
    BY <1>10, <2>1, <2>2
<1>12. Forward(rt, rt')
  BY <1>0, <1>1, <1>11, TookForward
<1>13. RStep
  BY <1>0, <1>2, <1>12, RStepOld
<1> QED
  BY <1>11, <1>13 DEF GStep

\* Every step.
LEMMA GenRight ==
  ASSUME RInv, GenNext
  PROVE  GStep
<1>0. RState
  BY RInvState
<1>1. ASSUME Request PROVE GStep
  <2>1. Clean(Value(Undefined)) /\ Clean(Value(Error)) /\ Error \in Plain
    BY PromiseAssumption DEF Clean, Value
  <2>2. \A v \in Things : Clean(Value(v))
    BY <1>0, ThingsClean
  <2>3. CASE js_async_generator_next("next", Undefined)
    BY <2>1, <2>3, RequestRight DEF ReqKinds
  <2>4. ASSUME NEW v \in Things, js_async_generator_next("return", v) PROVE GStep
    BY <2>2, <2>4, RequestRight DEF ReqKinds
  <2>5. CASE js_async_generator_next("throw", Error)
    BY <2>1, <2>5, RequestRight DEF ReqKinds
  <2> QED
    BY <1>1, <2>3, <2>4, <2>5 DEF Request
<1>2. ASSUME Body PROVE GStep
  <2>1. \/ (\E state \in {"yield", "yieldStar"} : Yield(state)) \/ BodyReturn \/ BodyThrow
        \/ \E v \in Things : BodyAwait(v)
    BY <1>2 DEF Body
  <2> QED
    BY <2>1, BodyAnswerRight, BodyAwaitRight
<1>3. ASSUME Turn \/ Finalize PROVE GStep
  <2>1. Moves \/ LoopAnswer \/ LoopAwaitReturn
    BY <1>3 DEF Turn, Moves
  <2> QED
    BY <2>1, MovesRight, LoopAnswerRight, AwaitReturnRight
<1>4. ASSUME AnyJob PROVE GStep
  <2>1. AwaitOver \/ ReturnOver \/ (RunJob /\ gen' = gen)
    BY <1>4 DEF AnyJob
  <2> QED
    BY <2>1, AwaitOverRight, ReturnOverRight, EngineRight
<1>5. \/ (Script \/ CombineTurn) /\ gen' = gen
      \/ Request \/ Body \/ Turn \/ AnyJob \/ Finalize
  BY DEF GenNext
<1> QED
  BY <1>1, <1>2, <1>3, <1>4, <1>5, EngineRight

-----------------------------------------------------------------------------
(* Theorems *)

\* At first there is nothing.
LEMMA RInvInit ==
  ASSUME GenInit
  PROVE  RInv
<1>1. AInv
  BY AInvInit
<1>2. /\ rt = [promises |-> <<>>, pairs |-> <<>>, jobs |-> <<>>, asyncs |-> <<>>, groups |-> <<>>]
      /\ held = {} /\ seen = {} /\ gen.queue = <<>>
  BY DEF GenInit, Init
<1>3. /\ Len(rt.promises) = 0 /\ Len(rt.jobs) = 0 /\ Len(rt.asyncs) = 0 /\ Len(rt.groups) = 0
  BY <1>2
<1>4. Pr(rt) = {} /\ As(rt) = {} /\ Gr(rt) = {} /\ 1 .. Len(rt.jobs) = {}
  BY <1>3 DEF Pr, As, Gr
<1>5. Right(rt)
  BY <1>4 DEF Right, RPromises, RJobs, RAsyncs, RGroups, RPairs
<1>6. QueueRight(rt, gen.queue)
  BY <1>2 DEF QueueRight
<1> QED
  BY <1>1, <1>2, <1>5, <1>6 DEF RInv

\* A step keeps the state sound and right.
LEMMA RInvStep ==
  ASSUME RInv, GenNext
  PROVE  RInv' /\ Forward(rt, rt')
<1>1. AInv
  BY RInvState
<1>2. AInv'
  BY <1>1, GenSteps, GenQuietOk, AwaitReturnOk, BodyAwaitOk, AwaitOverOk, ReturnOverOk
<1>3. GStep
  BY GenRight
<1>4. Forward(rt, rt') /\ (\A r \in held' : Free(rt', r)) /\ seen' \subseteq Promises /\ QueueRight(rt', gen'.queue)
  BY <1>3 DEF GStep, RStep
<1>5. Right(rt')
  BY <1>4 DEF Forward, Advances, Sound
<1>6. RInv'
  BY <1>2, <1>4, <1>5 DEF RInv
<1> QED
  BY <1>4, <1>6

\* So does stuttering.
LEMMA RInvSame ==
  ASSUME RInv, UNCHANGED genVars
  PROVE  RInv'
<1>1. AInv' /\ UNCHANGED <<rt, held, seen, gen>>
  BY AInvSame DEF RInv, genVars, vars
<1> QED
  BY <1>1 DEF RInv

\* Who may settle a promise, and with what, is always right.
THEOREM AlwaysRight == GenSpec => []RInv
<1>1. GenInit => RInv
  BY RInvInit
<1>2. RInv /\ [GenNext]_genVars => RInv'
  BY RInvStep, RInvSame
<1> QED
  BY <1>1, <1>2, PTL DEF GenSpec

\* The outcome of a promise that is there.
LEMMA OutcomeIs ==
  ASSUME RInv
  PROVE  /\ DOMAIN rt.promises = Pr(rt) /\ DOMAIN rt.groups = Gr(rt)
         /\ \A p \in Pr(rt) : Outcome(p) = Out(rt, p)
<1>1. Good(rt)
  BY RInvState
<1>2. DOMAIN rt.promises = Pr(rt) /\ DOMAIN rt.groups = Gr(rt)
  BY <1>1 DEF Good, AnyEngine, Pr, Gr
<1> QED
  BY <1>2 DEF Outcome, Out

\* A promise is settled as the one it repeats.
LEMMA RightMirrors ==
  ASSUME RInv
  PROVE  Mirrors
<1>1. RPromises(rt)
  BY DEF RInv, Right
<1>2. \A p \in Pr(rt) : Mirrored(rt, p)
  BY <1>1 DEF RPromises, RightPromise
<1> QED
  BY <1>2, OutcomeIs DEF Mirrors, Settled, Mirrored, Mir

\* The answer of a group is one of GroupAnswer.
LEMMA RightAnswer ==
  ASSUME RInv, NEW g \in Gr(rt), NEW o, Answers(rt, rt.groups[g], o)
  PROVE  o \in GroupAnswer(g)
<1>1. PICK x : x = rt.groups[g]
  OBVIOUS
<1>2. Good(rt)
  BY RInvState
<1>3. /\ x \in AnyGroup /\ \A i \in 1 .. Len(x.items) : x.items[i] \in Pr(rt)
  BY <1>1, <1>2, GroupThere
<1>4. DOMAIN x.items = 1 .. Len(x.items) /\ x.magic \in Combinators
  BY <1>3 DEF AnyGroup
<1>5. \A i \in DOMAIN x.items : Outcome(x.items[i]) = Out(rt, x.items[i])
  BY <1>3, <1>4, OutcomeIs
<1>6. InPlace(rt, x)
  BY <1>1 DEF RInv, Right, RGroups, RightGroup
<1>7. CASE /\ o = IF x.magic = "any" THEN Reason(Error) ELSE Value(List)
           /\ x.magic # "race" /\ Filled(x)
  <2>1. \A i \in DOMAIN x.items : i \in Done(x)
    BY <1>4, <1>7 DEF Filled, Done
  <2>2. \A i \in DOMAIN x.items :
          x.values[i] = Outcome(x.items[i]) /\ x.magic \in Counted(Outcome(x.items[i]).reject)
    BY <1>5, <1>6, <2>1 DEF InPlace
  <2>3. x.magic = "all" => \A i \in DOMAIN x.items : ~Outcome(x.items[i]).reject
    BY <2>2 DEF Counted
  <2>4. x.magic = "any" => \A i \in DOMAIN x.items : Outcome(x.items[i]).reject
    BY <2>2 DEF Counted
  <2> QED
    BY <1>1, <1>4, <1>7, <2>2, <2>3, <2>4 DEF GroupAnswer, Combinators
<1>8. ASSUME o # Pending, x.magic \in Direct(o.reject), NEW i \in 1 .. Len(x.items), o = Out(rt, x.items[i])
      PROVE  o \in GroupAnswer(g)
  <2>1. i \in DOMAIN x.items /\ o = Outcome(x.items[i])
    BY <1>4, <1>5, <1>8
  <2>2. x.magic \in {"all", "any", "race"} /\ (x.magic = "all" => o.reject) /\ (x.magic = "any" => ~o.reject)
    BY <1>8 DEF Direct
  <2> QED
    BY <1>1, <1>8, <2>1, <2>2 DEF GroupAnswer
<1> QED
  BY <1>1, <1>7, <1>8 DEF Answers

\* Every group has the right answer, or none yet.
LEMMA RightGroups ==
  ASSUME RInv
  PROVE  GroupsSound
<1> SUFFICES ASSUME NEW g \in DOMAIN rt.groups, Settled(rt.pairs[rt.groups[g].pair].promise)
             PROVE  Outcome(rt.pairs[rt.groups[g].pair].promise) \in GroupAnswer(g)
  BY DEF GroupsSound
<1>1. g \in Gr(rt) /\ Good(rt)
  BY OutcomeIs, RInvState
<1>2. PICK p : p = Prom(rt, rt.groups[g].pair)
  OBVIOUS
<1>3. p \in Pr(rt) /\ Outcome(p) = Out(rt, p) /\ Outcome(p) # Pending
  BY <1>1, <1>2, GroupThere, OutcomeIs DEF Settled, Prom
<1>4. Replying(rt, rt.groups[g])
  BY <1>1 DEF RInv, Right, RGroups, RightGroup
<1>5. Answers(rt, rt.groups[g], Outcome(p))
  BY <1>2, <1>3, <1>4 DEF Replying
<1>6. Outcome(p) \in GroupAnswer(g)
  BY <1>1, <1>5, RightAnswer
<1> QED
  BY <1>2, <1>6 DEF Prom

\* js_promise_resolve_thenable_job and js_promise_then_finally_func: a promise
\* that was resolved with another one, or that finally returned, is settled as
\* that one is.
THEOREM Repeated == GenSpec => []Mirrors
BY AlwaysRight, RightMirrors, PTL

\* js_promise_all, js_promise_race and js_promise_all_resolve_element: the
\* combinators are settled by the right items, and with the array only when
\* every element is in its place.
THEOREM SoundGroups == GenSpec => []GroupsSound
BY AlwaysRight, RightGroups, PTL

-----------------------------------------------------------------------------
(* PromiseContract *)

\* An entry of the contract's queue.
DueItem(j) ==
  IF j.type = "reaction"
  THEN [on |-> j.reaction.on, n |-> j.reaction.n, outcome |-> j.outcome]
  ELSE [on |-> None, n |-> 0, outcome |-> Pending]

\* The contract's view of state s.
OutcomesOf(s)   == [p \in Promises |-> IF p \in DOMAIN s.promises THEN s.promises[p].outcome ELSE Pending]
RegisteredOf(s) == [p \in Promises |-> IF p \in DOMAIN s.promises THEN s.promises[p].thens ELSE 0]
DueOf(s)        == [i \in DOMAIN s.jobs |-> DueItem(s.jobs[i])]

\* It is the one of Promises.
LEMMA Views ==
  /\ Outcomes = OutcomesOf(rt) /\ Registered = RegisteredOf(rt) /\ DueNow = DueOf(rt)
  /\ Outcomes' = OutcomesOf(rt') /\ Registered' = RegisteredOf(rt') /\ DueNow' = DueOf(rt')
BY DEF Outcomes, Registered, DueNow, Outcome, OutcomesOf, RegisteredOf, DueOf, DueItem

\* What it shows of promises and jobs.
LEMMA ViewIs ==
  ASSUME NEW s, Good(s)
  PROVE  /\ \A p \in Promises :
              /\ p \in Pr(s) => OutcomesOf(s)[p] = Out(s, p) /\ RegisteredOf(s)[p] = s.promises[p].thens
              /\ p \notin Pr(s) => OutcomesOf(s)[p] = Pending /\ RegisteredOf(s)[p] = 0
         /\ Len(s.jobs) \in Nat /\ DueOf(s) \in Seq({DueItem(s.jobs[i]) : i \in 1 .. Len(s.jobs)})
         /\ Len(DueOf(s)) = Len(s.jobs) /\ \A i \in 1 .. Len(s.jobs) : DueOf(s)[i] = DueItem(s.jobs[i])
<1>1. DOMAIN s.promises = Pr(s)
  BY DEF Good, AnyEngine, Pr
<1>2. PICK n \in Nat : n = Len(s.jobs) /\ DOMAIN s.jobs = 1 .. n
  BY DEF Good, AnyEngine
<1>3. PICK d : d = DueOf(s)
  OBVIOUS
<1>4. d = [i \in 1 .. n |-> DueItem(s.jobs[i])]
  BY <1>2, <1>3 DEF DueOf
<1>5. PICK S : S = {DueItem(s.jobs[i]) : i \in 1 .. n}
  OBVIOUS
<1>6. d \in [1 .. n -> S]
  BY <1>4, <1>5
<1>7. d \in Seq(S) /\ Len(d) = n
  BY <1>6
<1>8. \A i \in 1 .. n : d[i] = DueItem(s.jobs[i])
  BY <1>4
<1> QED
  BY <1>1, <1>2, <1>3, <1>5, <1>7, <1>8 DEF OutcomesOf, RegisteredOf, Out

\* A step that leaves the jobs l, as the contract sees it.
CAdded(n, t, p) == {i \in n + 1 .. Len(DueOf(t)) : DueOf(t)[i].on = p}
CFirst(s, p) == IF OutcomesOf(s)[p] = Pending THEN 1 ELSE RegisteredOf(s)[p] + 1
CLast(t, p)  == IF OutcomesOf(t)[p] = Pending THEN 0 ELSE RegisteredOf(t)[p]

\* What a step makes due is what the contract asks for.
LEMMA ContractAdded ==
  ASSUME NEW s, Good(s), NEW l, NEW t, Advances(s, l, t), NEW p \in Promises, NEW n, n = Len(l)
  PROVE  /\ {DueOf(t)[i].n : i \in CAdded(n, t, p)} = CFirst(s, p) .. CLast(t, p)
         /\ \A i \in CAdded(n, t, p) : DueOf(t)[i].outcome = OutcomesOf(t)[p]
         /\ \A i, j \in CAdded(n, t, p) : i < j => DueOf(t)[i].n < DueOf(t)[j].n
<1>1. Good(t) /\ RJobs(t) /\ Pr(s) \subseteq Pr(t) /\ n \in Nat
  BY DEF Advances, Sound, Right, Onward, Delivers
<1>2. PICK m \in Nat : m = Len(t.jobs)
  BY <1>1, ViewIs
<1>3. Len(DueOf(t)) = m /\ \A i \in 1 .. m : DueOf(t)[i] = DueItem(t.jobs[i])
  BY <1>1, <1>2, ViewIs
<1>4. p \in Nat /\ p # None
  BY PromiseAssumption DEF Promises
<1>5. ASSUME NEW i \in CAdded(n, t, p)
      PROVE  /\ i \in Fresh(t, n, p) /\ i \in 1 .. m
             /\ DueOf(t)[i].n = t.jobs[i].reaction.n /\ DueOf(t)[i].outcome = t.jobs[i].outcome
  <2>1. i \in n + 1 .. m /\ DueOf(t)[i].on = p
    BY <1>3 DEF CAdded
  <2>2. i \in 1 .. m
    BY <1>1, <2>1
  <2>3. DueOf(t)[i] = DueItem(t.jobs[i])
    BY <1>3, <2>2
  <2>4. t.jobs[i].type = "reaction"
    BY <1>4, <2>1, <2>3 DEF DueItem
  <2>5. DueOf(t)[i] = [on |-> t.jobs[i].reaction.on, n |-> t.jobs[i].reaction.n, outcome |-> t.jobs[i].outcome]
    BY <2>3, <2>4 DEF DueItem
  <2> QED
    BY <1>2, <2>1, <2>2, <2>4, <2>5 DEF Fresh
<1>6. ASSUME NEW i \in Fresh(t, n, p) PROVE i \in CAdded(n, t, p)
  <2>1. i \in n + 1 .. m /\ t.jobs[i].type = "reaction" /\ t.jobs[i].reaction.on = p
    BY <1>2 DEF Fresh
  <2>2. i \in 1 .. m
    BY <1>1, <2>1
  <2>3. DueOf(t)[i].on = p
    BY <1>3, <2>1, <2>2 DEF DueItem
  <2> QED
    BY <1>3, <2>1, <2>3 DEF CAdded
<1>7. ASSUME NEW i \in CAdded(n, t, p)
      PROVE  p \in Pr(t) /\ t.jobs[i].outcome = Out(t, p)
  <2>1. i \in 1 .. m /\ t.jobs[i].type = "reaction" /\ t.jobs[i].reaction.on = p
    BY <1>5 DEF Fresh
  <2>2. RightJob(t, t.jobs[i])
    BY <1>1, <1>2, <2>1 DEF RJobs
  <2> QED
    BY <2>1, <2>2 DEF RightJob
<1>8. CASE p \in Pr(t)
  <2>1. InTurn(s, n, t, p)
    BY <1>8 DEF Advances, Delivers
  <2>2. CFirst(s, p) = Begin(s, p) /\ CLast(t, p) = End(t, p) /\ OutcomesOf(t)[p] = Out(t, p)
    BY <1>1, <1>8, ViewIs DEF CFirst, CLast, Begin, End
  <2>3. /\ \A k : k \in Begin(s, p) .. End(t, p) <=> \E i \in Fresh(t, n, p) : t.jobs[i].reaction.n = k
        /\ \A i, j \in Fresh(t, n, p) : i < j => t.jobs[i].reaction.n < t.jobs[j].reaction.n
    BY <2>1 DEF InTurn
  <2>4. \A k : k \in {DueOf(t)[i].n : i \in CAdded(n, t, p)} <=> \E i \in Fresh(t, n, p) : t.jobs[i].reaction.n = k
    BY <1>5, <1>6
  <2>5. {DueOf(t)[i].n : i \in CAdded(n, t, p)} = Begin(s, p) .. End(t, p)
    BY <2>3, <2>4
  <2>6. \A i, j \in CAdded(n, t, p) : i < j => DueOf(t)[i].n < DueOf(t)[j].n
    BY <1>5, <2>3
  <2> QED
    BY <1>5, <1>7, <2>2, <2>5, <2>6
<1>9. CASE p \notin Pr(t)
  <2>1. CAdded(n, t, p) = {}
    BY <1>7, <1>9
  <2>2. CFirst(s, p) = 1 /\ CLast(t, p) = 0
    BY <1>1, <1>9, ViewIs DEF CFirst, CLast
  <2>3. CFirst(s, p) .. CLast(t, p) = {}
    BY <2>2
  <2> QED
    BY <2>1, <2>3
<1> QED
  BY <1>8, <1>9

\* The rest of what the contract asks of a step: what is settled stays so,
\* reactions are only added, and the list is kept.
LEMMA ContractKept ==
  ASSUME NEW s, Good(s), NEW l, NEW t, Advances(s, l, t), NEW r,
         Len(r) = Len(l), \A i \in 1 .. Len(l) : r[i] = DueItem(l[i])
  PROVE  /\ \A p \in Promises : OutcomesOf(s)[p] # Pending => OutcomesOf(t)[p] = OutcomesOf(s)[p]
         /\ \A p \in Promises : RegisteredOf(t)[p] >= RegisteredOf(s)[p]
         /\ Len(r) <= Len(DueOf(t)) /\ \A i \in 1 .. Len(r) : DueOf(t)[i] = r[i]
<1>1. Good(t) /\ Onward(s, t) /\ Delivers(s, l, t)
  BY DEF Advances, Sound
<1>2. ASSUME NEW p \in Promises
      PROVE  /\ OutcomesOf(s)[p] # Pending => OutcomesOf(t)[p] = OutcomesOf(s)[p]
             /\ RegisteredOf(t)[p] >= RegisteredOf(s)[p]
  <2>1. CASE p \in Pr(s)
    <3>1. p \in Pr(t) /\ (Out(s, p) # Pending => Out(t, p) = Out(s, p)) /\ s.promises[p].thens <= t.promises[p].thens
      BY <1>1, <2>1 DEF Onward, Delivers
    <3>2. s.promises[p].thens \in Nat /\ t.promises[p].thens \in Nat
      BY <1>1, <2>1, <3>1, ThensNat
    <3>3. t.promises[p].thens >= s.promises[p].thens
      BY <3>1, <3>2
    <3> QED
      BY <1>1, <2>1, <3>1, <3>3, ViewIs
  <2>2. CASE p \notin Pr(s)
    <3>1. OutcomesOf(s)[p] = Pending /\ RegisteredOf(s)[p] = 0
      BY <2>2, ViewIs
    <3>2. RegisteredOf(t)[p] \in Nat
      <4>1. CASE p \in Pr(t)
        BY <1>1, <4>1, ViewIs, ThensNat
      <4>2. CASE p \notin Pr(t)
        <5>1. RegisteredOf(t)[p] = 0
          BY <1>1, <4>2, ViewIs
        <5> QED
          BY <5>1
      <4> QED
        BY <4>1, <4>2
    <3>3. RegisteredOf(t)[p] >= 0
      BY <3>2
    <3> QED
      BY <3>1, <3>3
  <2> QED
    BY <2>1, <2>2
<1>3. PICK n \in Nat : n = Len(l)
  BY <1>1 DEF Delivers
<1>4. PICK m \in Nat : m = Len(t.jobs)
  BY <1>1, ViewIs
<1>5. n <= m /\ \A i \in 1 .. n : t.jobs[i] = l[i]
  BY <1>1, <1>3, <1>4 DEF Delivers
<1>6. Len(DueOf(t)) = m /\ \A i \in 1 .. m : DueOf(t)[i] = DueItem(t.jobs[i])
  BY <1>1, <1>4, ViewIs
<1>7. \A i \in 1 .. n : i \in 1 .. m
  BY <1>5
<1>8. \A i \in 1 .. n : DueOf(t)[i] = r[i]
  BY <1>3, <1>5, <1>6, <1>7
<1> QED
  BY <1>2, <1>3, <1>5, <1>6, <1>8

\* A step that leaves the jobs l is one the contract allows.
LEMMA ContractStep ==
  ASSUME Good(rt), NEW l, Advances(rt, l, rt'), NEW r,
         Len(r) = Len(l), \A i \in 1 .. Len(l) : r[i] = DueItem(l[i])
  PROVE  Contract!Step(r)
<1>1. PICK t : t = rt'
  OBVIOUS
<1>2. Advances(rt, l, t)
  BY <1>1
<1>3. PICK n : n = Len(r)
  OBVIOUS
<1>4. /\ \A p \in Promises : OutcomesOf(rt)[p] # Pending => OutcomesOf(t)[p] = OutcomesOf(rt)[p]
      /\ \A p \in Promises : RegisteredOf(t)[p] >= RegisteredOf(rt)[p]
      /\ n <= Len(DueOf(t)) /\ \A i \in 1 .. n : DueOf(t)[i] = r[i]
  BY <1>2, <1>3, ContractKept
<1>5. ASSUME NEW p \in Promises
      PROVE  /\ {DueOf(t)[i].n : i \in CAdded(n, t, p)} = CFirst(rt, p) .. CLast(t, p)
             /\ \A i \in CAdded(n, t, p) : DueOf(t)[i].outcome = OutcomesOf(t)[p]
             /\ \A i, j \in CAdded(n, t, p) : i < j => DueOf(t)[i].n < DueOf(t)[j].n
  BY <1>2, <1>3, ContractAdded
<1>6. /\ Outcomes = OutcomesOf(rt) /\ Registered = RegisteredOf(rt)
      /\ Outcomes' = OutcomesOf(t) /\ Registered' = RegisteredOf(t) /\ DueNow' = DueOf(t)
  BY <1>1, Views
<1>7. /\ \A p \in Promises : Outcomes[p] # Pending => Outcomes'[p] = Outcomes[p]
      /\ \A p \in Promises : Registered'[p] >= Registered[p]
      /\ Len(r) <= Len(DueNow')
      /\ \A i \in 1 .. Len(r) : DueNow'[i] = r[i]
  BY <1>3, <1>4, <1>6
<1>8. ASSUME NEW p \in Promises
      PROVE  LET added == {i \in Len(r) + 1 .. Len(DueNow') : DueNow'[i].on = p}
             IN  /\ {DueNow'[i].n : i \in added} = Contract!NewlyDue(p)
                 /\ \A i \in added : DueNow'[i].outcome = Outcomes'[p]
                 /\ \A i, j \in added : i < j => DueNow'[i].n < DueNow'[j].n
  <2>1. Contract!NewlyDue(p) = CFirst(rt, p) .. CLast(t, p)
    BY <1>6 DEF Contract!NewlyDue, CFirst, CLast
  <2>2. {i \in Len(r) + 1 .. Len(DueNow') : DueNow'[i].on = p} = CAdded(n, t, p)
    BY <1>3, <1>6 DEF CAdded
  <2> QED
    BY <1>5, <1>6, <2>1, <2>2
<1> QED
  BY <1>7, <1>8 DEF Contract!Step

\* A step of the engine is a step of the contract.
LEMMA ContractNext ==
  ASSUME Good(rt), Forward(rt, rt')
  PROVE  Contract!Next
<1>1. PICK d : d = DueNow
  OBVIOUS
<1>2. PICK S : S = {DueItem(rt.jobs[i]) : i \in 1 .. Len(rt.jobs)}
  OBVIOUS
<1>3. PICK n \in Nat : n = Len(rt.jobs)
  BY ViewIs
<1>4. d \in Seq(S) /\ Len(d) = n /\ \A i \in 1 .. n : d[i] = DueItem(rt.jobs[i])
  BY <1>1, <1>2, <1>3, Views, ViewIs
<1>5. CASE Advances(rt, rt.jobs, rt')
  <2>1. Contract!Step(d)
    BY <1>3, <1>4, <1>5, ContractStep
  <2> QED
    BY <1>1, <2>1 DEF Contract!Next, Contract!Act
<1>6. CASE rt.jobs # <<>> /\ Advances(rt, Tail(rt.jobs), rt')
  <2>1. rt.jobs \in Seq(Jobs)
    BY DEF Good, AnyEngine
  <2>2. PICK l : l = Tail(rt.jobs)
    OBVIOUS
  <2>3. Len(l) = n - 1 /\ n > 0 /\ \A j \in 1 .. n - 1 : l[j] = rt.jobs[j + 1]
    BY <1>3, <1>6, <2>1, <2>2, SeqTail
  <2>4. d # <<>>
    BY <1>4, <2>3
  <2>5. PICK r : r = Tail(d)
    OBVIOUS
  <2>6. Len(r) = n - 1 /\ \A j \in 1 .. n - 1 : r[j] = d[j + 1]
    BY <1>4, <2>4, <2>5, SeqTail
  <2>7. \A j \in 1 .. n - 1 : j + 1 \in 1 .. n
    OBVIOUS
  <2>8. Len(r) = Len(l) /\ \A j \in 1 .. Len(l) : r[j] = DueItem(l[j])
    BY <1>4, <2>3, <2>6, <2>7
  <2>9. Contract!Step(r)
    BY <1>6, <2>2, <2>8, ContractStep
  <2> QED
    BY <1>1, <2>4, <2>5, <2>9 DEF Contract!Next, Contract!Run
<1> QED
  BY <1>5, <1>6 DEF Forward

\* At first nothing is settled and nothing is due.
LEMMA ContractInit ==
  ASSUME GenInit
  PROVE  Contract!Init
<1>1. rt = [promises |-> <<>>, pairs |-> <<>>, jobs |-> <<>>, asyncs |-> <<>>, groups |-> <<>>]
  BY DEF GenInit, Init
<1>2. DOMAIN rt.promises = {} /\ DOMAIN rt.jobs = {}
  BY <1>1
<1>3. Outcomes = [p \in Promises |-> Pending] /\ Registered = [p \in Promises |-> 0]
  BY <1>2 DEF Outcomes, Registered, Outcome
<1>4. DueNow = <<>>
  BY <1>2 DEF DueNow
<1> QED
  BY <1>3, <1>4 DEF Contract!Init

\* js_promise_then, fulfill_or_reject_promise and JS_ExecutePendingJob
\* implement PromiseContract: a promise is settled once, and every reaction
\* becomes due and runs once, in order, with the outcome of its promise.
THEOREM ContractKeeping == GenSpec => KeepsContract
<1>1. GenInit => Contract!Init
  BY ContractInit
<1>2. RInv /\ [GenNext]_genVars => [Contract!Next]_(Contract!vars)
  <2>1. ASSUME RInv, GenNext PROVE Contract!Next
    BY <2>1, RInvStep, RInvState, ContractNext
  <2>2. ASSUME UNCHANGED genVars PROVE UNCHANGED Contract!vars
    BY <2>2, Views DEF genVars, vars, Contract!vars
  <2> QED
    BY <2>1, <2>2
<1>3. GenSpec => []RInv
  BY AlwaysRight
<1> QED
  BY <1>1, <1>2, <1>3, PTL DEF GenSpec, KeepsContract, Contract!Spec

=============================================================================
