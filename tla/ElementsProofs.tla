--------------------------- MODULE ElementsProofs ----------------------------
(***************************************************************************)
(* Proofs about Elements, for every set of ids and every tree: first for   *)
(* every script, then what more a script gets that uses fresh ids, and     *)
(* last one that waits as well.                                            *)
(***************************************************************************)
EXTENDS Elements, TLAPS

\* The part of the state the registry depends on has its type.
RegistryType ==
  /\ created \in [Ids -> 0 .. MaxElements]
  /\ listeners \in [Ids -> 0 .. MaxElements]
  /\ pending \in Seq(SUBSET Elem)

\* Nothing exists before the page is mounted.
Unmounted ==
  created[Top] = 0 => /\ alive = {}
                      /\ pending = <<>>
                      /\ \A i \in Ids : created[i] = 0

\* The registrations in the queue q are of elements that exist and are younger
\* than the registered ones.
Younger(q) ==
  \A k \in DOMAIN q : \A e \in q[k] :
    listeners[e[1]] < e[2] /\ e[2] <= created[e[1]]

\* Elements of one id are queued oldest first, and a batch has one at most.
Ordered(q) ==
  \A j, k \in DOMAIN q : \A e \in q[j], f \in q[k] :
    e[1] = f[1] => (j < k => e[2] < f[2]) /\ (j = k => e = f)

\* NeverOlder is not inductive: that the registration of one element leaves
\* only younger ones behind needs the order of the queue, and that new
\* elements are younger than all of them needs the count of created ones.
IInv ==
  /\ RegistryType
  /\ Unmounted
  /\ \A i \in Ids : listeners[i] <= created[i]
  /\ Younger(pending)
  /\ Ordered(pending)

\* A page starts with no element and an empty registry.
LEMMA InitIInv == Init => IInv
BY IdAssumption, ElementBound
   DEF Init, IInv, RegistryType, Unmounted, Younger, Ordered, NodeIds

\* ElementNotifier.removeListener only ever empties entries.
LEMMA OffStep ==
  ASSUME IInv, NEW es, listeners' = Off(es), UNCHANGED <<created, pending, alive>>
  PROVE  IInv'
<1> USE DEF IInv, RegistryType
<1>1. listeners' \in [Ids -> 0 .. MaxElements]
  BY ElementBound DEF Off
<1>2. \A i \in Ids : listeners'[i] <= listeners[i]
  BY DEF Off
<1>3. Younger(pending)'
  <2> SUFFICES ASSUME NEW k \in DOMAIN pending, NEW e \in pending[k]
               PROVE  listeners'[e[1]] < e[2] /\ e[2] <= created[e[1]]
    BY DEF Younger
  <2>1. e \in Elem
    OBVIOUS
  <2>2. e[1] \in Ids /\ e[2] \in Nat
    BY <2>1 DEF Elem
  <2>3. listeners[e[1]] < e[2] /\ e[2] <= created[e[1]]
    BY DEF Younger
  <2> QED
    BY <1>1, <1>2, <2>2, <2>3
<1>4. \A i \in Ids : listeners'[i] <= created'[i]
  BY <1>1, <1>2
<1> QED
  BY <1>1, <1>3, <1>4 DEF Unmounted, Ordered

\* The Future of ElementNotifier runs: what stays queued is younger than the
\* element it registers.
LEMMA RegisterStep ==
  ASSUME IInv, NEW e \in Elem, Register(e)
  PROVE  IInv'
<1> USE DEF IInv, RegistryType, Register
<1>1. /\ e[1] \in Ids /\ e[2] \in 1 .. MaxElements
      /\ pending # <<>> /\ 1 \in DOMAIN pending /\ e \in pending[1]
      /\ MaxElements \in Nat
  BY ElementBound DEF Elem
<1>2. /\ listeners' \in [Ids -> 0 .. MaxElements]
      /\ listeners'[e[1]] = e[2]
      /\ \A i \in Ids : i # e[1] => listeners'[i] = listeners[i]
  BY <1>1
<1>3. e[2] <= created[e[1]]
  BY <1>1 DEF Younger
<1>4. PICK n \in {0, 1} :
        /\ pending' \in Seq(SUBSET Elem)
        /\ \A k \in DOMAIN pending' :
             /\ k + n \in DOMAIN pending
             /\ pending'[k] \subseteq pending[k + n] \ (IF k + n = 1 THEN {e} ELSE {})
  <2>1. CASE Head(pending) = {e}
    <3>1. pending' = Tail(pending)
      BY <2>1
    <3>2. /\ pending' \in Seq(SUBSET Elem)
          /\ \A k \in DOMAIN pending' :
               k + 1 \in DOMAIN pending /\ pending'[k] = pending[k + 1] /\ k + 1 # 1
      BY <1>1, <3>1
    <3> QED
      BY <3>2
  <2>2. CASE Head(pending) # {e}
    <3>1. pending' = [pending EXCEPT ![1] = @ \ {e}]
      BY <2>2
    <3>2. pending' \in Seq(SUBSET Elem)
      <4>1. pending[1] \ {e} \in SUBSET Elem
        BY <1>1
      <4>2. pending' = [pending EXCEPT ![1] = pending[1] \ {e}]
        BY <1>1, <3>1
      <4> HIDE DEF Register
      <4> QED
        BY <1>1, <4>1, <4>2
    <3>3. /\ DOMAIN pending' = DOMAIN pending
          /\ \A k \in DOMAIN pending : k \in Nat /\ k + 0 = k
          /\ \A k \in DOMAIN pending' :
               pending'[k] \subseteq pending[k] \ (IF k = 1 THEN {e} ELSE {})
      BY <1>1, <3>1
    <3> QED
      BY <3>2, <3>3
  <2> QED
    BY <2>1, <2>2
<1>5. ASSUME NEW k \in DOMAIN pending', NEW f \in pending'[k]
      PROVE  listeners'[f[1]] < f[2] /\ f[2] <= created[f[1]]
  <2>1. k + n \in DOMAIN pending /\ f \in pending[k + n] /\ (k + n = 1 => f # e)
    BY <1>4
  <2>2. f[1] \in Ids /\ f[2] \in Nat
    BY <2>1 DEF Elem
  <2>3. listeners[f[1]] < f[2] /\ f[2] <= created[f[1]]
    BY <2>1 DEF Younger
  <2>4. CASE f[1] = e[1]
    <3>1. k + n # 1
      BY <1>1, <2>1, <2>4 DEF Ordered
    <3>2. 1 < k + n
      BY <2>1, <3>1
    <3>3. e[2] < f[2]
      BY <1>1, <2>1, <2>4, <3>2 DEF Ordered
    <3> QED
      BY <1>2, <2>3, <2>4, <3>3
  <2>5. CASE f[1] # e[1]
    BY <1>2, <2>2, <2>3, <2>5
  <2> QED
    BY <2>4, <2>5
<1>6. Ordered(pending')
  <2> SUFFICES ASSUME NEW j \in DOMAIN pending', NEW k \in DOMAIN pending',
                      NEW f \in pending'[j], NEW g \in pending'[k], f[1] = g[1]
               PROVE  (j < k => f[2] < g[2]) /\ (j = k => f = g)
    BY DEF Ordered
  <2>1. /\ j + n \in DOMAIN pending /\ f \in pending[j + n]
        /\ k + n \in DOMAIN pending /\ g \in pending[k + n]
    BY <1>4
  <2>2. j \in Nat /\ k \in Nat
    BY <1>4
  <2>3. (j < k => j + n < k + n) /\ (j = k => j + n = k + n)
    BY <2>2
  <2> QED
    BY <2>1, <2>3 DEF Ordered
<1>7. \A i \in Ids : listeners'[i] <= created'[i]
  BY <1>2, <1>3
<1>8. Unmounted'
  BY <1>1 DEF Unmounted
<1>9. Younger(pending)'
  BY <1>2, <1>5 DEF Younger
<1>10. Ordered(pending)'
  BY <1>6
<1> QED
  BY <1>2, <1>4, <1>7, <1>8, <1>9, <1>10

\* createNodeElement for the ids S: the batch it queues is younger than all
\* there is.
LEMMA CreateStep ==
  ASSUME IInv, NEW S \in SUBSET Ids,
         created[Top] # 0 \/ Top \in S,
         \A i \in S : created[i] < MaxElements,
         created' = [i \in Ids |-> IF i \in S THEN created[i] + 1 ELSE created[i]],
         pending' = Append(pending, NewElems(S)),
         UNCHANGED listeners
  PROVE  IInv'
<1> USE DEF IInv, RegistryType
<1>0. MaxElements \in Nat /\ Top \in Ids
  BY ElementBound, IdAssumption DEF NodeIds
<1>1. created' \in [Ids -> 0 .. MaxElements]
  BY <1>0
<1>2. \A i \in Ids : created[i] <= created'[i]
  BY <1>0
<1>3. ASSUME NEW e \in NewElems(S)
      PROVE  /\ e \in Elem
             /\ e[1] \in S
             /\ e[2] = created[e[1]] + 1
             /\ e[2] = created'[e[1]]
             /\ e = <<e[1], e[2]>>
  <2>1. PICK i \in S : e = <<i, created[i] + 1>>
    BY <1>3 DEF NewElems, NewElem
  <2> QED
    BY <1>0, <2>1 DEF Elem
<1>4. pending' \in Seq(SUBSET Elem)
  <2>1. NewElems(S) \in SUBSET Elem
    BY <1>3
  <2> QED
    BY <2>1
<1>5. /\ DOMAIN pending' = DOMAIN pending \cup {Len(pending) + 1}
      /\ \A k \in DOMAIN pending : pending'[k] = pending[k] /\ k \in Nat /\ k < Len(pending) + 1
      /\ pending'[Len(pending) + 1] = NewElems(S)
      /\ Len(pending) \in Nat
  OBVIOUS
<1>6. ASSUME NEW k \in DOMAIN pending, NEW e \in pending[k]
      PROVE  /\ e[1] \in Ids /\ e[2] \in Nat
             /\ listeners[e[1]] < e[2]
             /\ e[2] <= created[e[1]]
             /\ e[2] <= created'[e[1]]
  <2>1. e[1] \in Ids /\ e[2] \in Nat
    BY DEF Elem
  <2>2. listeners[e[1]] < e[2] /\ e[2] <= created[e[1]]
    BY DEF Younger
  <2> QED
    BY <1>1, <1>2, <2>1, <2>2
<1>7. ASSUME NEW e \in NewElems(S)
      PROVE  listeners[e[1]] < e[2] /\ e[2] <= created'[e[1]]
  <2> DEFINE i == e[1]
  <2>1. i \in Ids /\ e[2] = created[i] + 1 /\ e[2] = created'[i]
    BY <1>3
  <2>2. listeners[i] <= created[i] /\ listeners[i] \in Nat /\ created[i] \in Nat
    BY <1>0, <2>1
  <2> HIDE DEF i
  <2>3. listeners[i] < e[2] /\ e[2] <= created'[i]
    BY <2>1, <2>2
  <2> QED
    BY <2>3 DEF i
<1>8. Younger(pending)'
  BY <1>5, <1>6, <1>7 DEF Younger
<1>9. ASSUME NEW j \in DOMAIN pending', NEW k \in DOMAIN pending',
             NEW e \in pending'[j], NEW f \in pending'[k], e[1] = f[1]
      PROVE  (j < k => e[2] < f[2]) /\ (j = k => e = f)
  <2>1. CASE j \in DOMAIN pending /\ k \in DOMAIN pending
    BY <1>5, <1>9, <2>1 DEF Ordered
  <2>2. CASE j \in DOMAIN pending /\ k = Len(pending) + 1
    <3>1. e[2] <= created[e[1]] /\ e[2] \in Nat /\ e[1] \in Ids
      BY <1>5, <1>6, <2>2
    <3>2. f[2] = created[f[1]] + 1
      BY <1>3, <1>5, <2>2
    <3>3. j # k /\ created[e[1]] \in Nat
      BY <1>0, <1>5, <2>2, <3>1
    <3>4. e[2] < f[2]
      BY <1>9, <3>1, <3>2, <3>3
    <3> QED
      BY <3>3, <3>4
  <2>3. CASE j = Len(pending) + 1 /\ k \in DOMAIN pending
    BY <1>5, <2>3
  <2>4. CASE j = Len(pending) + 1 /\ k = Len(pending) + 1
    <3>1. e \in NewElems(S) /\ f \in NewElems(S)
      BY <1>5, <2>4
    <3>2. e = <<e[1], created[e[1]] + 1>> /\ f = <<f[1], created[f[1]] + 1>>
      BY <1>3, <3>1
    <3>3. e = f
      BY <1>9, <3>2
    <3> QED
      BY <1>5, <2>4, <3>3
  <2> QED
    BY <1>5, <2>1, <2>2, <2>3, <2>4
<1>10. Ordered(pending)'
  BY <1>9 DEF Ordered
<1>11. \A i \in Ids : listeners'[i] <= created'[i]
  BY <1>0, <1>1, <1>2
<1>12. created'[Top] # 0
  BY <1>0
<1> QED
  BY <1>1, <1>4, <1>8, <1>10, <1>11, <1>12 DEF Unmounted

\* Messages, futures and frames keep the registry behind the queue.
LEMMA NextIInv == IInv /\ [Next]_vars => IInv'
<1> SUFFICES ASSUME IInv, [Next]_vars PROVE IInv'
  OBVIOUS
<1>0. Top \in Ids /\ MaxElements \in Nat \ {0}
  BY IdAssumption, ElementBound DEF NodeIds
<1>1. CASE UNCHANGED <<created, listeners, pending>> /\ (alive' = alive \/ alive # {})
  BY <1>0, <1>1 DEF IInv, RegistryType, Unmounted, Younger, Ordered
<1>2. ASSUME NEW S \in SUBSET (Ids \ {Top}), NEW H, NEW V, Mount(S, H, V) PROVE IInv'
  <2> DEFINE T == S \cup {Top}
  <2>1. T \in SUBSET Ids /\ Top \in T
    BY <1>0
  <2>2. pending = <<>> /\ \A i \in Ids : created[i] = 0
    BY <1>2 DEF Mount, IInv, Unmounted
  <2>3. created' = [i \in Ids |-> IF i \in T THEN created[i] + 1 ELSE created[i]]
    BY <1>2, <2>1, <2>2 DEF Mount
  <2>4. pending' = Append(pending, NewElems(T))
    BY <1>2, <2>2 DEF Mount
  <2>5. \A i \in T : created[i] < MaxElements
    BY <1>0, <2>1, <2>2
  <2>6. UNCHANGED listeners
    BY <1>2 DEF Mount
  <2> HIDE DEF T
  <2> QED
    BY <2>1, <2>3, <2>4, <2>5, <2>6, CreateStep
<1>3. ASSUME NEW id \in Ids, NEW r \in BOOLEAN, UpdateProps(id, r) PROVE IInv'
  BY <1>1, <1>3 DEF UpdateProps, Drop
<1>4. ASSUME NEW id \in Ids, NEW S \in SUBSET Replaced(id), NEW H, NEW V,
             UpdateChildren(id, S, H, V)
      PROVE  IInv'
  <2>1. alive # {} /\ RenderObject(id, S, H, V) /\ S \in SUBSET Ids
    BY <1>4 DEF UpdateChildren, Replaced
  <2>2. CASE Drop(id)
    BY <1>1, <2>1, <2>2 DEF Drop
  <2>3. ASSUME NEW e, CreateElements(e, S, H, V), UNCHANGED listeners
        PROVE  IInv'
    <3>1. created' = [i \in Ids |-> IF i \in S THEN created[i] + 1 ELSE created[i]]
      BY <2>3 DEF CreateElements
    <3>2. CASE S = {}
      <4>1. created' = created /\ pending' = pending
        BY <2>3, <3>1, <3>2 DEF CreateElements, IInv, RegistryType
      <4> QED
        BY <1>1, <2>1, <2>3, <4>1
    <3>3. CASE S # {}
      <4>1. pending' = Append(pending, NewElems(S))
        BY <2>3, <3>3 DEF CreateElements
      <4>2. created[Top] # 0
        BY <2>1 DEF IInv, Unmounted
      <4>3. \A i \in S : created[i] < MaxElements
        <5>1. \A i \in S : created[i] < (IF ReuseIds THEN MaxElements ELSE 1)
          BY <2>1 DEF RenderObject
        <5>2. \A i \in S : created[i] \in Nat
          BY <2>1, <1>0 DEF IInv, RegistryType
        <5> QED
          BY <1>0, <5>1, <5>2
      <4> QED
        BY <2>1, <2>3, <3>1, <4>1, <4>2, <4>3, CreateStep
    <3> QED
      BY <3>2, <3>3
  <2> QED
    BY <1>4, <2>2, <2>3 DEF UpdateChildren
<1>5. ASSUME NEW e \in Elem, Register(e) PROVE IInv'
  BY <1>5, RegisterStep
<1>6. CASE DrawFrame
  <2>1. PICK es : listeners' = Off(es)
    BY <1>6 DEF DrawFrame
  <2> QED
    BY <1>6, <2>1, OffStep DEF DrawFrame
<1>7. CASE Tick
  BY <1>1, <1>7 DEF Tick
<1>8. CASE UNCHANGED vars
  BY <1>1, <1>8 DEF vars
<1> QED
  BY <1>2, <1>3, <1>4, <1>5, <1>6, <1>7, <1>8 DEF Next, Send, RunFuture

\* Every reachable state satisfies the inductive invariant.
THEOREM Inductive == Spec => []IInv
BY InitIInv, NextIInv, PTL DEF Spec

\* An id never leads back to an older element: for any tree, any number of
\* elements and any script, a registration that is still queued is for an
\* element younger than the one RootElement has.
THEOREM NeverGoesBack == Spec => []NeverOlder
<1>1. IInv => NeverOlder
  BY DEF IInv, Younger, NeverOlder
<1> QED
  BY <1>1, Inductive, PTL

-----------------------------------------------------------------------------
(* The tree of ids *)

\* The line of i leads from i to parents.
LEMMA LineUp ==
  ASSUME NEW i \in Ids
  PROVE  /\ Line[i] \subseteq Ids /\ i \in Line[i]
         /\ \A k \in Line[i] \ {Top} : Parent[k] \in Line[i]
<1>1. \A k \in Ids \ {Top} : Parent[k] \in Ids
  BY IdAssumption
<1> QED
  BY <1>1 DEF Line

\* It is the least such set.
LEMMA LineLeast ==
  ASSUME NEW i \in Ids, NEW S \in SUBSET Ids, i \in S, \A k \in S \ {Top} : Parent[k] \in S
  PROVE  Line[i] \subseteq S
BY DEF Line

\* Whoever is on the line of i has his own on it.
LEMMA LineWithin ==
  ASSUME NEW i \in Ids, NEW j \in Line[i]
  PROVE  j \in Ids /\ Line[j] \subseteq Line[i]
BY LineUp, LineLeast

\* The line of Top, and the line of another id.
LEMMA LineOf ==
  /\ Top \in Ids /\ Line[Top] = {Top}
  /\ \A i \in Ids \ {Top} : Parent[i] \in Ids /\ Line[i] = {i} \cup Line[Parent[i]]
<1>1. Top \in Ids
  BY IdAssumption DEF NodeIds
<1>2. Line[Top] = {Top}
  <2>1. Top \in Line[Top]
    BY <1>1, LineUp
  <2> DEFINE S == {Top}
  <2>2. S \in SUBSET Ids /\ Top \in S /\ \A k \in S \ {Top} : Parent[k] \in S
    BY <1>1
  <2>3. Line[Top] \subseteq S
    <3> HIDE DEF S
    <3> QED
      BY <1>1, <2>2, LineLeast
  <2> QED
    BY <2>1, <2>3
<1>3. ASSUME NEW i \in Ids \ {Top}
      PROVE  Parent[i] \in Ids /\ Line[i] = {i} \cup Line[Parent[i]]
  <2>1. Parent[i] \in Ids
    BY IdAssumption
  <2> DEFINE S == {i} \cup Line[Parent[i]]
  <2>2. S \in SUBSET Ids /\ i \in S /\ \A k \in S \ {Top} : Parent[k] \in S
    BY <2>1, LineUp
  <2>3. Line[i] \subseteq S
    <3> HIDE DEF S
    <3> QED
      BY <2>2, LineLeast
  <2>4. Parent[i] \in Line[i] /\ i \in Line[i]
    BY LineUp
  <2>5. Line[Parent[i]] \subseteq Line[i]
    BY <2>4, LineWithin
  <2> QED
    BY <2>1, <2>3, <2>4, <2>5
<1> QED
  BY <1>1, <1>2, <1>3

\* Every line begins at Top, and none leads back.
LEMMA LineFromTop ==
  ASSUME NEW i \in Ids
  PROVE  Top \in Line[i] /\ (i # Top => i \notin Line[Parent[i]])
<1>1. Top \in Line[i]
  <2> SUFFICES ASSUME Top \notin Line[i] PROVE FALSE
    OBVIOUS
  <2>1. Line[i] \in SUBSET (Ids \ {Top}) /\ Line[i] # {}
    BY LineUp
  <2>2. PICK k \in Line[i] : Parent[k] \notin Line[i]
    BY <2>1, TreeAssumption
  <2> QED
    BY <2>2, LineUp
<1>2. ASSUME i # Top, i \in Line[Parent[i]] PROVE FALSE
  <2> DEFINE S == {k \in Ids \ {Top} : i \in Line[k]}
  <2>1. S \in SUBSET (Ids \ {Top}) /\ i \in S
    BY <1>2, LineUp
  <2>2. ASSUME NEW k \in S PROVE Parent[k] \in S
    <3>1. k \in Ids \ {Top} /\ i \in Line[k]
      BY <2>2
    <3>2. Parent[k] \in Ids /\ Line[k] = {k} \cup Line[Parent[k]]
      BY <3>1, LineOf
    <3>3. i \in Line[Parent[k]]
      BY <1>2, <3>1, <3>2
    <3>4. Parent[k] # Top
      BY <1>2, <3>3, LineOf
    <3> QED
      BY <3>2, <3>3, <3>4
  <2> HIDE DEF S
  <2>3. S # {} => \E k \in S : Parent[k] \notin S
    BY <2>1, TreeAssumption
  <2> QED
    BY <2>1, <2>2, <2>3
<1> QED
  BY <1>1, <1>2

\* The ids above Top, and above another id.
LEMMA AboveOf ==
  /\ Above[Top] = {}
  /\ \A i \in Ids \ {Top} : Above[i] = Line[Parent[i]]
<1>1. Above[Top] = {}
  BY LineOf DEF Above
<1>2. ASSUME NEW i \in Ids \ {Top} PROVE Above[i] = Line[Parent[i]]
  <2>1. Line[i] = {i} \cup Line[Parent[i]] /\ i \notin Line[Parent[i]]
    BY LineOf, LineFromTop
  <2>2. Above[i] = Line[i] \ {i}
    BY DEF Above
  <2> QED
    BY <2>1, <2>2
<1> QED
  BY <1>1, <1>2

\* Nobody is above himself, directly or through others.
LEMMA AboveOrder ==
  ASSUME NEW i \in Ids, NEW j \in Ids, j \in Above[i]
  PROVE  i \notin Above[j] /\ i # j /\ i # Top /\ Above[j] \subseteq Above[i]
<1>1. i # Top /\ Above[i] = Line[Parent[i]] /\ Parent[i] \in Ids
  BY AboveOf, LineOf
<1>2. Line[j] \subseteq Line[Parent[i]]
  BY <1>1, LineWithin
<1>3. i \notin Line[Parent[i]]
  BY <1>1, LineFromTop
<1>4. Above[j] \subseteq Line[j] /\ j \in Line[j]
  BY LineUp DEF Above
<1> QED
  BY <1>1, <1>2, <1>3, <1>4

\* What an update of the children of c replaces: all below c but its slots.
LEMMA ReplacedIs ==
  ASSUME NEW c \in Ids
  PROVE  /\ Replaced(c) \subseteq Ids \ {Top, c}
         /\ \A i \in Ids \ {Top} : Parent[i] \in Replaced(c) => i \in Replaced(c)
         /\ \A i \in Ids \ {Top} : Parent[i] = c => (i \in Replaced(c) <=> i \notin Fragments)
         /\ \A i \in Replaced(c) : Parent[i] = c \/ Parent[i] \in Replaced(c)
<1>1. /\ \A i \in Ids : i \notin Above[i] /\ Line[i] = Above[i] \cup {i}
      /\ \A i \in Ids \ {Top} : Parent[i] \in Ids /\ Above[i] = Line[Parent[i]]
      /\ Above[Top] = {} /\ Fragments \subseteq Ids \ {Top}
  BY AboveOf, LineOf, LineUp, IdAssumption DEF Above, NodeIds
<1>2. Replaced(c) \subseteq Ids \ {Top, c}
  BY <1>1 DEF Replaced
<1>3. ASSUME NEW i \in Ids \ {Top}, Parent[i] \in Replaced(c) PROVE i \in Replaced(c)
  <2>1. Parent[i] \in Ids /\ c \in Above[Parent[i]] /\ Above[i] = Above[Parent[i]] \cup {Parent[i]}
    BY <1>1, <1>3 DEF Replaced
  <2>2. ASSUME NEW f \in Fragments, Parent[f] = c PROVE f # i /\ f \notin Above[i]
    BY <1>1, <1>3, <2>1, <2>2 DEF Replaced
  <2> QED
    BY <2>1, <2>2 DEF Replaced
<1>4. ASSUME NEW i \in Ids \ {Top}, Parent[i] = c PROVE i \in Replaced(c) <=> i \notin Fragments
  <2>1. Above[i] = Line[c] /\ c \in Above[i]
    BY <1>1, <1>4
  <2>2. \A f \in Fragments : Parent[f] = c => f \notin Line[c]
    BY <1>1
  <2> QED
    BY <1>4, <2>1, <2>2 DEF Replaced
<1>5. ASSUME NEW i \in Replaced(c) PROVE Parent[i] = c \/ Parent[i] \in Replaced(c)
  BY <1>1, <1>2 DEF Replaced
<1> QED
  BY <1>2, <1>3, <1>4, <1>5

-----------------------------------------------------------------------------
(* Types *)

\* The ids of a render object may have another element.
LEMMA NewElemType ==
  ASSUME RegistryType, NEW c, NEW S \in SUBSET Ids, NEW H, NEW V, RenderObject(c, S, H, V)
  PROVE  \A i \in S : NewElem(i) \in Elem
<1>1. \A i \in S : created[i] \in Nat /\ created[i] + 1 <= MaxElements
  BY ElementBound DEF RenderObject, RegistryType
<1> QED
  BY <1>1, ElementBound DEF NewElem, Elem

\* Every fragment belongs to an element of its scaffold.
Owned ==
  \A f \in Fragments : \A n \in 1 .. created[f] :
    \E m \in 1 .. created[Parent[f]] : <<f, n>> \in children[<<Parent[f], m>>]

\* The types are not inductive: an update of a fragment notifies the scaffold
\* that has it among its children, and a page that is mounted has nothing
\* painted yet.
Typed ==
  /\ TypeOK
  /\ created[Top] = 0 => painted = {}
  /\ Owned

\* A new page has the types.
LEMMA InitTyped == Init => Typed
<1>1. Init => Owned
  BY IdAssumption DEF Init, Owned
<1> QED
  BY <1>1, IdAssumption, ElementBound DEF Init, Typed, TypeOK, NodeIds, Elem

\* _mount keeps the types.
LEMMA MountTyped ==
  ASSUME IInv, IInv', Typed, NEW S \in SUBSET (Ids \ {Top}), NEW H \in Hidden(S), NEW V,
         Mount(S, H, V)
  PROVE  Typed'
<1>1. Top \in Ids /\ MaxElements \in Nat \ {0} /\ RegistryType /\ RegistryType'
  BY IdAssumption, ElementBound DEF NodeIds, IInv
<1> DEFINE T == S \cup {Top}
<1>2. \A i \in T : NewElem(i) \in Elem
  <2>1. \A i \in S : NewElem(i) \in Elem
    BY <1>1, NewElemType DEF Mount
  <2>2. NewElem(Top) \in Elem
    BY <1>1 DEF Mount, NewElem, Elem
  <2> QED
    BY <2>1, <2>2
<1>3. children' \in [Elem -> SUBSET Elem]
  BY <1>2 DEF Mount
<1>4. alive' \subseteq Ids /\ current' \subseteq Elem
  BY <1>1, <1>2 DEF Mount, NewElems
<1>h. hidden' \subseteq Elem /\ empty' \subseteq Elem
  <2>1. H \subseteq S /\ V \subseteq T
    BY DEF Hidden, Mount, RenderObject
  <2> QED
    BY <1>2, <2>1 DEF Mount, NewElems
<1>5. painted' = {}
  BY DEF Mount, Typed
<1>6. Owned'
  <2> SUFFICES ASSUME NEW f \in Fragments, NEW n \in 1 .. created'[f]
               PROVE  \E m \in 1 .. created'[Parent[f]] : <<f, n>> \in children'[<<Parent[f], m>>]
    BY DEF Owned
  <2>1. f \in Ids /\ f # Top /\ \A i \in Ids : created[i] = 0
    BY IdAssumption DEF NodeIds, Mount, IInv, Unmounted
  <2>2. f \in S /\ n = 1
    BY <2>1 DEF Mount
  <2>3. Parent[f] \in T /\ Parent[f] \in Ids
    BY <2>2, IdAssumption DEF Mount, RenderObject, NodeIds
  <2>4. <<Parent[f], 1>> \in NewElems(T) /\ <<Parent[f], 1>> \in Elem /\ <<f, 1>> = NewElem(f)
    BY <1>1, <2>1, <2>3 DEF NewElems, NewElem, Elem
  <2>5. <<f, 1>> \in children'[<<Parent[f], 1>>]
    BY <2>2, <2>4 DEF Mount
  <2>6. 1 \in 1 .. created'[Parent[f]]
    BY <1>1, <2>3 DEF Mount
  <2> QED
    BY <2>2, <2>5, <2>6
<1> QED
  BY <1>1, <1>3, <1>4, <1>h, <1>5, <1>6 DEF Typed, TypeOK, RegistryType, Mount

\* The notifier of an element keeps the types.
LEMMA NotifyTyped ==
  ASSUME TypeOK, NEW e \in Elem, NEW r \in BOOLEAN, Notify(e, r)
  PROVE  dirty' \subseteq Elem /\ reshaped' \subseteq dirty' /\ stamped' \subseteq Elem
BY DEF Notify, TypeOK

\* A fragment that is registered has an owner.
LEMMA OwnerType ==
  ASSUME IInv, Typed, NEW id \in Ids, listeners[id] # 0
  PROVE  Owner(<<id, listeners[id]>>) \in Elem
<1> DEFINE e == <<id, listeners[id]>>
<1>1. e \in Elem /\ e[1] = id /\ listeners[id] \in 1 .. created[id]
  BY ElementBound DEF IInv, RegistryType, Elem
<1>2. CASE id \in Fragments
  <2>1. PICK m \in 1 .. created[Parent[id]] : e \in children[<<Parent[id], m>>]
    BY <1>1, <1>2 DEF Typed, Owned
  <2>2. <<Parent[id], m>> \in Elem
    BY <1>2, ElementBound, IdAssumption DEF IInv, RegistryType, Elem, NodeIds
  <2> HIDE DEF e
  <2>3. (CHOOSE p \in Elem : e \in children[p]) \in Elem
    BY <2>1, <2>2
  <2> QED
    BY <1>1, <1>2, <2>3 DEF Owner, e
<1>3. CASE id \notin Fragments
  BY <1>1, <1>3 DEF Owner
<1> QED
  BY <1>2, <1>3

\* createNodeElement gives every new fragment to a new scaffold, and takes
\* none away.
LEMMA CreateOwned ==
  ASSUME IInv, Typed, NEW id \in Ids, NEW S \in SUBSET Replaced(id), NEW H, NEW V,
         RenderObject(id, S, H, V),
         listeners[id] # 0, CreateElements(<<id, listeners[id]>>, S, H, V)
  PROVE  Owned'
<1> DEFINE e == <<id, listeners[id]>>
<1>1. e \in Elem /\ e[1] = id
  BY ElementBound DEF IInv, RegistryType, Elem
<1>2. /\ S \in SUBSET Ids /\ id \notin S
      /\ \A f \in Fragments \cap S : Parent[f] # id
      /\ \A i \in S : Parent[i] = id \/ Parent[i] \in S
  BY DEF Replaced, Above, RenderObject
<1>3. \A i \in S : NewElem(i) \in Elem
  BY <1>2, NewElemType DEF IInv
<1>a. CreateElements(e, S, H, V) /\ e \notin NewElems(S)
  BY <1>1, <1>2 DEF NewElems, NewElem
<1> HIDE DEF e
<1>b. \A i \in Ids : created[i] \in Nat /\ created'[i] = IF i \in S THEN created[i] + 1 ELSE created[i]
  BY <1>a, ElementBound DEF CreateElements, IInv, RegistryType
<1>c. {f \in children[e] : f[1] \in Fragments /\ e[1] \notin Fragments} \subseteq children'[e]
  <2>1. children'[e] = {NewElem(i) : i \in {j \in S : Parent[j] = e[1]}}
                        \cup {f \in children[e] : f[1] \in Fragments /\ e[1] \notin Fragments}
    BY <1>1, <1>a DEF CreateElements
  <2> QED
    BY <2>1
<1>d. \A d \in Elem \ {e} : children'[d] =
        IF d \in NewElems(S) THEN {NewElem(i) : i \in {j \in S : Parent[j] = d[1]}}
                             ELSE children[d]
  BY <1>a DEF CreateElements
<1> SUFFICES ASSUME NEW f \in Fragments, NEW n \in 1 .. created'[f]
             PROVE  \E m \in 1 .. created'[Parent[f]] : <<f, n>> \in children'[<<Parent[f], m>>]
  BY DEF Owned
<1>5. f \in Ids /\ Parent[f] \in Ids /\ Parent[f] \notin Fragments
  BY IdAssumption DEF NodeIds
<1>6. CASE n \in 1 .. created[f]
  <2>1. PICK m \in 1 .. created[Parent[f]] : <<f, n>> \in children[<<Parent[f], m>>]
    BY <1>6 DEF Typed, Owned
  <2> DEFINE p == <<Parent[f], m>>
  <2>2. p \in Elem /\ p[1] = Parent[f] /\ m \in 1 .. created'[Parent[f]]
    <3>1. m \in 1 .. MaxElements
      BY <1>5, ElementBound DEF IInv, RegistryType
    <3>2. m \in 1 .. created'[Parent[f]]
      BY <1>b, <1>c, <1>d, <1>5
    <3> QED
      BY <1>5, <3>1, <3>2 DEF Elem
  <2>3. p \notin NewElems(S)
    BY <1>b, <1>c, <1>d, <1>5 DEF NewElems, NewElem
  <2>4. <<f, n>> \in children[p]
    BY <2>1
  <2> HIDE DEF p
  <2>5. <<f, n>> \in children'[p]
    <3>1. CASE p = e
      <4>1. <<f, n>> \in {g \in children[e] : g[1] \in Fragments /\ e[1] \notin Fragments}
        BY <1>5, <2>2, <2>4, <3>1
      <4> QED
        BY <1>1, <1>b, <1>c, <1>d, <3>1, <4>1
    <3>2. CASE p # e
      BY <1>b, <1>c, <1>d, <2>2, <2>3, <2>4, <3>2
    <3> QED
      BY <3>1, <3>2
  <2> QED
    BY <2>2, <2>5 DEF p
<1>7. CASE n \notin 1 .. created[f]
  <2>1. f \in S /\ n = created[f] + 1
    BY <1>b, <1>c, <1>d, <1>5, <1>7
  <2> DEFINE q == Parent[f]
             p == NewElem(q)
  <2>2. q \in S /\ q # id /\ q \in Ids
    BY <1>2, <2>1
  <2>3. p \in Elem /\ p \in NewElems(S) /\ p[1] = q /\ p = <<q, created[q] + 1>> /\ p # e
    BY <1>1, <1>3, <2>2 DEF NewElems, NewElem
  <2>4. NewElem(f) \in children'[p]
    BY <1>b, <1>c, <1>d, <2>1, <2>3
  <2>5. NewElem(f) = <<f, n>> /\ created[q] + 1 \in 1 .. created'[q]
    BY <1>b, <1>c, <1>d, <2>1, <2>2 DEF NewElem
  <2> QED
    BY <2>3, <2>4, <2>5
<1> QED
  BY <1>6, <1>7

\* An update keeps the types.
LEMMA SendTyped ==
  ASSUME IInv, IInv', Typed, Send
  PROVE  Typed'
<1>1. Top \in Ids /\ MaxElements \in Nat \ {0} /\ RegistryType /\ RegistryType' /\ TypeOK
  BY IdAssumption, ElementBound DEF NodeIds, IInv, Typed
<1>2. ASSUME NEW id \in Ids, Drop(id), alive' \subseteq Ids PROVE Typed'
  BY <1>1, <1>2 DEF Drop, Typed, TypeOK, RegistryType, Owned
<1>3. ASSUME NEW id \in Ids, listeners[id] # 0 PROVE <<id, listeners[id]>> \in Elem
  BY <1>1, <1>3 DEF RegistryType, Elem
<1>4. ASSUME NEW id \in Ids, NEW r \in BOOLEAN, UpdateProps(id, r) PROVE Typed'
  <2>1. CASE Drop(id)
    BY <1>1, <1>2, <1>4, <2>1 DEF UpdateProps, TypeOK
  <2>2. CASE ~Drop(id)
    <3> DEFINE e == <<id, listeners[id]>>
    <3>1. /\ listeners[id] # 0
          /\ Notify(e, r)
          /\ current' = current \ (Of({id}) \ {e})
          /\ painted' = painted \ Of({id})
          /\ UNCHANGED <<created, children, hidden, empty, listeners, pending, shown, seen, built,
                         alive>>
      BY <1>4, <2>2 DEF UpdateProps
    <3>2. e \in Elem
      BY <1>3, <3>1
    <3> HIDE DEF e
    <3>3. dirty' \subseteq Elem /\ reshaped' \subseteq dirty' /\ stamped' \subseteq Elem
      BY <1>1, <3>1, <3>2, NotifyTyped
    <3> QED
      BY <1>1, <3>1, <3>3 DEF Typed, TypeOK, RegistryType, Owned
  <2> QED
    BY <2>1, <2>2
<1>5. ASSUME NEW id \in Ids, NEW S \in SUBSET Replaced(id), NEW H \in Hidden(S), NEW V,
             UpdateChildren(id, S, H, V)
      PROVE  Typed'
  <2>1. S \in SUBSET Ids /\ alive' \subseteq Ids /\ RenderObject(id, S, H, V)
    BY <1>1, <1>5 DEF UpdateChildren, Replaced, TypeOK
  <2>2. CASE Drop(id)
    BY <1>2, <2>1, <2>2
  <2>3. CASE ~Drop(id)
    <3> DEFINE e == <<id, listeners[id]>>
    <3>1. /\ listeners[id] # 0
          /\ CreateElements(e, S, H, V)
          /\ Notify(Owner(e), FALSE)
          /\ current' = (current \ (Of(S \cup {id}) \ {e})) \cup NewElems(S)
          /\ painted' = painted \ Of(S \cup {id})
          /\ UNCHANGED <<listeners, shown, seen, built>>
      BY <1>5, <2>3 DEF UpdateChildren
    <3>2. e \in Elem
      BY <1>3, <3>1
    <3>3. \A i \in S : NewElem(i) \in Elem
      BY <1>1, <2>1, NewElemType
    <3>4. Owner(e) \in Elem /\ Owned'
      BY <1>5, <2>1, <3>1, OwnerType, CreateOwned
    <3> HIDE DEF e
    <3>5. children' \in [Elem -> SUBSET Elem]
      <4>1. children[e] \subseteq Elem
        BY <1>1, <3>2 DEF TypeOK
      <4>2. \A d \in Elem : children[d] \subseteq Elem
        BY <1>1 DEF TypeOK
      <4> QED
        BY <3>1, <3>3, <4>1, <4>2 DEF CreateElements
    <3>h. hidden' \subseteq Elem /\ empty' \subseteq Elem
      <4>1. hidden \subseteq Elem /\ empty \subseteq Elem /\ H \subseteq S
        BY <1>1, <1>5 DEF TypeOK, Hidden
      <4> QED
        BY <3>1, <3>2, <3>3, <4>1 DEF CreateElements, NewElems
    <3>6. current' \subseteq Elem /\ painted' \subseteq current'
      BY <1>1, <3>1, <3>3 DEF TypeOK, NewElems
    <3>7. dirty' \subseteq Elem /\ reshaped' \subseteq dirty' /\ stamped' \subseteq Elem
      BY <1>1, <3>1, <3>4, NotifyTyped
    <3>8. created'[Top] = 0 => painted' = {}
      <4>1. created'[Top] = 0 => created[Top] = 0
        BY <1>1, <3>1 DEF CreateElements, RegistryType
      <4> QED
        BY <3>1, <4>1 DEF Typed
    <3> QED
      BY <1>1, <2>1, <3>1, <3>4, <3>5, <3>h, <3>6, <3>7, <3>8 DEF Typed, TypeOK, RegistryType
  <2> QED
    BY <2>2, <2>3
<1> QED
  BY <1>4, <1>5 DEF Send

\* A frame keeps the types.
LEMMA FrameTyped ==
  ASSUME IInv, IInv', Typed, DrawFrame
  PROVE  Typed'
<1>1. RegistryType' /\ TypeOK /\ created[Top] # 0
  BY DEF IInv, Unmounted, DrawFrame, FrameDue, Typed
<1>2. NextShown \subseteq Elem
  BY DEF NextShown
<1>3. built' \in [Elem -> SUBSET Elem]
  BY <1>1 DEF DrawFrame, NextBuilt, Shows, TypeOK
<1> QED
  BY <1>1, <1>2, <1>3 DEF Typed, TypeOK, RegistryType, Owned, DrawFrame

\* Every message, future and frame keeps the types.
LEMMA NextTyped == IInv /\ Typed /\ [Next]_vars => Typed'
<1> SUFFICES ASSUME IInv, Typed, [Next]_vars PROVE Typed'
  OBVIOUS
<1>1. IInv' /\ RegistryType' /\ TypeOK
  BY NextIInv DEF IInv, Typed
<1>2. ASSUME NEW e \in Elem, Register(e) PROVE Typed'
  BY <1>1, <1>2 DEF Register, Typed, TypeOK, RegistryType, Owned
<1>3. CASE Tick
  BY <1>1, <1>3 DEF Tick, Typed, TypeOK, RegistryType, Owned
<1>4. CASE UNCHANGED vars
  BY <1>1, <1>4 DEF vars, Typed, TypeOK, RegistryType, Owned
<1> QED
  BY <1>1, <1>2, <1>3, <1>4, MountTyped, SendTyped, FrameTyped DEF Next, RunFuture

\* The inductive form of the types.
THEOREM AlwaysTyped == Spec => []Typed
<1>1. Init => IInv /\ Typed
  BY InitIInv, InitTyped
<1>2. IInv /\ Typed /\ [Next]_vars => (IInv /\ Typed)'
  BY NextIInv, NextTyped
<1> QED
  BY <1>1, <1>2, PTL DEF Spec

\* The elements, the registry and the screen keep their types: ids lead to
\* elements there can be, and what is painted got all that was sent to it.
THEOREM TypeCorrect == Spec => []TypeOK
<1>1. Typed => TypeOK
  BY DEF Typed
<1> QED
  BY <1>1, AlwaysTyped, PTL

-----------------------------------------------------------------------------
(* A page whose script uses fresh ids *)

\* What the script is asked for: ids that it did not use before, no props that
\* change the shape of a node, and no [] for a widget of one child.  It need
\* not wait, and frames may fall into the millisecond of an update.
Fresh == ~ReuseIds /\ ~Reshapes /\ ~EmptyLists

\* The only element of i.
E(i) == <<i, 1>>

\* No id has a second element, and no build throws.
Once ==
  /\ \A i \in Ids : created[i] <= 1
  /\ \A e \in seen : e[2] = 1 /\ created[e[1]] = 1
  /\ reshaped = {} /\ empty = {}

\* Whatever is below an element, now or when it was built, is the element of
\* an id below its own; what was built was not hidden.
Kin ==
  /\ \A p \in Elem : \A c \in children[p] \cup built[p] :
       c[1] \in Ids \ {Top} /\ c = E(c[1]) /\ p = E(Parent[c[1]]) /\ created[c[1]] = 1
  /\ \A p \in Elem : built[p] \cap hidden = {}

\* What is shown hangs from Top, link by link.
Hung ==
  \A e \in shown : \A i \in Line[e[1]] \ {Top} :
    E(i) \in built[E(Parent[i])] /\ E(Parent[i]) \in shown

\* The element of i was taken from its parent, on the screen and in the tree.
Cut(i) ==
  created[i] = 1 /\ E(i) \notin Shows(E(Parent[i])) /\ E(i) \notin built[E(Parent[i])]

\* What left the screen hangs from a link that was cut: it never comes back.
Lost == \A e \in seen \ shown : \E i \in Line[e[1]] \ {Top} : Cut(i)

\* Every element is registered, queued for it, or left the screen.
Told ==
  \A i \in Ids : created[i] = 1 =>
    \/ listeners[i] = 1
    \/ \E k \in DOMAIN pending : E(i) \in pending[k]
    \/ E(i) \in seen \ shown

\* ShownRegistered is not inductive: that off(id) is called for elements alone
\* that never come back needs the links that were cut.
FInv == Once /\ Kin /\ Hung /\ Lost /\ Told

\* Elements and counts of ids.
LEMMA OnceOnly ==
  ASSUME IInv, Typed, Once
  PROVE  /\ \A i \in Ids : /\ created[i] \in {0, 1} /\ listeners[i] \in {0, 1}
                           /\ E(i) \in Elem /\ E(i)[1] = i /\ E(i)[2] = 1
         /\ shown \subseteq seen
         /\ \A e \in seen : e[1] \in Ids /\ e = E(e[1]) /\ created[e[1]] = 1
<1>1. ASSUME NEW i \in Ids
      PROVE  /\ created[i] \in {0, 1} /\ listeners[i] \in {0, 1}
             /\ E(i) \in Elem /\ E(i)[1] = i /\ E(i)[2] = 1
  <2>1. created[i] \in Nat /\ listeners[i] \in Nat /\ listeners[i] <= created[i] /\ created[i] <= 1
    BY ElementBound DEF IInv, RegistryType, Once
  <2>2. E(i) \in Elem /\ E(i)[1] = i /\ E(i)[2] = 1
    BY ElementBound DEF E, Elem
  <2> QED
    BY <2>1, <2>2
<1>2. shown \subseteq seen /\ seen \subseteq Elem
  BY DEF Typed, TypeOK
<1>3. \A e \in seen : e[1] \in Ids /\ e = E(e[1]) /\ created[e[1]] = 1
  BY <1>2 DEF Once, Elem, E
<1> QED
  BY <1>1, <1>2, <1>3

\* An empty page.
LEMMA InitFresh == Init => FInv
<1>1. Top \in Ids
  BY IdAssumption DEF NodeIds
<1> QED
  BY <1>1 DEF Init, FInv, Once, Kin, Hung, Lost, Told

\* What the next frame builds is, or was built, below its parent.
LEMMA BuildsKin ==
  ASSUME Kin, NEW p \in Elem
  PROVE  /\ NextBuilt(p) \subseteq Shows(p) \cup built[p]
         /\ Shows(p) \subseteq children[p]
         /\ \A c \in NextBuilt(p) : c[1] \in Ids \ {Top} /\ c = E(c[1]) /\ created[c[1]] = 1
<1>1. NextBuilt(p) \subseteq Shows(p) \cup built[p] /\ Shows(p) \subseteq children[p]
  BY DEF NextBuilt, Shows
<1> QED
  BY <1>1 DEF Kin

\* The next frame shows exactly what hangs from Top by the links it builds.
LEMMA ShowsHung ==
  ASSUME IInv, Typed, Once, Kin, NEW i \in Ids
  PROVE  /\ \A n \in 1 .. MaxElements : <<i, n>> \in NextShown => n = 1
         /\ E(i) \in NextShown <=>
              \A j \in Line[i] \ {Top} : E(j) \in NextBuilt(E(Parent[j]))
<1>1. /\ Line[i] \subseteq Ids /\ i \in Line[i] /\ Top \in Line[i]
      /\ \A k \in Line[i] \ {Top} : Parent[k] \in Line[i]
  BY LineUp, LineFromTop
<1>2. ASSUME NEW m \in 1 .. MaxElements, <<i, m>> \in NextShown
      PROVE  m = 1 /\ \A j \in Line[i] \ {Top} : E(j) \in NextBuilt(E(Parent[j]))
  <2>1. PICK n \in [Line[i] -> 1 .. MaxElements] :
          /\ n[Top] = 1 /\ n[i] = m
          /\ \A j \in Line[i] \ {Top} : <<j, n[j]>> \in NextBuilt(<<Parent[j], n[Parent[j]]>>)
    BY <1>2 DEF NextShown
  <2>2. ASSUME NEW j \in Line[i] PROVE n[j] = 1
    <3>1. CASE j = Top
      BY <2>1, <3>1
    <3>2. CASE j # Top
      <4> DEFINE p == <<Parent[j], n[Parent[j]]>>
                 c == <<j, n[j]>>
      <4>1. p \in Elem /\ c \in NextBuilt(p) /\ c[1] = j /\ c[2] = n[j]
        BY <1>1, <2>1, <3>2 DEF Elem
      <4> HIDE DEF p, c
      <4>2. c = E(c[1])
        BY <4>1, BuildsKin
      <4> QED
        BY <4>1, <4>2 DEF E
    <3> QED
      BY <3>1, <3>2
  <2>3. ASSUME NEW j \in Line[i] \ {Top} PROVE E(j) \in NextBuilt(E(Parent[j]))
    <3>1. n[j] = 1 /\ n[Parent[j]] = 1
      BY <1>1, <2>2
    <3> QED
      BY <2>1, <3>1 DEF E
  <2> QED
    BY <1>1, <2>1, <2>2, <2>3
<1>3. ASSUME \A j \in Line[i] \ {Top} : E(j) \in NextBuilt(E(Parent[j]))
      PROVE  E(i) \in NextShown
  <2> DEFINE n == [j \in Line[i] |-> 1]
  <2>1. n \in [Line[i] -> 1 .. MaxElements] /\ n[Top] = 1 /\ n[i] = 1
    BY <1>1, ElementBound
  <2>2. ASSUME NEW j \in Line[i] \ {Top}
        PROVE  <<j, n[j]>> \in NextBuilt(<<Parent[j], n[Parent[j]]>>)
    <3>1. n[j] = 1 /\ n[Parent[j]] = 1
      BY <1>1
    <3> HIDE DEF n
    <3> QED
      BY <1>3, <3>1 DEF E
  <2>3. E(i) \in Elem /\ E(i)[1] = i /\ E(i)[2] = 1
    BY OnceOnly
  <2> HIDE DEF n
  <2> QED
    BY <2>1, <2>2, <2>3 DEF NextShown
<1>4. 1 \in 1 .. MaxElements
  BY ElementBound
<1> QED
  BY <1>2, <1>3, <1>4 DEF E

\* A frame shows none that left the screen before, and calls off(id) for those
\* alone that leave it now.
LEMMA FrameFresh ==
  ASSUME IInv, Typed, FInv, DrawFrame
  PROVE  FInv'
<1> DEFINE next == NextShown
<1>1. /\ shown' = next /\ seen' = seen \cup next
      /\ built' = [e \in Elem |-> IF e \in next THEN NextBuilt(e) ELSE {}]
      /\ listeners' = Off(Detached(next)) /\ reshaped' = {}
      /\ UNCHANGED <<created, children, hidden, empty, pending, alive>>
      /\ alive # {}
  BY DEF DrawFrame, FrameDue
<1>2. /\ \A i \in Ids : /\ created[i] \in {0, 1} /\ listeners[i] \in {0, 1}
                        /\ E(i) \in Elem /\ E(i)[1] = i /\ E(i)[2] = 1
      /\ shown \subseteq seen
      /\ \A e \in seen : e[1] \in Ids /\ e = E(e[1]) /\ created[e[1]] = 1
      /\ Top \in Ids /\ created[Top] = 1
  <2>1. Top \in Ids /\ created[Top] # 0
    BY <1>1, IdAssumption DEF NodeIds, IInv, Unmounted
  <2> QED
    BY <2>1, OnceOnly DEF FInv
<1>3. ASSUME NEW e \in next
      PROVE  /\ e[1] \in Ids /\ e = E(e[1]) /\ e \in Elem
             /\ \A j \in Line[e[1]] \ {Top} : E(j) \in NextBuilt(E(Parent[j]))
  <2>1. e \in Elem /\ e[1] \in Ids /\ e[2] \in 1 .. MaxElements /\ e = <<e[1], e[2]>>
    BY DEF NextShown, Elem
  <2>2. e[2] = 1
    BY <2>1, ShowsHung DEF FInv
  <2>3. e = E(e[1])
    BY <2>1, <2>2 DEF E
  <2> QED
    BY <2>1, <2>3, ShowsHung DEF FInv
<1>4. ASSUME NEW i \in Ids \ {Top}
      PROVE  /\ Parent[i] \in Ids /\ E(Parent[i]) \in Elem
             /\ i \in Line[i] /\ Line[i] \subseteq Ids
             /\ NextBuilt(E(Parent[i])) \subseteq Shows(E(Parent[i])) \cup built[E(Parent[i])]
             /\ built'[E(Parent[i])] \subseteq NextBuilt(E(Parent[i]))
             /\ E(Parent[i]) \in next => built'[E(Parent[i])] = NextBuilt(E(Parent[i]))
             /\ Shows(E(Parent[i]))' = Shows(E(Parent[i]))
  <2>1. Parent[i] \in Ids /\ i \in Line[i] /\ Line[i] \subseteq Ids
    BY LineUp, IdAssumption
  <2>2. E(Parent[i]) \in Elem
    BY <1>2, <2>1
  <2> QED
    BY <1>1, <2>1, <2>2, BuildsKin DEF FInv, Shows
<1>5. ASSUME NEW e \in next, NEW j \in Line[e[1]]
      PROVE  E(j) \in next /\ j \in Ids
  <2>1. j \in Ids /\ Line[j] \subseteq Line[e[1]]
    BY <1>3, LineWithin
  <2> QED
    BY <1>3, <2>1, ShowsHung DEF FInv
<1>6. Once'
  <2>1. ASSUME NEW e \in next PROVE e[2] = 1 /\ created[e[1]] = 1
    <3>1. e[1] \in Ids /\ e = E(e[1]) /\ e[2] = 1
      BY <1>2, <1>3
    <3>2. CASE e[1] = Top
      BY <1>2, <3>1, <3>2
    <3>3. CASE e[1] # Top
      <4>1. e \in NextBuilt(E(Parent[e[1]])) /\ E(Parent[e[1]]) \in Elem
        BY <1>3, <1>4, <3>1, <3>3
      <4> QED
        BY <3>1, <4>1, BuildsKin DEF FInv
    <3> QED
      BY <3>2, <3>3
  <2> QED
    BY <1>1, <2>1 DEF FInv, Once
<1>7. Kin'
  <2>1. ASSUME NEW p \in Elem PROVE built'[p] \subseteq Shows(p) \cup built[p]
    BY <1>1, BuildsKin DEF FInv
  <2>2. \A p \in Elem : Shows(p) \subseteq children[p] /\ Shows(p) \cap hidden = {}
    BY DEF Shows
  <2> QED
    BY <1>1, <2>1, <2>2 DEF FInv, Kin
<1>8. Hung'
  <2> SUFFICES ASSUME NEW e \in next, NEW i \in Line[e[1]] \ {Top}
               PROVE  E(i) \in built'[E(Parent[i])] /\ E(Parent[i]) \in next
    BY <1>1 DEF Hung
  <2>1. Parent[i] \in Line[e[1]] /\ i \in Ids
    BY <1>3, LineUp
  <2>2. E(Parent[i]) \in next
    BY <1>5, <2>1
  <2> QED
    BY <1>3, <1>4, <2>1, <2>2
<1>9. \A i \in Ids \ {Top} : Cut(i) => Cut(i)' /\ E(i) \notin NextBuilt(E(Parent[i]))
  BY <1>1, <1>4 DEF Cut
<1>10. \A e \in seen \ shown : e \notin next /\ \E i \in Line[e[1]] \ {Top} : Cut(i)'
  <2> SUFFICES ASSUME NEW e \in seen \ shown
               PROVE  e \notin next /\ \E i \in Line[e[1]] \ {Top} : Cut(i)'
    OBVIOUS
  <2>1. PICK i \in Line[e[1]] \ {Top} : Cut(i)
    BY DEF FInv, Lost
  <2>2. i \in Ids
    BY <1>2, <2>1, LineUp
  <2>3. Cut(i)' /\ E(i) \notin NextBuilt(E(Parent[i]))
    BY <1>9, <2>1, <2>2
  <2> QED
    BY <1>3, <2>1, <2>3
<1>11. ASSUME NEW e \in shown \ next PROVE \E i \in Line[e[1]] \ {Top} : Cut(i)'
  <2>1. e[1] \in Ids /\ e = E(e[1])
    BY <1>2
  <2>2. PICK i \in Line[e[1]] \ {Top} : E(i) \notin NextBuilt(E(Parent[i]))
    BY <1>11, <2>1, ShowsHung DEF FInv
  <2>3. E(i) \in built[E(Parent[i])] /\ i \in Ids
    BY <2>1, <2>2, LineUp DEF FInv, Hung
  <2>4. E(i) \notin Shows(E(Parent[i]))
    BY <2>2, <2>3 DEF NextBuilt
  <2>5. created[i] = 1
    <3>1. E(Parent[i]) \in Elem /\ E(i)[1] = i
      BY <1>2, <1>4, <2>3
    <3> QED
      BY <2>3, <3>1 DEF FInv, Kin
  <2> QED
    BY <1>1, <1>4, <2>2, <2>3, <2>4, <2>5 DEF Cut
<1>12. Lost'
  BY <1>1, <1>10, <1>11 DEF Lost
<1>13. Told'
  <2> SUFFICES ASSUME NEW i \in Ids, created[i] = 1
               PROVE  \/ listeners'[i] = 1
                      \/ \E k \in DOMAIN pending : E(i) \in pending[k]
                      \/ E(i) \in (seen \cup next) \ next
    BY <1>1 DEF Told
  <2>1. CASE listeners[i] = 1 /\ listeners'[i] # 1
    <3>1. PICK e \in Detached(next) : e[1] = i
      BY <1>1, <2>1 DEF Off
    <3>2. e \in shown /\ e \notin next
      BY <3>1 DEF Detached, FInv, Once
    <3> QED
      BY <1>2, <3>1, <3>2
  <2>2. CASE E(i) \in seen \ shown
    BY <1>10, <2>2
  <2> QED
    BY <2>1, <2>2 DEF FInv, Told
<1> QED
  BY <1>6, <1>7, <1>8, <1>12, <1>13 DEF FInv

\* The Future of ElementNotifier.
LEMMA RegisterFresh ==
  ASSUME IInv, Typed, FInv, NEW e \in Elem, Register(e)
  PROVE  FInv'
<1>1. /\ pending \in Seq(SUBSET Elem) /\ pending # <<>> /\ e \in pending[1] /\ 1 \in DOMAIN pending
      /\ listeners' = [listeners EXCEPT ![e[1]] = e[2]]
      /\ UNCHANGED <<created, children, hidden, empty, alive, shown, seen, built, dirty,
                     reshaped, stamped, current, painted>>
  BY DEF Typed, TypeOK, Register
<1>2. e[1] \in Ids /\ e[2] = 1 /\ e = E(e[1])
  <2>1. e[1] \in Ids /\ e[2] \in 1 .. MaxElements /\ e = <<e[1], e[2]>>
    BY DEF Elem
  <2>2. e[2] <= created[e[1]] /\ created[e[1]] \in {0, 1}
    BY <1>1, <2>1, OnceOnly DEF IInv, Younger, FInv
  <2>3. e[2] = 1
    BY <2>1, <2>2, ElementBound
  <2> QED
    BY <2>1, <2>3 DEF E
<1>3. listeners'[e[1]] = 1 /\ \A i \in Ids : i # e[1] => listeners'[i] = listeners[i]
  BY <1>1, <1>2 DEF Typed, TypeOK
<1>4. ASSUME NEW k \in DOMAIN pending, NEW f \in pending[k], f # e
      PROVE  \E j \in DOMAIN pending' : f \in pending'[j]
  <2>1. CASE Head(pending) = {e}
    <3>1. pending' = Tail(pending) /\ pending[1] = {e}
      BY <1>1, <2>1 DEF Register
    <3>2. k # 1 /\ k \in 1 .. Len(pending) /\ Len(pending) \in Nat
      BY <1>1, <1>4, <3>1
    <3>3. k - 1 \in DOMAIN pending' /\ pending'[k - 1] = pending[k]
      BY <1>1, <3>1, <3>2
    <3> QED
      BY <1>4, <3>3
  <2>2. CASE Head(pending) # {e}
    <3>1. pending' = [pending EXCEPT ![1] = @ \ {e}]
      BY <2>2 DEF Register
    <3>2. k \in DOMAIN pending' /\ f \in pending'[k]
      BY <1>1, <1>4, <3>1
    <3> QED
      BY <3>2
  <2> QED
    BY <2>1, <2>2
<1>5. Told'
  <2> SUFFICES ASSUME NEW i \in Ids, created[i] = 1
               PROVE  \/ listeners'[i] = 1
                      \/ \E k \in DOMAIN pending' : E(i) \in pending'[k]
                      \/ E(i) \in seen \ shown
    BY <1>1 DEF Told
  <2>1. CASE i = e[1]
    BY <1>3, <2>1
  <2>2. CASE i # e[1]
    <3>1. E(i) # e
      BY <2>2 DEF E
    <3> QED
      BY <1>3, <1>4, <2>2, <3>1 DEF FInv, Told
  <2> QED
    BY <2>1, <2>2
<1>6. Once' /\ Kin' /\ Hung' /\ Lost'
  BY <1>1 DEF FInv, Once, Kin, Hung, Lost, Cut, Shows
<1> QED
  BY <1>5, <1>6 DEF FInv

\* _mount: there is nothing before.
LEMMA MountFresh ==
  ASSUME Fresh, IInv, Typed, FInv, NEW S \in SUBSET (Ids \ {Top}),
         NEW H \in Hidden(S), NEW V \in Empties, Mount(S, H, V)
  PROVE  FInv'
<1> DEFINE T == S \cup {Top}
<1>1. /\ \A i \in Ids : created[i] = 0 /\ NewElem(i) = E(i)
      /\ Top \in Ids /\ T \subseteq Ids
  BY IdAssumption DEF Mount, IInv, Unmounted, NodeIds, NewElem, E
<1>2. seen = {} /\ shown = {} /\ reshaped = {} /\ \A p \in Elem : built[p] = {}
  <2>1. seen = {} /\ shown = {}
    BY <1>1, OnceOnly DEF FInv
  <2>2. \A p \in Elem : \A c \in built[p] : FALSE
    BY <1>1 DEF FInv, Kin
  <2> QED
    BY <2>1, <2>2 DEF FInv, Once
<1>3. NewElems(T) = {E(i) : i \in T} /\ V = {} /\ NewElems({}) = {}
  BY <1>1 DEF NewElems, Fresh, Empties
<1>4. /\ created' = [i \in Ids |-> IF i \in T THEN 1 ELSE 0]
      /\ children' = [d \in Elem |->
            IF d \in NewElems(T) THEN {NewElem(i) : i \in {j \in T : Parent[j] = d[1]}} ELSE {}]
      /\ pending' = <<NewElems(T)>> /\ empty' = {}
      /\ UNCHANGED <<listeners, shown, seen, built, dirty, reshaped, stamped, painted>>
  BY <1>3 DEF Mount
<1> HIDE DEF T
<1>5. Once' /\ Hung' /\ Lost'
  BY <1>1, <1>2, <1>4 DEF Once, Hung, Lost
<1>6. ASSUME NEW p \in Elem, NEW c \in children'[p]
      PROVE  c[1] \in Ids \ {Top} /\ c = E(c[1]) /\ p = E(Parent[c[1]]) /\ created'[c[1]] = 1
  <2>1. PICK q \in T : p = E(q)
    BY <1>3, <1>4, <1>6
  <2>2. PICK j \in T : Parent[j] = p[1] /\ c = E(j)
    BY <1>1, <1>4, <1>6
  <2>3. p[1] = q /\ c[1] = j /\ q \in Ids /\ j \in Ids
    BY <1>1, <2>1, <2>2 DEF E
  <2>4. j # Top
    BY <2>2, <2>3, IdAssumption
  <2> QED
    BY <1>4, <2>1, <2>2, <2>3, <2>4
<1>7. Kin'
  BY <1>2, <1>4, <1>6 DEF Kin
<1>8. Told'
  <2>1. 1 \in DOMAIN pending' /\ pending'[1] = NewElems(T)
    BY <1>4
  <2>2. \A i \in Ids : created'[i] = 1 => E(i) \in pending'[1]
    BY <1>3, <1>4, <2>1
  <2> QED
    BY <2>1, <2>2 DEF Told
<1> QED
  BY <1>5, <1>7, <1>8 DEF FInv

\* An update of the children of a node, or of the content of a fragment: the
\* new elements are queued, and what was cut stays cut.
LEMMA ChildrenFresh ==
  ASSUME Fresh, IInv, Typed, FInv, NEW id \in Ids, NEW S \in SUBSET Replaced(id),
         NEW H \in Hidden(S), NEW V \in Empties, UpdateChildren(id, S, H, V), listeners[id] # 0
  PROVE  FInv'
<1> DEFINE e == E(id)
<1>1. /\ \A i \in Ids : /\ created[i] \in {0, 1} /\ listeners[i] \in {0, 1}
                        /\ E(i) \in Elem /\ E(i)[1] = i /\ E(i)[2] = 1
      /\ V = {} /\ H \subseteq S
  BY OnceOnly DEF FInv, Fresh, Empties, Hidden
<1>2. /\ <<id, listeners[id]>> = e /\ created[id] = 1
      /\ e \in Elem /\ e[1] = id
  BY <1>1 DEF E, IInv
<1>3. /\ CreateElements(e, S, H, {}) /\ Notify(Owner(e), FALSE)
      /\ UNCHANGED <<listeners, shown, seen, built>>
      /\ RenderObject(id, S, H, V)
  BY <1>1, <1>2 DEF UpdateChildren, Drop
<1>4. S \subseteq Ids \ {Top, id} /\ \A i \in S : created[i] = 0 /\ NewElem(i) = E(i)
  <2>1. S \subseteq Ids \ {Top, id}
    BY ReplacedIs
  <2>2. \A i \in S : created[i] < 1
    BY <1>3 DEF RenderObject, Fresh
  <2>3. \A i \in S : created[i] = 0
    BY <1>1, <2>1, <2>2
  <2> QED
    BY <2>1, <2>3 DEF NewElem, E
<1>5. NewElems(S) = {E(i) : i \in S} /\ NewElems(H) \subseteq NewElems(S) /\ NewElems({}) = {}
  BY <1>1, <1>4 DEF NewElems
<1> HIDE DEF e
<1>6. /\ \A i \in Ids : created'[i] = IF i \in S THEN 1 ELSE created[i]
      /\ children'[e] \subseteq {E(i) : i \in {j \in S : Parent[j] = id}} \cup children[e]
      /\ hidden' = hidden \cup NewElems(H) /\ empty' = {} /\ reshaped' = {}
  <2>1. \A i \in Ids : created'[i] = IF i \in S THEN 1 ELSE created[i]
    BY <1>3, <1>4 DEF CreateElements
  <2>2. children'[e] = {NewElem(i) : i \in {j \in S : Parent[j] = id}}
                       \cup {f \in children[e] : f[1] \in Fragments /\ id \notin Fragments}
    <3>1. children' = [d \in Elem |->
            CASE d = e -> {NewElem(i) : i \in {j \in S : Parent[j] = e[1]}}
                          \cup {f \in children[e] : f[1] \in Fragments /\ e[1] \notin Fragments}
              [] d \in NewElems(S) -> {NewElem(i) : i \in {j \in S : Parent[j] = d[1]}}
              [] OTHER -> children[d]]
      BY <1>3 DEF CreateElements
    <3>2. e \notin NewElems(S)
      BY <1>2, <1>4, <1>5 DEF E
    <3> QED
      BY <1>2, <3>1, <3>2
  <2>3. children'[e] \subseteq {E(i) : i \in {j \in S : Parent[j] = id}} \cup children[e]
    BY <1>4, <2>2
  <2>4. hidden' = hidden \cup NewElems(H) /\ empty' = {}
    <3>1. {} \cap S = {} /\ empty = {}
      BY DEF FInv, Once
    <3> QED
      BY <1>3, <1>5, <3>1 DEF CreateElements
  <2>5. reshaped' = {}
    BY <1>3 DEF Notify, FInv, Once
  <2> QED
    BY <2>1, <2>3, <2>4, <2>5
<1>7. \A d \in Elem \ {e} : children'[d] =
        IF d \in NewElems(S) THEN {NewElem(i) : i \in {j \in S : Parent[j] = d[1]}}
                             ELSE children[d]
  BY <1>3 DEF CreateElements
<1>8. \A p \in Elem : \A c \in children[p] \cup built[p] :
        /\ c[1] \in Ids \ {Top} /\ c = E(c[1]) /\ p = E(Parent[c[1]]) /\ created[c[1]] = 1
        /\ c \notin NewElems(S)
  <2>1. \A p \in Elem : \A c \in children[p] \cup built[p] :
          c[1] \in Ids \ {Top} /\ c = E(c[1]) /\ p = E(Parent[c[1]]) /\ created[c[1]] = 1
    BY DEF FInv, Kin
  <2>2. \A c \in NewElems(S) : created[c[1]] = 0
    BY <1>1, <1>4, <1>5
  <2> QED
    BY <2>1, <2>2
<1>9. ASSUME NEW p \in Elem, NEW c \in children'[p]
      PROVE  \/ c \in children[p]
             \/ \E i \in S : c = E(i) /\ p = E(Parent[i])
  <2>1. CASE p = e
    BY <1>6, <1>9, <2>1 DEF e
  <2>2. CASE p # e /\ p \in NewElems(S)
    <3>1. children'[p] = {NewElem(i) : i \in {j \in S : Parent[j] = p[1]}}
      BY <1>7, <2>2, Zenon
    <3>2. PICK i \in S : Parent[i] = p[1] /\ c = E(i)
      BY <1>4, <1>9, <3>1
    <3>3. p = E(p[1])
      BY <1>5, <2>2 DEF E
    <3> QED
      BY <3>2, <3>3
  <2>3. CASE p # e /\ p \notin NewElems(S)
    BY <1>7, <1>9, <2>3
  <2> QED
    BY <2>1, <2>2, <2>3
<1>10. Once'
  <2>1. \A i \in Ids : created'[i] <= 1
    BY <1>1, <1>6
  <2>2. \A f \in seen : f[2] = 1 /\ f[1] \in Ids /\ created[f[1]] = 1
    BY OnceOnly DEF FInv, Once
  <2> QED
    BY <1>3, <1>4, <1>6, <2>1, <2>2 DEF Once
<1>11. Kin'
  <2>1. ASSUME NEW p \in Elem, NEW c \in children'[p] \cup built[p]
        PROVE  c[1] \in Ids \ {Top} /\ c = E(c[1]) /\ p = E(Parent[c[1]]) /\ created'[c[1]] = 1
    <3>1. CASE c \in children[p] \cup built[p]
      <4>1. c[1] \in Ids \ {Top} /\ c = E(c[1]) /\ p = E(Parent[c[1]]) /\ created[c[1]] = 1
        BY <1>8, <3>1
      <4> QED
        BY <1>6, <4>1
    <3>2. CASE \E i \in S : c = E(i) /\ p = E(Parent[i])
      BY <1>1, <1>4, <1>6, <3>2
    <3> QED
      BY <1>9, <2>1, <3>1, <3>2
  <2>2. \A p \in Elem : built[p] \cap hidden' = {}
    <3>1. \A p \in Elem : built[p] \cap hidden = {}
      BY DEF FInv, Kin
    <3> QED
      BY <1>5, <1>6, <1>8, <3>1
  <2> QED
    BY <1>3, <2>1, <2>2 DEF Kin
<1>12. Hung'
  BY <1>3 DEF FInv, Hung
<1>13. ASSUME NEW i \in Ids \ {Top}, Cut(i) PROVE Cut(i)'
  <2> DEFINE p == E(Parent[i])
  <2>1. p \in Elem /\ created[i] = 1 /\ i \notin S
    BY <1>1, <1>4, <1>13, IdAssumption DEF Cut
  <2>2. E(i) \notin built'[p] /\ created'[i] = 1
    BY <1>3, <1>6, <1>13, <2>1 DEF Cut
  <2> HIDE DEF p
  <2>3. E(i) \in children'[p] => E(i) \in children[p]
    <3>1. ASSUME NEW j \in S, E(i) = E(j) PROVE FALSE
      BY <2>1, <3>1 DEF E
    <3> QED
      BY <1>9, <2>1, <3>1
  <2>4. E(i) \notin children[p] \/ E(i) \in hidden
    BY <1>13 DEF Cut, Shows, FInv, Once, p
  <2>5. E(i) \notin Shows(p)'
    BY <1>6, <2>3, <2>4 DEF Shows
  <2> QED
    BY <2>2, <2>5 DEF Cut, p
<1>14. Lost'
  <2> SUFFICES ASSUME NEW f \in seen \ shown PROVE \E i \in Line[f[1]] \ {Top} : Cut(i)'
    BY <1>3 DEF Lost
  <2>1. PICK i \in Line[f[1]] \ {Top} : Cut(i)
    BY DEF FInv, Lost
  <2>2. i \in Ids
    BY <2>1, LineUp, OnceOnly DEF FInv
  <2> QED
    BY <1>13, <2>1, <2>2
<1>15. Told'
  <2>1. pending' = IF S = {} THEN pending ELSE Append(pending, NewElems(S))
    BY <1>3 DEF CreateElements
  <2>2. /\ \A k \in DOMAIN pending : k \in DOMAIN pending' /\ pending'[k] = pending[k]
        /\ S # {} => \E k \in DOMAIN pending' : pending'[k] = NewElems(S)
    <3>1. pending \in Seq(SUBSET Elem)
      BY DEF Typed, TypeOK
    <3>2. CASE S = {}
      BY <2>1, <3>2
    <3>3. CASE S # {}
      <4> DEFINE q == Append(pending, NewElems(S))
      <4>1. /\ Len(pending) \in Nat /\ DOMAIN pending = 1 .. Len(pending)
            /\ DOMAIN q = 1 .. Len(pending) + 1
            /\ \A k \in 1 .. Len(pending) : q[k] = pending[k]
            /\ q[Len(pending) + 1] = NewElems(S)
        BY <3>1
      <4>2. pending' = q
        BY <2>1, <3>3
      <4> HIDE DEF q
      <4>3. Len(pending) + 1 \in DOMAIN q
        BY <4>1
      <4>4. \A k \in DOMAIN pending : k \in DOMAIN q
        BY <4>1
      <4> QED
        BY <4>1, <4>2, <4>3, <4>4
    <3> QED
      BY <3>2, <3>3
  <2> SUFFICES ASSUME NEW i \in Ids, created'[i] = 1
               PROVE  \/ listeners[i] = 1
                      \/ \E k \in DOMAIN pending' : E(i) \in pending'[k]
                      \/ E(i) \in seen \ shown
    BY <1>3 DEF Told
  <2>3. CASE i \in S
    BY <1>5, <2>2, <2>3
  <2>4. CASE i \notin S
    BY <1>6, <2>2, <2>4 DEF FInv, Told
  <2> QED
    BY <2>3, <2>4
<1> QED
  BY <1>10, <1>11, <1>12, <1>14, <1>15 DEF FInv

\* Messages, futures and frames keep every visible element reachable.
LEMMA NextFresh ==
  ASSUME Fresh
  PROVE  IInv /\ Typed /\ FInv /\ [Next]_vars => FInv'
<1> SUFFICES ASSUME IInv, Typed, FInv, [Next]_vars PROVE FInv'
  OBVIOUS
<1>1. CASE /\ UNCHANGED <<created, children, hidden, empty, listeners, pending, shown, seen, built>>
           /\ reshaped' = {}
  BY <1>1 DEF FInv, Once, Kin, Hung, Lost, Told, Cut, Shows
<1>2. ASSUME NEW id \in Ids, NEW r \in BOOLEAN, UpdateProps(id, r) PROVE FInv'
  <2>1. reshaped = {}
    BY DEF FInv, Once
  <2>2. reshaped' = {}
    BY <1>2, <2>1 DEF UpdateProps, Drop, Notify, Fresh
  <2> QED
    BY <1>1, <1>2, <2>2 DEF UpdateProps, Drop
<1>3. ASSUME NEW id \in Ids, NEW S \in SUBSET Replaced(id), NEW H \in Hidden(S), NEW V \in Empties,
             UpdateChildren(id, S, H, V)
      PROVE  FInv'
  <2>1. CASE listeners[id] = 0
    <3>1. Drop(id) /\ reshaped = {}
      BY <1>3, <2>1 DEF UpdateChildren, FInv, Once
    <3> QED
      BY <1>1, <3>1 DEF Drop
  <2>2. CASE listeners[id] # 0
    BY <1>3, <2>2, ChildrenFresh
  <2> QED
    BY <2>1, <2>2
<1>4. CASE Tick \/ UNCHANGED vars
  <2>1. reshaped = {}
    BY DEF FInv, Once
  <2> QED
    BY <1>1, <1>4, <2>1 DEF Tick, vars
<1> QED
  BY <1>2, <1>3, <1>4, MountFresh, RegisterFresh, FrameFresh DEF Next, Send, RunFuture

\* Once the futures have run and the frame is drawn, RootElement.emit finds
\* every visible element by its id, if the script uses fresh ids, does not
\* reshape nodes and sends no [] to a widget of one child: no matter whether it
\* waits, how often its updates find nobody, and when frames are drawn.  Each
\* of the three conditions is needed.
THEOREM AlwaysReachable ==
  ASSUME Fresh
  PROVE  Spec => []ShownRegistered
<1>1. Init => IInv /\ Typed /\ FInv
  BY InitIInv, InitTyped, InitFresh
<1>2. IInv /\ Typed /\ FInv /\ [Next]_vars => (IInv /\ Typed /\ FInv)'
  BY NextIInv, NextTyped, NextFresh
<1>3. IInv /\ Typed /\ FInv => ShownRegistered
  <2> SUFFICES ASSUME IInv, Typed, FInv, Settled, NEW e \in shown
               PROVE  listeners[e[1]] = e[2]
    BY DEF ShownRegistered
  <2>1. e[1] \in Ids /\ e = E(e[1]) /\ e[2] = 1 /\ created[e[1]] = 1 /\ DOMAIN pending = {}
    BY OnceOnly DEF FInv, Once, Settled
  <2> QED
    BY <2>1 DEF FInv, Told
<1> QED
  BY <1>1, <1>2, <1>3, PTL DEF Spec

-----------------------------------------------------------------------------
(* A page whose script waits for registrations, too *)

\* The elements of the tree the script last sent.
Live == {E(i) : i \in alive}

\* No id has a second element, and only nodes on the screen are rebuilt.
Firsts ==
  /\ \A i \in Ids : created[i] <= 1
  /\ \A e \in seen : e[2] = 1 /\ created[e[1]] = 1
  /\ dirty \subseteq shown
  /\ reshaped = {}

\* The ids of the script's tree come with their parents.
Rooted ==
  /\ alive # {} => Top \in alive
  /\ \A i \in alive : created[i] = 1 /\ (i # Top => Parent[i] \in alive)

\* The tree of objects: an element is below that of its parent, and the
\* living ones have the living children.
Below(i) == {E(j) : j \in {j \in alive \ {Top} : Parent[j] = i}}
Objects ==
  /\ \A p \in Elem : \A c \in children[p] : c[1] # Top /\ p = E(Parent[c[1]])
  /\ \A i \in alive : children[E(i)] = Below(i)

\* What lives is registered or queued for it, and nothing else is queued.
Listed ==
  /\ Len(pending) <= 1
  /\ \A k \in DOMAIN pending : pending[k] \subseteq Live
  /\ \A i \in alive : listeners[i] = 1 \/ \E k \in DOMAIN pending : E(i) \in pending[k]

\* The screen: parents are shown with their children, a notifier that holds
\* the current millisecond has notified, and without a frame to draw the
\* screen shows what lives.
Screen ==
  /\ \A e \in shown : e[1] # Top => E(Parent[e[1]]) \in shown
  /\ stamped \cap shown \subseteq dirty
  /\ dirty = {} /\ shown # {} => shown = Live

\* What is shown and lives is up to date or will be rebuilt.
UpToDate ==
  /\ Live \subseteq current
  /\ \A e \in shown \cap Live : Rebuilds(e) \/ (built[e] = children[e] /\ e \in painted)

\* What left the screen is dead and not registered.
Gone ==
  \A e \in seen \ shown : e[1] \notin alive /\ (e[1] \in NodeIds => listeners[e[1]] # 1)

\* No widget of one child has to leave one out or goes without.
Regular == hidden = {} /\ empty = {}

Page == Regular /\ Firsts /\ Rooted /\ Objects /\ Listed /\ Screen /\ UpToDate /\ Gone

\* What the script is asked for besides: one child for the widgets of one
\* child, and to wait until elements are registered.  The clock moves on
\* between an update and its frame.
Patient ==
  /\ Fresh /\ ~ManyForOne
  /\ ScriptWaits # "never" /\ DistinctMillis

\* There is one element for each id.
LEMMA OnlyFirsts ==
  ASSUME IInv, Typed, Page
  PROVE  /\ \A i \in Ids : /\ created[i] \in {0, 1} /\ listeners[i] \in {0, 1}
                           /\ E(i) \in Elem /\ E(i)[1] = i /\ E(i)[2] = 1
         /\ alive \subseteq Ids /\ shown \subseteq seen /\ dirty \subseteq shown
         /\ \A e \in seen : e[1] \in Ids /\ e = E(e[1]) /\ created[e[1]] = 1
         /\ \A i \in Ids : E(i) \in Live <=> i \in alive
         /\ \A e \in Live : e[1] \in alive /\ e = E(e[1])
         /\ Live \subseteq Elem
<1>1. ASSUME NEW i \in Ids
      PROVE  /\ created[i] \in {0, 1} /\ listeners[i] \in {0, 1}
             /\ E(i) \in Elem /\ E(i)[1] = i /\ E(i)[2] = 1
  <2>1. created[i] \in Nat /\ listeners[i] \in Nat /\ listeners[i] <= created[i] /\ created[i] <= 1
    BY ElementBound DEF IInv, RegistryType, Page, Firsts
  <2>2. E(i) \in Elem /\ E(i)[1] = i /\ E(i)[2] = 1
    BY ElementBound DEF E, Elem
  <2> QED
    BY <2>1, <2>2
<1>2. alive \subseteq Ids /\ shown \subseteq seen /\ dirty \subseteq shown /\ seen \subseteq Elem
  BY DEF Typed, TypeOK, Page, Firsts
<1>3. \A e \in seen : e[1] \in Ids /\ e = E(e[1]) /\ created[e[1]] = 1
  BY <1>2 DEF Page, Firsts, Elem, E
<1>4. \A i \in Ids : E(i) \in Live <=> i \in alive
  BY DEF Live, E
<1>5. \A e \in Live : e[1] \in alive /\ e = E(e[1])
  BY DEF Live, E
<1>6. Live \subseteq Elem
  BY <1>1, <1>2, <1>5
<1> QED
  BY <1>1, <1>2, <1>3, <1>4, <1>5, <1>6

\* An empty page.
LEMMA InitPage == Init => Page
<1> SUFFICES ASSUME Init PROVE Page
  OBVIOUS
<1>1. Regular /\ Firsts /\ Rooted
  BY DEF Init, Regular, Firsts, Rooted
<1>2. Objects /\ Listed
  BY DEF Init, Objects, Listed
<1>3. Screen /\ UpToDate /\ Gone
  BY DEF Init, Screen, UpToDate, Gone, Live
<1> QED
  BY <1>1, <1>2, <1>3 DEF Page

-----------------------------------------------------------------------------
(* Frames and futures *)

\* A frame builds what lives with its children.
LEMMA BuildsLive ==
  ASSUME IInv, Typed, Page, NEW i \in alive
  PROVE  NextBuilt(E(i)) = Below(i)
<1>1. children[E(i)] = Below(i)
  BY DEF Page, Objects
<1>2. E(i) \in Live
  BY DEF Live
<1>3. ~Rebuilds(E(i)) => built[E(i)] = children[E(i)]
  BY <1>2 DEF Page, UpToDate, Rebuilds
<1>4. Shows(E(i)) = children[E(i)]
  BY DEF Shows, Page, Regular
<1> QED
  BY <1>1, <1>3, <1>4 DEF NextBuilt

\* The next frame shows what lives.
LEMMA ShowsLive ==
  ASSUME IInv, Typed, Page, alive # {}
  PROVE  NextShown = Live
<1>1. Top \in alive /\ alive \subseteq Ids /\ \A i \in alive \ {Top} : Parent[i] \in alive
  BY OnlyFirsts DEF Page, Rooted
<1>2. ASSUME NEW e \in NextShown PROVE e \in Live
  <2>1. e \in Elem /\ e[1] \in Ids /\ e = <<e[1], e[2]>>
    BY DEF NextShown, Elem
  <2>2. PICK n \in [Line[e[1]] -> 1 .. MaxElements] :
          /\ n[Top] = 1 /\ n[e[1]] = e[2]
          /\ \A i \in Line[e[1]] \ {Top} : <<i, n[i]>> \in NextBuilt(<<Parent[i], n[Parent[i]]>>)
    BY DEF NextShown
  <2> DEFINE B == {i \in Line[e[1]] : i \notin alive \/ n[i] # 1}
  <2>3. B \subseteq Ids \ {Top}
    BY <1>1, <2>1, <2>2, LineUp
  <2>4. ASSUME NEW i \in B PROVE Parent[i] \in B
    <3>1. i \in Line[e[1]] /\ i # Top
      BY <2>3
    <3>2. Parent[i] \in Line[e[1]]
      BY <2>1, <3>1, LineUp
    <3>3. CASE Parent[i] \in alive /\ n[Parent[i]] = 1
      <4>1. <<i, n[i]>> \in NextBuilt(E(Parent[i]))
        BY <2>2, <3>1, <3>3 DEF E
      <4>2. <<i, n[i]>> \in Below(Parent[i])
        BY <3>3, <4>1, BuildsLive
      <4>3. i \in alive /\ n[i] = 1
        BY <4>2 DEF Below, E
      <4> QED
        BY <2>4, <4>3
    <3> QED
      BY <3>2, <3>3
  <2> HIDE DEF B
  <2>5. B = {}
    BY <2>3, <2>4, TreeAssumption
  <2>6. e[1] \in alive /\ e[2] = 1
    BY <2>1, <2>2, <2>5, LineUp DEF B
  <2> QED
    BY <2>1, <2>6 DEF Live, E
<1>3. ASSUME NEW i \in alive PROVE E(i) \in NextShown
  <2> DEFINE n == [j \in Line[i] |-> 1]
  <2>1. Line[i] \subseteq alive
    <3>1. alive \in SUBSET Ids /\ i \in Ids
      BY <1>1
    <3> QED
      BY <1>1, <3>1, LineLeast
  <2>2. i \in Line[i] /\ Top \in Line[i] /\ \A j \in Line[i] \ {Top} : Parent[j] \in Line[i]
    BY <1>1, LineUp, LineFromTop
  <2>3. n \in [Line[i] -> 1 .. MaxElements]
    BY ElementBound
  <2>4. ASSUME NEW j \in Line[i] \ {Top}
        PROVE  <<j, n[j]>> \in NextBuilt(<<Parent[j], n[Parent[j]]>>)
    <3>1. n[j] = 1 /\ n[Parent[j]] = 1 /\ j \in alive /\ Parent[j] \in alive
      BY <2>1, <2>2
    <3>2. E(j) \in Below(Parent[j])
      BY <3>1 DEF Below
    <3>3. E(j) \in NextBuilt(E(Parent[j]))
      BY <3>1, <3>2, BuildsLive
    <3> HIDE DEF n
    <3> QED
      BY <3>1, <3>3 DEF E
  <2>5. n[Top] = 1 /\ n[i] = 1
    BY <2>2
  <2>6. E(i) \in Elem /\ E(i)[1] = i /\ E(i)[2] = 1
    BY <1>1, OnlyFirsts
  <2> HIDE DEF n
  <2> QED
    BY <2>3, <2>4, <2>5, <2>6 DEF NextShown
<1> QED
  BY <1>2, <1>3 DEF Live

\* A frame.
LEMMA FramePage ==
  ASSUME Patient, IInv, Typed, Page, DrawFrame
  PROVE  Page'
<1>1. NextShown = Live /\ stamped = {} /\ reshaped = {}
  BY ShowsLive DEF DrawFrame, FrameDue, Patient, Page, Firsts
<1>2. /\ shown' = Live /\ seen' = seen \cup Live
      /\ built' = [e \in Elem |-> IF e \in Live THEN NextBuilt(e) ELSE {}]
      /\ listeners' = Off(Detached(Live))
      /\ painted' = {e \in (Live \cap current) \ empty : Rebuilds(e) \/ e \in painted}
      /\ dirty' = {} /\ reshaped' = {} /\ stamped' = {}
      /\ UNCHANGED <<created, children, hidden, empty, pending, alive, current>>
      /\ Regular /\ Regular'
  BY <1>1 DEF DrawFrame, Page, Regular
<1>3. Live' = Live
  BY <1>2 DEF Live
<1>4. \A e \in Detached(Live) : e \in shown /\ e[1] \in Ids /\ e[1] \notin alive
  BY <1>1, OnlyFirsts DEF Detached
<1>5. \A i \in Ids : /\ listeners'[i] = listeners[i] \/ listeners'[i] = 0
                     /\ i \in alive => listeners'[i] = listeners[i]
  BY <1>2, <1>4 DEF Off
<1>6. Firsts'
  BY <1>2, OnlyFirsts DEF Page, Firsts, Rooted
<1>7. Rooted' /\ Objects'
  BY <1>2 DEF Page, Rooted, Objects, Below
<1>8. Listed'
  BY <1>2, <1>3, <1>5, OnlyFirsts DEF Page, Listed
<1>9. Screen'
  BY <1>2, <1>3, OnlyFirsts DEF Page, Rooted, Screen
<1>10. UpToDate'
  <2>1. Live \subseteq current
    BY DEF Page, UpToDate
  <2>2. ASSUME NEW e \in Live PROVE built'[e] = children[e] /\ e \in painted'
    <3>1. e[1] \in alive /\ e = E(e[1]) /\ e \in Elem
      BY OnlyFirsts
    <3>2. built'[e] = NextBuilt(e)
      BY <1>2, <3>1
    <3>3. NextBuilt(e) = children[e]
      BY <3>1, BuildsLive DEF Page, Objects
    <3>4. Rebuilds(e) \/ e \in painted
      BY DEF Page, UpToDate, Rebuilds
    <3> QED
      BY <1>2, <2>1, <3>2, <3>3, <3>4 DEF Regular
  <2> QED
    BY <1>2, <1>3, <2>1, <2>2 DEF UpToDate
<1>11. Gone'
  <2> SUFFICES ASSUME NEW e \in seen \ Live
               PROVE  e[1] \notin alive /\ (e[1] \in NodeIds => listeners'[e[1]] # 1)
    BY <1>2 DEF Gone
  <2>1. e[1] \in Ids /\ e = E(e[1]) /\ e[1] \notin alive
    BY OnlyFirsts
  <2>2. CASE e \in shown
    BY <1>2, <2>1, <2>2 DEF Detached, Off
  <2>3. CASE e \notin shown
    BY <1>5, <2>1, <2>3 DEF Page, Gone
  <2> QED
    BY <2>1, <2>2, <2>3
<1> QED
  BY <1>2, <1>6, <1>7, <1>8, <1>9, <1>10, <1>11 DEF Page

\* The Future of ElementNotifier registers what lives.
LEMMA RegisterPage ==
  ASSUME IInv, Typed, Page, NEW e \in Elem, Register(e)
  PROVE  Page'
<1>1. /\ pending \in Seq(SUBSET Elem) /\ Len(pending) = 1 /\ e \in pending[1]
      /\ e[1] \in alive /\ e = E(e[1]) /\ e[1] \in Ids /\ e[2] = 1
  <2>1. pending \in Seq(SUBSET Elem) /\ pending # <<>> /\ Len(pending) <= 1 /\ e \in Head(pending)
    BY DEF Typed, TypeOK, Page, Listed, Register
  <2>2. Len(pending) = 1 /\ e \in pending[1] /\ 1 \in DOMAIN pending
    <3>1. Len(pending) \in Nat /\ Len(pending) # 0 /\ DOMAIN pending = 1 .. Len(pending)
      BY <2>1
    <3>2. Len(pending) = 1
      BY <2>1, <3>1
    <3> QED
      BY <2>1, <3>1, <3>2
  <2>3. e \in Live
    BY <2>2 DEF Page, Listed
  <2> QED
    BY <2>1, <2>2, <2>3, OnlyFirsts
<1>2. /\ listeners' = [listeners EXCEPT ![e[1]] = 1]
      /\ UNCHANGED <<created, children, hidden, empty, alive, shown, seen, built, dirty,
                     reshaped, stamped, current, painted>>
  BY <1>1 DEF Register
<1>3. /\ listeners'[e[1]] = 1
      /\ \A i \in Ids : i # e[1] => listeners'[i] = listeners[i]
  BY <1>1, <1>2 DEF Typed, TypeOK
<1>4. /\ Len(pending') <= 1
      /\ \A k \in DOMAIN pending' : pending'[k] \subseteq pending[1]
      /\ \A f \in pending[1] \ {e} : \E k \in DOMAIN pending' : f \in pending'[k]
  <2>1. CASE Head(pending) = {e}
    <3>1. pending' = Tail(pending) /\ pending[1] = {e}
      BY <1>1, <2>1 DEF Register
    <3>2. Len(pending') = 0 /\ DOMAIN pending' = {}
      BY <1>1, <3>1
    <3> QED
      BY <3>1, <3>2
  <2>2. CASE Head(pending) # {e}
    <3>1. pending' = [pending EXCEPT ![1] = @ \ {e}]
      BY <2>2 DEF Register
    <3>2. DOMAIN pending' = {1} /\ pending'[1] = pending[1] \ {e} /\ Len(pending') = 1
      BY <1>1, <3>1
    <3> QED
      BY <3>2
  <2> QED
    BY <2>1, <2>2
<1>5. Live' = Live
  BY <1>2 DEF Live
<1>6. Regular' /\ Firsts' /\ Rooted' /\ Objects' /\ Screen' /\ UpToDate'
  BY <1>2, <1>5 DEF Page, Regular, Firsts, Rooted, Objects, Below, Screen, UpToDate, Rebuilds
<1>7. Listed'
  <2>1. \A k \in DOMAIN pending' : pending'[k] \subseteq Live
    BY <1>1, <1>4 DEF Page, Listed
  <2>2. ASSUME NEW i \in alive
        PROVE  listeners'[i] = 1 \/ \E k \in DOMAIN pending' : E(i) \in pending'[k]
    <3>1. CASE i = e[1]
      BY <1>3, <3>1
    <3>2. CASE i # e[1]
      <4>1. i \in Ids /\ E(i) # e /\ listeners'[i] = listeners[i]
        BY <1>3, <3>2, OnlyFirsts
      <4>2. DOMAIN pending = {1}
        BY <1>1
      <4>3. listeners[i] = 1 \/ E(i) \in pending[1]
        BY <4>2 DEF Page, Listed
      <4> QED
        BY <1>4, <4>1, <4>3
    <3> QED
      BY <3>1, <3>2
  <2> QED
    BY <1>2, <1>4, <1>5, <2>1, <2>2 DEF Listed
<1>8. Gone'
  BY <1>1, <1>2, <1>3, OnlyFirsts DEF Page, Gone
<1> QED
  BY <1>6, <1>7, <1>8 DEF Page

-----------------------------------------------------------------------------
(* Messages of the script *)

\* The clock.
LEMMA TickPage ==
  ASSUME Page, Tick
  PROVE  Page'
<1>1. /\ stamped' = {}
      /\ UNCHANGED <<created, children, hidden, empty, listeners, pending, alive, shown, seen,
                     built, dirty, reshaped, current, painted>>
  BY DEF Tick
<1>2. Live' = Live
  BY <1>1 DEF Live
<1> QED
  BY <1>1, <1>2 DEF Page, Regular, Firsts, Rooted, Objects, Below, Listed, Screen, UpToDate,
                    Rebuilds, Gone

\* When the script sends, whatever lives is registered.
LEMMA AllRegistered ==
  ASSUME Patient, IInv, Typed, Page, ScriptReady
  PROVE  pending = <<>> /\ \A i \in alive : i \in Ids /\ listeners[i] = 1
<1>1. pending = <<>>
  BY ScriptAssumption DEF Patient, ScriptReady
<1> QED
  BY <1>1, OnlyFirsts DEF Page, Listed

\* A notifier that is set makes its builder dirty: if it holds the current
\* millisecond already, the builder is dirty since then.
LEMMA NotifyPage ==
  ASSUME Page, NEW e, e[1] \in NodeIds, Notify(e, FALSE), UNCHANGED shown
  PROVE  /\ dirty \subseteq dirty' /\ dirty' \subseteq shown /\ reshaped' = {}
         /\ e \in shown => e \in dirty'
         /\ stamped' \cap shown \subseteq dirty'
BY DEF Page, Firsts, Screen, Notify, Heard

\* An update of the props of a node.
LEMMA PropsPage ==
  ASSUME Patient, IInv, Typed, Page, NEW id \in Ids, NEW r \in BOOLEAN, UpdateProps(id, r)
  PROVE  Page'
<1> DEFINE e == E(id)
<1>1. id \in alive /\ id \in NodeIds /\ listeners[id] = 1 /\ r = FALSE
  BY AllRegistered DEF UpdateProps, Patient, Fresh
<1>2. /\ Notify(e, FALSE)
      /\ current' = current \ (Of({id}) \ {e})
      /\ painted' = painted \ Of({id})
      /\ UNCHANGED <<created, children, hidden, empty, listeners, pending, shown, seen, built,
                     alive>>
  <2>1. ~Drop(id) /\ <<id, listeners[id]>> = e
    BY <1>1 DEF Drop, E
  <2>2. Notify(<<id, listeners[id]>>, r) => Notify(e, FALSE)
    BY <1>1, <2>1 DEF Notify
  <2> QED
    BY <2>1, <2>2 DEF UpdateProps
<1>3. /\ dirty \subseteq dirty' /\ dirty' \subseteq shown /\ reshaped' = {}
      /\ e \in shown => e \in dirty'
      /\ stamped' \cap shown \subseteq dirty'
  BY <1>1, <1>2, NotifyPage, OnlyFirsts
<1>4. Live' = Live
  BY <1>2 DEF Live
<1>5. Regular' /\ Firsts' /\ Rooted' /\ Objects' /\ Listed' /\ Gone'
  BY <1>2, <1>3, <1>4 DEF Page, Regular, Firsts, Rooted, Objects, Below, Listed, Gone
<1>6. Screen'
  BY <1>2, <1>3, <1>4 DEF Page, Screen
<1>7. \A f \in Live : f # e => f \notin Of({id})
  BY OnlyFirsts DEF Of
<1>8. UpToDate'
  <2>1. Live \subseteq current'
    BY <1>2, <1>7 DEF Page, UpToDate
  <2>2. ASSUME NEW f \in shown \cap Live
        PROVE  Rebuilds(f)' \/ (built'[f] = children'[f] /\ f \in painted')
    <3>1. Rebuilds(f) \/ (built[f] = children[f] /\ f \in painted)
      BY DEF Page, UpToDate
    <3>2. Rebuilds(f) => Rebuilds(f)'
      BY <1>2, <1>3 DEF Rebuilds
    <3>3. f = e => Rebuilds(f)'
      BY <1>3 DEF Rebuilds
    <3> QED
      BY <1>2, <1>7, <3>1, <3>2, <3>3
  <2> QED
    BY <1>2, <1>4, <2>1, <2>2 DEF UpToDate
<1> QED
  BY <1>5, <1>6, <1>8 DEF Page

\* The state before an update of the children of id: id is registered, and the
\* ids of the render object are new.
LEMMA ChildrenGuard ==
  ASSUME Patient, IInv, Typed, Page, NEW id \in Ids, NEW S \in SUBSET Replaced(id),
         NEW H \in Hidden(S), NEW V \in Empties, UpdateChildren(id, S, H, V)
  PROVE  /\ pending = <<>> /\ id \in alive /\ listeners[id] = 1 /\ alive \subseteq Ids
         /\ S \subseteq Ids \ {Top, id} /\ \A i \in S : created[i] = 0 /\ i \notin alive
         /\ \A i \in S : Parent[i] = id \/ Parent[i] \in S
         /\ NewElems(S) = {E(i) : i \in S} /\ \A i \in S : NewElem(i) = E(i)
         /\ alive' = (alive \ Replaced(id)) \cup S
         /\ CreateElements(E(id), S, {}, {}) /\ Notify(Owner(E(id)), FALSE)
         /\ current' = (current \ (Of(S \cup {id}) \ {E(id)})) \cup NewElems(S)
         /\ painted' = painted \ Of(S \cup {id})
         /\ UNCHANGED <<listeners, shown, seen, built>>
<1>1. id \in alive /\ pending = <<>> /\ listeners[id] = 1 /\ RenderObject(id, S, H, V)
  BY AllRegistered DEF UpdateChildren
<1>2. S \subseteq Ids \ {Top, id} /\ \A i \in S : created[i] = 0
  <2>1. \A i \in S : created[i] < 1 /\ i \in Ids
    BY <1>1, ReplacedIs DEF RenderObject, Patient, Fresh
  <2> QED
    BY <2>1, ReplacedIs, OnlyFirsts
<1>3. \A i \in S : i \notin alive /\ NewElem(i) = E(i)
  BY <1>2 DEF Page, Rooted, NewElem, E
<1>4. NewElems(S) = {E(i) : i \in S}
  BY <1>3 DEF NewElems
<1>5. ~Drop(id) /\ <<id, listeners[id]>> = E(id)
  BY <1>1 DEF Drop, E
<1>h. H = {} /\ V = {}
  BY DEF Hidden, Empties, Patient, Fresh
<1>6. /\ alive' = (alive \ Replaced(id)) \cup S
      /\ CreateElements(E(id), S, {}, {}) /\ Notify(Owner(E(id)), FALSE)
      /\ current' = (current \ (Of(S \cup {id}) \ {E(id)})) \cup NewElems(S)
      /\ painted' = painted \ Of(S \cup {id})
      /\ UNCHANGED <<listeners, shown, seen, built>>
  BY <1>5, <1>h DEF UpdateChildren
<1> QED
  BY <1>1, <1>2, <1>3, <1>4, <1>6, OnlyFirsts DEF RenderObject

\* A slot has one owner, the element of its scaffold.
LEMMA OwnerIs ==
  ASSUME IInv, Typed, Page, NEW id \in alive
  PROVE  LET o == IF id \in Fragments THEN Parent[id] ELSE id
         IN  /\ Owner(E(id)) = E(o) /\ o \in alive \cap NodeIds
             /\ id \in Fragments => E(id) \in children[E(o)]
             /\ E(id) \in shown => E(o) \in shown
<1>1. id \in Ids /\ E(id)[1] = id
  BY OnlyFirsts
<1>2. CASE id \in Fragments
  <2> DEFINE q == Parent[id]
  <2>1. id # Top /\ q \in alive /\ q \in NodeIds /\ q \in Ids
    BY <1>2, IdAssumption DEF Page, Rooted, NodeIds
  <2>2. E(id) \in children[E(q)] /\ E(q) \in Elem
    BY <2>1, OnlyFirsts DEF Page, Objects, Below
  <2>3. \A p \in Elem : E(id) \in children[p] => p = E(q)
    BY <1>1 DEF Page, Objects
  <2>4. (CHOOSE p \in Elem : E(id) \in children[p]) = E(q)
    BY <2>2, <2>3
  <2>5. E(id) \in shown => E(q) \in shown
    BY <1>1, <2>1 DEF Page, Screen
  <2> QED
    BY <1>1, <1>2, <2>1, <2>2, <2>4, <2>5 DEF Owner
<1>3. CASE id \notin Fragments
  BY <1>1, <1>3 DEF Owner, NodeIds
<1> QED
  BY <1>2, <1>3

\* An update of the children of id makes the new tree of objects.
LEMMA ChildrenObjects ==
  ASSUME Patient, IInv, Typed, Page, NEW id \in Ids, NEW S \in SUBSET Replaced(id),
         NEW H \in Hidden(S), NEW V \in Empties, UpdateChildren(id, S, H, V)
  PROVE  /\ Rooted' /\ Objects'
         /\ \A d \in Elem : d # E(id) /\ d \notin NewElems(S) => children'[d] = children[d]
         /\ {f \in children[E(id)] : f[1] \in Fragments} \subseteq children'[E(id)]
         /\ \A i \in Ids : created'[i] = IF i \in S THEN 1 ELSE created[i]
<1> DEFINE e == E(id)
<1>1. /\ id \in alive /\ alive \subseteq Ids
      /\ S \subseteq Ids \ {Top, id} /\ \A i \in S : created[i] = 0 /\ i \notin alive
      /\ \A i \in S : Parent[i] = id \/ Parent[i] \in S
      /\ NewElems(S) = {E(i) : i \in S} /\ \A i \in S : NewElem(i) = E(i)
      /\ alive' = (alive \ Replaced(id)) \cup S
      /\ CreateElements(e, S, {}, {})
  BY ChildrenGuard
<1>2. e \in Elem /\ e[1] = id /\ e \notin NewElems(S)
  BY <1>1, OnlyFirsts DEF E
<1>3. \A i \in Ids : created'[i] = IF i \in S THEN 1 ELSE created[i]
  BY <1>1 DEF CreateElements
<1> HIDE DEF e
<1>4. children'[e] = {NewElem(i) : i \in {j \in S : Parent[j] = id}}
                     \cup {f \in children[e] : f[1] \in Fragments /\ id \notin Fragments}
  BY <1>1, <1>2 DEF CreateElements
<1>5. \A d \in Elem \ {e} : children'[d] =
        IF d \in NewElems(S) THEN {NewElem(i) : i \in {j \in S : Parent[j] = d[1]}}
                             ELSE children[d]
  BY <1>1, <1>2 DEF CreateElements
<1>6. \A f \in children[e] : f[1] # Top /\ Parent[f[1]] = id /\ (f[1] \in Fragments => id \notin Fragments)
  <2>1. \A f \in children[e] : f[1] # Top /\ e = E(Parent[f[1]])
    BY <1>2 DEF Page, Objects
  <2>2. \A f \in children[e] : Parent[f[1]] = id
    BY <1>2, <2>1 DEF E
  <2> QED
    BY <2>1, <2>2, IdAssumption DEF NodeIds
<1>7. Rooted'
  <2>1. Top \in alive /\ \A i \in alive : created[i] = 1 /\ (i # Top => Parent[i] \in alive)
    BY <1>1 DEF Page, Rooted
  <2>2. Top \in alive' /\ id \in alive'
    BY <1>1, <2>1, ReplacedIs
  <2>3. ASSUME NEW i \in alive' PROVE created'[i] = 1 /\ (i # Top => Parent[i] \in alive')
    <3>1. CASE i \in S
      BY <1>1, <1>3, <2>2, <3>1
    <3>2. CASE i \in alive /\ i \notin Replaced(id)
      BY <1>1, <1>3, <2>1, <3>2, ReplacedIs
    <3> QED
      BY <1>1, <3>1, <3>2
  <2> QED
    BY <2>2, <2>3 DEF Rooted
<1>8. ASSUME NEW p \in Elem, NEW c \in children'[p] PROVE c[1] # Top /\ p = E(Parent[c[1]])
  <2>1. \A d \in Elem : \A f \in children[d] : f[1] # Top /\ d = E(Parent[f[1]])
    BY DEF Page, Objects
  <2>2. \A i \in S : E(i)[1] = i /\ i # Top
    BY <1>1 DEF E
  <2>3. CASE p = e
    BY <1>1, <1>2, <1>4, <1>8, <2>1, <2>2, <2>3 DEF e
  <2>4. CASE p # e /\ p \in NewElems(S)
    <3>1. PICK q \in S : p = E(q)
      BY <1>1, <2>4
    <3>2. PICK j \in S : Parent[j] = p[1] /\ c = E(j)
      <4>1. children'[p] = {NewElem(j) : j \in {j \in S : Parent[j] = p[1]}}
        BY <1>5, <2>4, Zenon
      <4> QED
        BY <1>1, <1>8, <4>1
    <3> QED
      BY <2>2, <3>1, <3>2
  <2>5. CASE p # e /\ p \notin NewElems(S)
    BY <1>5, <1>8, <2>1, <2>5
  <2> QED
    BY <2>3, <2>4, <2>5
<1>9. ASSUME NEW i \in alive' PROVE children'[E(i)] = Below(i)'
  <2>0. /\ i \in Ids /\ E(i) \in Elem /\ E(i)[1] = i
        /\ Below(i)' = {E(j) : j \in {j \in alive' \ {Top} : Parent[j] = i}}
        /\ E(i) = e <=> i = id
        /\ E(i) \in NewElems(S) <=> i \in S
    BY <1>1, OnlyFirsts DEF Below, E, e
  <2>1. i \in alive => children[E(i)] = {E(j) : j \in {j \in alive \ {Top} : Parent[j] = i}}
    BY DEF Page, Objects, Below
  <2>2. \A j \in alive \ {Top} : Parent[j] \in alive
    BY DEF Page, Rooted
  <2>3. CASE i = id
    <3>1. \A j \in Ids \ {Top} : Parent[j] = id =>
            (j \in alive' <=> j \in S \/ (j \in alive /\ j \in Fragments))
      BY <1>1, ReplacedIs
    <3>2. ASSUME NEW c \in children'[e] PROVE c \in Below(i)'
      <4>1. CASE c \in {NewElem(j) : j \in {j \in S : Parent[j] = id}}
        BY <1>1, <2>0, <2>3, <4>1
      <4>2. CASE c \in children[e] /\ c[1] \in Fragments
        <5>1. PICK j \in alive \ {Top} : Parent[j] = id /\ c = E(j)
          BY <1>1, <2>1, <2>3, <4>2 DEF e
        <5>2. j \in Fragments /\ j \in Ids
          BY <1>1, <4>2, <5>1 DEF E
        <5> QED
          BY <2>0, <2>3, <3>1, <5>1, <5>2
      <4> QED
        BY <1>4, <3>2, <4>1, <4>2
    <3>3. ASSUME NEW c \in Below(i)' PROVE c \in children'[e]
      <4>1. PICK j \in alive' \ {Top} : Parent[j] = id /\ c = E(j)
        BY <2>0, <2>3, <3>3
      <4>2. CASE j \in S
        BY <1>1, <1>4, <4>1, <4>2
      <4>3. CASE j \notin S
        <5>1. j \in alive /\ j \in Fragments
          BY <1>1, <3>1, <4>1, <4>3
        <5>2. c \in children[e] /\ c[1] = j
          BY <1>1, <2>1, <2>3, <4>1, <5>1 DEF e, E
        <5> QED
          BY <1>4, <1>6, <5>1, <5>2
      <4> QED
        BY <4>2, <4>3
    <3> QED
      BY <2>0, <2>3, <3>2, <3>3
  <2>4. CASE i \in S
    <3>1. \A j \in alive' \ {Top} : Parent[j] = i => j \in S
      BY <1>1, <2>2, <2>4
    <3>2. children'[E(i)] = {NewElem(j) : j \in {j \in S : Parent[j] = i}}
      <4>1. E(i) \in Elem \ {e} /\ E(i) \in NewElems(S)
        BY <1>1, <2>0, <2>4
      <4>2. children'[E(i)] = {NewElem(j) : j \in {j \in S : Parent[j] = E(i)[1]}}
        BY <1>5, <4>1, Zenon
      <4> QED
        BY <2>0, <4>2
    <3> QED
      BY <1>1, <2>0, <3>1, <3>2
  <2>5. CASE i # id /\ i \notin S
    <3>1. i \in alive /\ i \notin Replaced(id)
      BY <1>1, <2>5
    <3>2. \A j \in Ids \ {Top} : Parent[j] = i => (j \in alive' <=> j \in alive)
      BY <1>1, <2>5, <3>1, ReplacedIs
    <3>3. children'[E(i)] = children[E(i)]
      BY <1>5, <2>0, <2>5
    <3>4. {j \in alive' \ {Top} : Parent[j] = i} = {j \in alive \ {Top} : Parent[j] = i}
      BY <1>1, <3>2
    <3> QED
      BY <2>0, <2>1, <3>1, <3>3, <3>4
  <2> QED
    BY <2>3, <2>4, <2>5
<1>10. Objects'
  BY <1>8, <1>9 DEF Objects
<1>11. {f \in children[E(id)] : f[1] \in Fragments} \subseteq children'[E(id)]
  BY <1>4, <1>6 DEF e
<1> QED
  BY <1>3, <1>5, <1>7, <1>10, <1>11 DEF e

\* An update of the children of a node, or of the content of a fragment.
LEMMA ChildrenPage ==
  ASSUME Patient, IInv, Typed, Page, NEW id \in Ids, NEW S \in SUBSET Replaced(id),
         NEW H \in Hidden(S), NEW V \in Empties, UpdateChildren(id, S, H, V)
  PROVE  Page'
<1> DEFINE e == E(id)
           o == IF id \in Fragments THEN Parent[id] ELSE id
<1>1. /\ pending = <<>> /\ id \in alive /\ alive \subseteq Ids
      /\ S \subseteq Ids \ {Top, id} /\ \A i \in S : created[i] = 0 /\ i \notin alive
      /\ NewElems(S) = {E(i) : i \in S}
      /\ alive' = (alive \ Replaced(id)) \cup S
      /\ CreateElements(e, S, {}, {}) /\ Notify(Owner(e), FALSE)
      /\ current' = (current \ (Of(S \cup {id}) \ {e})) \cup NewElems(S)
      /\ painted' = painted \ Of(S \cup {id})
      /\ UNCHANGED <<listeners, shown, seen, built>>
      /\ \A i \in alive : listeners[i] = 1
  BY ChildrenGuard, AllRegistered DEF UpdateChildren
<1>2. /\ Rooted' /\ Objects'
      /\ \A d \in Elem : d # e /\ d \notin NewElems(S) => children'[d] = children[d]
      /\ {f \in children[e] : f[1] \in Fragments} \subseteq children'[e]
      /\ \A i \in Ids : created'[i] = IF i \in S THEN 1 ELSE created[i]
  BY ChildrenObjects
<1>3. /\ Owner(e) = E(o) /\ o \in alive /\ o \in NodeIds /\ o \in Ids
      /\ id \in Fragments => e \in children[E(o)]
      /\ e \in shown => E(o) \in shown
  BY <1>1, OwnerIs
<1>4. /\ dirty \subseteq dirty' /\ dirty' \subseteq shown /\ reshaped' = {}
      /\ E(o) \in shown => E(o) \in dirty'
      /\ stamped' \cap shown \subseteq dirty'
  <2>1. Notify(E(o), FALSE)
    BY <1>1, <1>3
  <2>2. E(o)[1] \in NodeIds
    BY <1>3 DEF E
  <2> QED
    BY <1>1, <2>1, <2>2, NotifyPage
<1>5. /\ \A i \in Ids : /\ created[i] \in {0, 1}
                        /\ E(i) \in Elem /\ E(i)[1] = i /\ E(i)[2] = 1
      /\ \A f \in seen : f[1] \in Ids /\ f = E(f[1]) /\ created[f[1]] = 1
      /\ shown \subseteq seen /\ dirty \subseteq shown
  BY OnlyFirsts
<1> HIDE DEF e, o
<1>6. Live' = {E(i) : i \in alive'}
  BY DEF Live, E
<1>r. Regular'
  <2>1. {} \cap S = {} /\ NewElems({}) = {}
    BY DEF NewElems
  <2> QED
    BY <1>1, <2>1 DEF CreateElements, Page, Regular
<1>7. Firsts'
  BY <1>1, <1>2, <1>4, <1>5 DEF Page, Firsts
<1>8. Listed'
  <2>1. pending' = IF S = {} THEN <<>> ELSE <<NewElems(S)>>
    BY <1>1 DEF CreateElements
  <2>2. CASE S = {}
    BY <1>1, <2>1, <2>2 DEF Listed
  <2>3. CASE S # {}
    <3>1. Len(pending') = 1 /\ DOMAIN pending' = {1} /\ pending'[1] = NewElems(S)
      BY <2>1, <2>3
    <3>2. NewElems(S) \subseteq Live'
      BY <1>1, <1>6
    <3>3. \A i \in alive' : listeners'[i] = 1 \/ E(i) \in pending'[1]
      BY <1>1, <3>1
    <3> QED
      BY <3>1, <3>2, <3>3 DEF Listed
  <2> QED
    BY <2>2, <2>3
<1>9. Screen'
  <2>1. dirty' = {} => shown = {}
    <3> SUFFICES ASSUME dirty' = {}, shown # {} PROVE FALSE
      OBVIOUS
    <3>1. dirty = {} /\ shown = Live
      BY <1>4 DEF Page, Screen
    <3>2. E(o) \in shown
      BY <1>3, <3>1 DEF Live
    <3> QED
      BY <1>4, <3>2
  <2> QED
    BY <1>1, <1>4, <2>1 DEF Page, Screen
<1>10. UpToDate'
  <2>1. Live' \subseteq current'
    <3> SUFFICES ASSUME NEW i \in alive' PROVE E(i) \in current'
      BY <1>6
    <3>1. CASE i \in S
      BY <1>1, <3>1
    <3>2. CASE i \in alive
      <4>1. E(i) \in current /\ i \notin S /\ E(i)[1] = i
        BY <1>1, <1>5, <3>2 DEF Page, UpToDate, Live
      <4>2. E(i) \notin Of(S \cup {id}) \ {e}
        BY <4>1 DEF Of, e
      <4> QED
        BY <1>1, <4>1, <4>2
    <3> QED
      BY <1>1, <3>1, <3>2
  <2>2. ASSUME NEW f \in shown \cap Live'
        PROVE  Rebuilds(f)' \/ (built'[f] = children'[f] /\ f \in painted')
    <3>1. /\ f[1] \in Ids /\ f = E(f[1]) /\ created[f[1]] = 1 /\ f \in Elem
          /\ f[1] \notin S /\ f[1] \in alive /\ f \in Live
      <4>1. f[1] \in Ids /\ f = E(f[1]) /\ created[f[1]] = 1 /\ f \in Elem
        BY <1>5
      <4>2. f[1] \in alive'
        BY <1>1, <1>6 DEF E
      <4> QED
        BY <1>1, <4>1, <4>2 DEF Live
    <3>2. CASE f = e
      <4>1. E(o) \in dirty' /\ f[1] = id
        BY <1>3, <1>4, <1>5, <3>2 DEF e
      <4>2. CASE id \notin Fragments
        BY <4>1, <4>2, <3>2 DEF Rebuilds, o, e
      <4>3. CASE id \in Fragments
        <5>1. E(o) # e /\ E(o) \in Elem /\ E(o) \notin NewElems(S)
          BY <1>1, <1>3, <1>5, <4>3 DEF e, E, NodeIds
        <5>2. e \in children'[E(o)]
          BY <1>2, <1>3, <4>3, <5>1
        <5> QED
          BY <3>2, <4>1, <4>3, <5>2 DEF Rebuilds
      <4> QED
        BY <4>2, <4>3
    <3>3. CASE f # e
      <4>1. Rebuilds(f) \/ (built[f] = children[f] /\ f \in painted)
        BY <3>1 DEF Page, UpToDate
      <4>2. f \notin NewElems(S) /\ f[1] # id
        BY <1>1, <3>1, <3>3 DEF E, e
      <4>3. children'[f] = children[f]
        BY <1>2, <3>1, <3>3, <4>2
      <4>4. f \in painted => f \in painted'
        BY <1>1, <3>1, <4>2 DEF Of
      <4>5. ASSUME f[1] \in Fragments, NEW p \in dirty, f \in children[p]
            PROVE  p \in dirty' /\ f \in children'[p]
        <5>1. p \in Elem /\ p = E(p[1]) /\ created[p[1]] = 1 /\ p \in dirty'
          BY <1>4, <1>5
        <5>2. p \notin NewElems(S)
          BY <1>1, <5>1 DEF E
        <5>3. CASE p = e
          BY <1>2, <4>5, <5>1, <5>3
        <5>4. CASE p # e
          BY <1>2, <4>5, <5>1, <5>2, <5>4
        <5> QED
          BY <5>1, <5>3, <5>4
      <4>6. Rebuilds(f) => Rebuilds(f)'
        BY <1>4, <4>5 DEF Rebuilds
      <4> QED
        BY <1>1, <4>1, <4>3, <4>4, <4>6
    <3> QED
      BY <3>2, <3>3
  <2> QED
    BY <1>1, <2>1, <2>2 DEF UpToDate
<1>11. Gone'
  BY <1>1, <1>5 DEF Page, Gone
<1> QED
  BY <1>r, <1>2, <1>7, <1>8, <1>9, <1>10, <1>11 DEF Page

\* _mount.
LEMMA MountPage ==
  ASSUME Patient, IInv, Typed, Page, NEW S \in SUBSET (Ids \ {Top}),
         NEW H \in Hidden(S), NEW V \in Empties, Mount(S, H, V)
  PROVE  Page'
<1> DEFINE T == S \cup {Top}
<1>1. /\ \A i \in Ids : created[i] = 0 /\ listeners[i] = 0
      /\ alive = {} /\ seen = {} /\ shown = {} /\ dirty = {} /\ reshaped = {} /\ Top \in Ids
  <2>1. \A i \in Ids : created[i] = 0
    BY DEF Mount, IInv, Unmounted
  <2>2. \A i \in Ids : listeners[i] = 0
    BY <2>1, ElementBound DEF IInv, RegistryType
  <2>3. seen = {}
    BY <2>1, OnlyFirsts
  <2> QED
    BY <2>1, <2>2, <2>3, OnlyFirsts, IdAssumption DEF Mount, IInv, Unmounted, NodeIds, Page, Firsts
<1>2. T \subseteq Ids /\ \A i \in T : NewElem(i) = E(i)
  BY <1>1 DEF NewElem, E
<1>3. NewElems(T) = {E(i) : i \in T}
  BY <1>2 DEF NewElems
<1>4. /\ created' = [i \in Ids |-> IF i \in T THEN 1 ELSE 0]
      /\ children' = [d \in Elem |->
            IF d \in NewElems(T) THEN {NewElem(i) : i \in {j \in T : Parent[j] = d[1]}} ELSE {}]
      /\ pending' = <<NewElems(T)>> /\ alive' = T /\ current' = NewElems(T)
      /\ UNCHANGED <<listeners, shown, seen, built, dirty, reshaped, stamped, painted>>
      /\ \A i \in S : Parent[i] \in T
  BY DEF Mount, RenderObject
<1>5. Live' = NewElems(T)
  BY <1>3, <1>4 DEF Live, E
<1>6. \A i \in Ids : E(i) \in Elem /\ E(i)[1] = i
  BY OnlyFirsts
<1>r. Regular'
  <2>1. H = {} /\ V = {} /\ NewElems({}) = {}
    BY DEF Hidden, Empties, Patient, Fresh, NewElems
  <2> QED
    BY <2>1 DEF Mount, Regular
<1>7. Firsts' /\ Rooted' /\ Screen' /\ UpToDate' /\ Gone'
  BY <1>1, <1>2, <1>4, <1>5 DEF Firsts, Rooted, Screen, UpToDate, Gone
<1>8. Listed'
  <2>1. Len(pending') = 1 /\ DOMAIN pending' = {1} /\ pending'[1] = NewElems(T)
    BY <1>4
  <2>2. \A i \in alive' : E(i) \in NewElems(T)
    BY <1>3, <1>4
  <2> QED
    BY <1>5, <2>1, <2>2 DEF Listed
<1>9. ASSUME NEW p \in Elem, NEW c \in children'[p] PROVE c[1] # Top /\ p = E(Parent[c[1]])
  <2>1. PICK q \in T : p = E(q)
    BY <1>3, <1>4, <1>9
  <2>2. PICK j \in T : Parent[j] = p[1] /\ c = E(j)
    BY <1>2, <1>4, <1>9
  <2>3. p[1] = q /\ c[1] = j /\ q \in Ids
    BY <1>2, <1>6, <2>1, <2>2
  <2>4. j # Top
    BY <2>2, <2>3, IdAssumption
  <2> QED
    BY <2>1, <2>2, <2>3, <2>4
<1>10. ASSUME NEW i \in alive' PROVE children'[E(i)] = Below(i)'
  <2>1. E(i) \in Elem /\ E(i)[1] = i /\ E(i) \in NewElems(T)
    BY <1>2, <1>3, <1>4, <1>6
  <2>2. children'[E(i)] = {NewElem(j) : j \in {j \in T : Parent[j] = i}}
    BY <1>4, <2>1
  <2>3. Below(i)' = {E(j) : j \in {j \in T \ {Top} : Parent[j] = i}}
    BY <1>4 DEF Below, E
  <2>4. Parent[Top] # i
    BY <1>2, <1>4, IdAssumption
  <2> QED
    BY <1>2, <2>2, <2>3, <2>4
<1>11. Objects'
  BY <1>9, <1>10 DEF Objects
<1> QED
  BY <1>r, <1>7, <1>8, <1>11 DEF Page

\* Messages, futures and frames keep the page in order.
LEMMA NextPage ==
  ASSUME Patient
  PROVE  IInv /\ Typed /\ Page /\ [Next]_vars => Page'
<1> SUFFICES ASSUME IInv, Typed, Page, [Next]_vars PROVE Page'
  OBVIOUS
<1>1. CASE UNCHANGED vars
  <2>1. Live' = Live
    BY <1>1 DEF vars, Live
  <2> QED
    BY <1>1, <2>1 DEF vars, Page, Regular, Firsts, Rooted, Objects, Below, Listed, Screen, UpToDate,
                      Rebuilds, Gone
<1>2. ASSUME Send PROVE Page'
  BY <1>2, PropsPage, ChildrenPage DEF Send
<1> QED
  BY <1>1, <1>2, MountPage, RegisterPage, FramePage, TickPage DEF Next, RunFuture

\* With a patient script the page is in order in every reachable state.
THEOREM AlwaysPage ==
  ASSUME Patient
  PROVE  Spec => []Page
<1>1. Init => IInv /\ Typed /\ Page
  BY InitIInv, InitTyped, InitPage
<1>2. IInv /\ Typed /\ Page /\ [Next]_vars => (IInv /\ Typed /\ Page)'
  BY NextIInv, NextTyped, NextPage
<1> QED
  BY <1>1, <1>2, PTL DEF Spec

\* A settled page shows what lives, all of it registered.
LEMMA SettledPage ==
  ASSUME IInv, Typed, Page, Settled
  PROVE  /\ shown = Live
         /\ \A e \in shown : listeners[e[1]] = e[2]
         /\ {e[1] : e \in shown} = alive
         /\ shown \subseteq painted
         /\ \A e \in seen \ shown : e[1] \in NodeIds => listeners[e[1]] # e[2]
<1>1. pending = <<>> /\ dirty = {} /\ shown = Live
  BY DEF Settled, FrameDue, Page, Screen
<1>2. \A e \in shown : e[1] \in alive /\ e = E(e[1]) /\ e[2] = 1
  BY <1>1, OnlyFirsts DEF E
<1>3. \A i \in alive : listeners[i] = 1 /\ E(i) \in shown /\ E(i)[1] = i
  BY <1>1 DEF Page, Listed, Live, E
<1>4. \A e \in shown : e \in painted
  <2> SUFFICES ASSUME NEW e \in shown PROVE e \in painted
    OBVIOUS
  <2>1. ~Rebuilds(e)
    BY <1>1 DEF Rebuilds
  <2> QED
    BY <1>1, <2>1 DEF Page, UpToDate
<1>5. \A e \in seen \ shown : e[1] \in NodeIds => listeners[e[1]] # e[2]
  BY OnlyFirsts DEF Page, Gone, Firsts
<1> QED
  BY <1>1, <1>2, <1>3, <1>4, <1>5

\* The screen shows the nodes of the tree the script last sent, each built
\* with every update, if moreover the script waits until elements are
\* registered, has one child for each widget of one child, and no frame falls
\* into the millisecond of an update.
THEOREM ScreenCatchesUp ==
  ASSUME Patient
  PROVE  Spec => []ScreenMatches
<1>1. IInv /\ Typed /\ Page => ScreenMatches
  BY SettledPage DEF ScreenMatches
<1> QED
  BY <1>1, Inductive, AlwaysTyped, AlwaysPage, PTL

\* ElementNotifier.removeListener takes every node out of the registry that
\* left the screen, for the same scripts.
THEOREM NothingOrphaned ==
  ASSUME Patient
  PROVE  Spec => []NoOrphans
<1>1. IInv /\ Typed /\ Page => NoOrphans
  BY SettledPage DEF NoOrphans
<1> QED
  BY <1>1, Inductive, AlwaysTyped, AlwaysPage, PTL

=============================================================================
