---------------------------- MODULE ViewsProofs -----------------------------
(***************************************************************************)
(* Proofs about Views, for every set of views and pages.                   *)
(***************************************************************************)
EXTENDS Views, TLAPS

\* The state of a SanoView has run initState.
Begun(v) == life[v] \notin {"none", "routed", "lost"}

\* MountsOnce is not inductive: that removing the page's listener leaves the
\* view none at all needs each view to listen for its own page only, and
\* that a view which registers has no root yet needs roots to belong to views
\* that have begun.
IInv ==
  /\ TypeOK
  /\ \A v \in root : Begun(v)
  /\ \A p \in Pages : onMount[p] # None => Begun(onMount[p]) /\ PageOf[onMount[p]] = p
  /\ MountsOnce

\* initInstance leaves the bridge without page listeners and without views.
LEMMA InitIInv == Init => IInv
BY DEF Init, IInv, TypeOK, MountsOnce, Begun, Life

\* The app, and with it the page of each view, stays what it is.
LEMMA AppKept ==
  ASSUME app \in Apps, [Next]_vars
  PROVE  /\ app' = app
         /\ PageOf \in [View -> Pages] /\ PageOf' = PageOf
         /\ OwnNames' = OwnNames /\ Orderly' = Orderly
<1>1. app' = app
  BY DEF Next, vars
<1>2. app.pageOf \in [View -> Pages]
  BY PageAssumption
<1> QED
  BY <1>1, <1>2 DEF PageOf, Covers, Faults, Polite, OwnNames, Orderly

\* Every call of the script and every step of a view keeps the invariant.
LEMMA NextIInv == IInv /\ [Next]_vars => IInv'
<1> SUFFICES ASSUME IInv, [Next]_vars PROVE IInv'
  OBVIOUS
<1>0. app' = app /\ app \in Apps /\ PageOf \in [View -> Pages] /\ PageOf' = PageOf
  BY AppKept DEF IInv, TypeOK
<1> USE PageAssumption, <1>0 DEF IInv, TypeOK, MountsOnce, Begun, Life, bridgeVars, scriptVars
<1>1. CASE Initialize
  BY <1>1 DEF Initialize
<1>2. ASSUME NEW v \in View, Push(v) PROVE IInv'
  BY <1>2 DEF Push
<1>3. ASSUME NEW v \in View, Open(v) PROVE IInv'
  BY <1>3 DEF Open
<1>4. ASSUME NEW v \in View, InitState(v) PROVE IInv'
  <2>1. TypeOK'
    BY <1>4 DEF InitState
  <2>2. life' \in [View -> Life] /\ life'[v] \in {"live", "broken"}
        /\ \A w \in View : w # v => life'[w] = life[w]
    BY <1>4 DEF InitState
  <2>3. v \notin root /\ root' = root
    BY <1>4 DEF InitState
  <2>4. \A p \in Pages : onMount'[p] = IF p = PageOf[v] THEN v ELSE onMount[p]
    BY <1>4 DEF InitState
  <2> QED
    BY <2>1, <2>2, <2>3, <2>4
<1>5. ASSUME NEW v \in View, Dispose(v) PROVE IInv'
  <2>1. TypeOK'
    BY <1>5 DEF Dispose, DisposeChannel
  <2>2. \A w \in View : Begun(w) => Begun(w)'
    BY <1>5 DEF Dispose
  <2>3. \A p \in Pages : onMount'[p] \in {None, onMount[p]}
    BY <1>5 DEF Dispose, DisposeChannel
  <2>4. root' = root
    BY <1>5 DEF Dispose
  <2> QED
    BY <2>1, <2>2, <2>3, <2>4
<1>6. ASSUME NEW p \in Pages, SendTree(p) PROVE IInv'
  <2>1. TypeOK'
    BY <1>6 DEF SendTree, SetState
  <2>2. life' = life
    BY <1>6 DEF SendTree
  <2>3. \A q \in Pages : onMount'[q] = IF q = p THEN None ELSE onMount[q]
    BY <1>6 DEF SendTree
  <2>4. root' = root \/ (onMount[p] # None /\ root' = root \cup {onMount[p]})
    BY <1>6 DEF SendTree
  <2> QED
    BY <2>1, <2>2, <2>3, <2>4
<1>7. ASSUME NEW p \in Pages, SendUpdate(p) PROVE IInv'
  BY <1>7 DEF SendUpdate
<1>8. CASE UNCHANGED vars
  BY <1>8 DEF vars
<1> QED
  BY <1>1, <1>2, <1>3, <1>4, <1>5, <1>6, <1>7, <1>8 DEF Next

\* Every reachable state satisfies the inductive invariant.
THEOREM Inductive == Spec => []IInv
BY InitIInv, NextIInv, PTL DEF Spec

\* The listeners of the bridge and the lives of the views keep their types.
THEOREM TypeCorrect == Spec => []TypeOK
<1>1. IInv => TypeOK
  BY DEF IInv
<1> QED
  BY <1>1, Inductive, PTL

\* Bridge.once together with initState mounts a view at most once, also when
\* a page is opened several times, page ids overlap, and the script throws or
\* sends whatever it likes.
THEOREM NeverMountsTwice == Spec => []MountsOnce
<1>1. IInv => MountsOnce
  BY DEF IInv
<1> QED
  BY <1>1, Inductive, PTL

-----------------------------------------------------------------------------
(* Pages with names of their own *)

\* A step leaves the live views' listeners in place when names are distinct.
LEMMA NextHears ==
  ASSUME OwnNames, IInv, Hears, [Next]_vars
  PROVE  Hears'
<1>0. app' = app /\ PageOf \in [View -> Pages] /\ PageOf' = PageOf
  BY AppKept DEF IInv, TypeOK
<1> USE PageAssumption, <1>0 DEF Hears, OwnNames, IInv, TypeOK, Life, bridgeVars, scriptVars
<1>1. CASE Initialize
  BY <1>1 DEF Initialize
<1>2. ASSUME NEW v \in View, Push(v) PROVE Hears'
  BY <1>2 DEF Push
<1>3. ASSUME NEW v \in View, Open(v) PROVE Hears'
  BY <1>3 DEF Open
<1>4. ASSUME NEW v \in View, InitState(v) PROVE Hears'
  <2>1. \A w \in View : w # v => life'[w] = life[w] /\ PageOf[w] # PageOf[v]
    BY <1>4 DEF InitState
  <2>2. \A p \in Pages :
          /\ onMount'[p] = IF p = PageOf[v] THEN v ELSE onMount[p]
          /\ onUpdate'[p] = IF p = PageOf[v] THEN v ELSE onUpdate[p]
    BY <1>4 DEF InitState
  <2>3. root' = root
    BY <1>4 DEF InitState
  <2> QED
    BY <2>1, <2>2, <2>3
<1>5. ASSUME NEW v \in View, Dispose(v) PROVE Hears'
  <2>1. life'[v] # "live" /\ \A w \in View : w # v => life'[w] = life[w]
    BY <1>5 DEF Dispose
  <2>2. \A p \in Pages : p # PageOf[v] =>
          onMount'[p] = onMount[p] /\ onUpdate'[p] = onUpdate[p]
    BY <1>5 DEF Dispose, DisposeChannel, Covered
  <2>3. \A w \in View : w # v => PageOf[w] # PageOf[v]
    OBVIOUS
  <2>4. root' = root
    BY <1>5 DEF Dispose
  <2> QED
    BY <2>1, <2>2, <2>3, <2>4
<1>6. ASSUME NEW p \in Pages, SendTree(p) PROVE Hears'
  <2>1. life' = life /\ onUpdate' = onUpdate /\ root \subseteq root'
    BY <1>6 DEF SendTree
  <2>2. \A q \in Pages : q # p => onMount'[q] = onMount[q]
    BY <1>6 DEF SendTree
  <2>3. onMount[p] # None => onMount[p] \in root'
    BY <1>6 DEF SendTree
  <2> QED
    BY <2>1, <2>2, <2>3
<1>7. ASSUME NEW p \in Pages, SendUpdate(p) PROVE Hears'
  BY <1>7 DEF SendUpdate
<1>8. CASE UNCHANGED vars
  BY <1>8 DEF vars
<1> QED
  BY <1>1, <1>2, <1>3, <1>4, <1>5, <1>6, <1>7, <1>8 DEF Next

\* With distinct page names a view on the navigator's stack always answers for
\* its page, whatever the other views and the script do.
THEOREM AlwaysHears == Spec => []LiveHears
<1>1. Init => LiveHears
  BY DEF Init, LiveHears, Hears
<1>2. IInv /\ LiveHears /\ [Next]_vars => LiveHears'
  BY NextHears, AppKept DEF LiveHears, IInv, TypeOK
<1> QED
  BY <1>1, <1>2, Inductive, PTL DEF Spec

-----------------------------------------------------------------------------
(* A script that neither throws nor updates a page before its tree *)

\* Why no handler throws.  The listeners of a page belong to its view while
\* that is in place; only a live view has the script asked for a tree; and
\* once the tree was sent, whoever answers updates has the root for them.
OwnListeners ==
  \A p \in Pages : onUpdate[p] # None =>
    Begun(onUpdate[p]) /\ PageOf[onUpdate[p]] = p

Calm ==
  /\ Hears
  /\ Silent
  /\ ~crashed
  /\ OwnListeners
  /\ \A p \in asked : \E v \in View : life[v] = "live" /\ PageOf[v] = p
  /\ \A p \in sent : onUpdate[p] # None => onUpdate[p] \in root

\* A step of a well behaved script and of views with names of their own keeps
\* all of that.
LEMMA NextCalm ==
  ASSUME Orderly, IInv, Calm, [Next]_vars
  PROVE  Calm'
<1>a. app' = app /\ PageOf \in [View -> Pages] /\ PageOf' = PageOf
  BY AppKept DEF IInv, TypeOK
<1>b. OwnNames /\ ~Faults /\ Polite
  BY DEF Orderly
<1>0. Hears'
  BY <1>b, NextHears DEF Calm
<1> USE PageAssumption, <1>a, <1>b DEF Calm, OwnNames, IInv, TypeOK, Life, Begun, Silent,
                           OwnListeners, bridgeVars, scriptVars
<1>1. CASE Initialize
  BY <1>0, <1>1 DEF Initialize
<1>2. ASSUME NEW v \in View, Push(v) PROVE Calm'
  BY <1>0, <1>2 DEF Push
<1>3. ASSUME NEW v \in View, Open(v) PROVE Calm'
  BY <1>0, <1>3 DEF Open
<1>4. ASSUME NEW v \in View, InitState(v) PROVE Calm'
  <2>1. /\ life'[v] \in {"live", "broken"}
        /\ \A w \in View : w # v => life'[w] = life[w] /\ PageOf[w] # PageOf[v]
    BY <1>4 DEF InitState
  <2>2. \A p \in Pages :
          /\ onMount'[p] = IF p = PageOf[v] THEN v ELSE onMount[p]
          /\ onUpdate'[p] = IF p = PageOf[v] THEN v ELSE onUpdate[p]
    BY <1>4 DEF InitState
  <2>3. life[v] = "routed" /\ root' = root /\ crashed' = crashed
    BY <1>4 DEF InitState
  <2>4. PageOf[v] \notin asked
    BY <2>3
  <2>a. asked' = asked \/ (life'[v] = "live" /\ asked' = asked \cup {PageOf[v]})
    BY <1>4 DEF InitState
  <2>b. sent' = sent \/ sent' = sent \ {PageOf[v]}
    BY <1>4 DEF InitState
  <2>c. sent \ {PageOf[v]} = sent
    BY <2>4
  <2>5. /\ asked' = asked \/ (life'[v] = "live" /\ asked' = asked \cup {PageOf[v]})
        /\ sent' = sent
    BY <2>a, <2>b, <2>c
  <2>6. Silent'
    BY <2>1, <2>2, <2>3
  <2>7. OwnListeners'
    BY <2>1, <2>2, <2>3
  <2>8. \A p \in asked' : \E w \in View : life'[w] = "live" /\ PageOf[w] = p
    BY <2>1, <2>3, <2>5
  <2>9. \A p \in sent' : onUpdate'[p] # None => onUpdate'[p] \in root'
    BY <2>2, <2>3, <2>4, <2>5
  <2> QED
    BY <1>0, <2>3, <2>6, <2>7, <2>8, <2>9
<1>5. ASSUME NEW v \in View, Dispose(v) PROVE Calm'
  <2>1. life'[v] = "disposed" /\ \A w \in View : w # v => life'[w] = life[w]
    BY <1>5 DEF Dispose
  <2>2. \A p \in Pages :
          /\ onMount'[p] = IF p = PageOf[v] THEN None ELSE onMount[p]
          /\ onUpdate'[p] = IF p = PageOf[v] THEN None ELSE onUpdate[p]
    BY <1>5 DEF Dispose, DisposeChannel, Covered
  <2>3. root' = root /\ crashed' = crashed
    BY <1>5 DEF Dispose
  <2>4. asked' = asked \ {PageOf[v]} /\ sent' = sent \ {PageOf[v]}
    BY <1>5 DEF Dispose
  <2>5. Silent'
    BY <2>1, <2>2
  <2>6. OwnListeners'
    BY <2>1, <2>2
  <2>7. \A p \in asked' : \E w \in View : life'[w] = "live" /\ PageOf[w] = p
    BY <2>1, <2>4
  <2>8. \A p \in sent' : onUpdate'[p] # None => onUpdate'[p] \in root'
    BY <2>2, <2>3, <2>4
  <2> QED
    BY <1>0, <2>3, <2>5, <2>6, <2>7, <2>8
<1>6. ASSUME NEW p \in Pages, SendTree(p) PROVE Calm'
  <2>1. life' = life /\ onUpdate' = onUpdate /\ asked' = asked
        /\ sent' = sent \cup {p} /\ root \subseteq root'
    BY <1>6 DEF SendTree
  <2>2. \A q \in Pages : onMount'[q] = IF q = p THEN None ELSE onMount[q]
    BY <1>6 DEF SendTree
  <2>3. PICK v \in View : life[v] = "live" /\ PageOf[v] = p
    BY <1>6 DEF SendTree
  <2>4. onUpdate[p] = v /\ (v \notin root => onMount[p] = v)
    BY <2>3 DEF Hears
  <2>5. v \in root'
    BY <1>6, <2>4 DEF SendTree
  <2>6. onMount[p] # None => onMount[p] = v
    BY <2>3
  <2>7. ~crashed'
    BY <1>6, <2>3, <2>6 DEF SendTree, SetState
  <2> QED
    BY <1>0, <2>1, <2>2, <2>4, <2>5, <2>7
<1>7. ASSUME NEW p \in Pages, SendUpdate(p) PROVE Calm'
  BY <1>0, <1>7 DEF SendUpdate
<1>8. CASE UNCHANGED vars
  BY <1>0, <1>8 DEF vars
<1> QED
  BY <1>1, <1>2, <1>3, <1>4, <1>5, <1>6, <1>7, <1>8 DEF Next

\* An orderly app stays calm.
LEMMA StaysCalm == Spec => [](Orderly => Calm)
<1>1. Init => Calm
  BY DEF Init, Calm, Hears, Silent, OwnListeners
<1>2. IInv /\ (Orderly => Calm) /\ [Next]_vars => (Orderly => Calm)'
  BY NextCalm, AppKept DEF IInv, TypeOK
<1> QED
  BY <1>1, <1>2, Inductive, PTL DEF Spec

\* With page names of their own and a script that neither throws nor updates
\* early, no handler of the bridge throws into the native trampoline, in
\* whatever order pages are opened, mounted, updated and closed.
THEOREM NeverCrashes == Spec => []NoCrash
<1>1. (Orderly => Calm) => NoCrash
  BY DEF Calm, NoCrash
<1> QED
  BY <1>1, StaysCalm, PTL

\* Under the same conditions a page that was closed has no listener left in
\* the bridge (Channel.dispose).
THEOREM AlwaysSilent == Spec => []GoneSilent
<1>1. (Orderly => Calm) => GoneSilent
  BY DEF Calm, GoneSilent
<1> QED
  BY <1>1, StaysCalm, PTL

=============================================================================
