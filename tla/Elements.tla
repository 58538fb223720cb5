------------------------------ MODULE Elements ------------------------------
(***************************************************************************)
(* One page's render tree: the SanoElement objects built from the render   *)
(* objects the script sends, the registry of RootElement through which a   *)
(* later update finds its element by id, and the Flutter frames that show  *)
(* the elements.                                                           *)
(*                                                                         *)
(* An element is the pair <<id, n>>: the n-th element created for the id.  *)
(* Registration is deferred (ElementNotifier wraps it in a Future) and     *)
(* deregistration happens when a frame detaches the widget, so the         *)
(* registry, the script's idea of the tree and the screen move apart and   *)
(* have to meet again.                                                     *)
(***************************************************************************)
EXTENDS Integers, Sequences, FiniteSets

CONSTANTS
  Ids,           \* node ids the script may use
  Top,           \* id of the page's outermost node
  Fragments,     \* ids that name a slot fragment of a scaffold
  Parent,        \* the id under which each id is rendered
  Single,        \* ids of scaffolds and containers, which show one child
  MaxElements,   \* elements created per id (bound)
  None,          \* the parent of Top
  ScriptWaits,   \* the script sends: "never" waits, or waits until elements
                 \* are "registered", or until the frame is "painted"
  ReuseIds,      \* a re-rendered child may keep the id it had
  Reshapes,      \* a props update may change the widgets a node is made of
  EmptyLists,    \* a widget of one child may be sent the children []
  ManyForOne,    \* it may be sent several of them
  DistinctMillis \* a frame never falls into the millisecond of an update

NodeIds == Ids \ Fragments
Elem    == Ids \X (1 .. MaxElements)

ASSUME IdAssumption ==
  /\ IsFiniteSet(Ids)
  /\ Top \in NodeIds
  /\ Fragments \subseteq Ids
  /\ None \notin Ids
  /\ Parent \in [Ids -> Ids \cup {None}]
  /\ Parent[Top] = None
  /\ \A i \in Ids \ {Top} : Parent[i] \in Ids
  /\ Single \subseteq NodeIds
  /\ \A f \in Fragments : Parent[f] \in Single
\* No ids are each rendered under another of them: they make a tree.
ASSUME TreeAssumption ==
  \A S \in SUBSET (Ids \ {Top}) : S # {} => \E i \in S : Parent[i] \notin S
ASSUME ElementBound == MaxElements \in Nat \ {0}
ASSUME ScriptAssumption ==
  /\ ScriptWaits \in {"never", "registered", "painted"}
  /\ ReuseIds \in BOOLEAN
  /\ Reshapes \in BOOLEAN
  /\ EmptyLists \in BOOLEAN
  /\ ManyForOne \in BOOLEAN
  /\ DistinctMillis \in BOOLEAN

VARIABLES
  created,    \* number of elements created for each id
  children,   \* the _children (and slot fragments) of each element
  hidden,     \* those that a widget of one child leaves out
  empty,      \* widgets of one child whose _children is [] rather than null
  listeners,  \* RootElement._listeners: which element an id leads to, or 0
  pending,    \* queued registrations, one batch per render object
  alive,      \* the ids in the tree the script last sent
  shown,      \* elements whose builder is attached, and their fragments
  seen,       \* history: elements that were ever shown
  built,      \* the children each shown element was last built with
  dirty,      \* shown elements notified since the last frame
  reshaped,   \* those whose next build replaces the widgets around a child
  stamped,    \* elements whose notifier holds the current millisecond
  current,    \* history: elements that got all the script sent to their id
  painted     \* history: elements last built with all of that

vars == <<created, children, hidden, empty, listeners, pending, alive, shown,
          seen, built, dirty, reshaped, stamped, current, painted>>

(* The type invariant. *)
TypeOK ==
  /\ created \in [Ids -> 0 .. MaxElements]
  /\ children \in [Elem -> SUBSET Elem]
  /\ hidden \subseteq Elem
  /\ empty \subseteq Elem
  /\ listeners \in [Ids -> 0 .. MaxElements]
  /\ pending \in Seq(SUBSET Elem)
  /\ alive \subseteq Ids
  /\ shown \subseteq seen
  /\ seen \subseteq Elem
  /\ built \in [Elem -> SUBSET Elem]
  /\ dirty \subseteq Elem
  /\ reshaped \subseteq dirty
  /\ stamped \subseteq Elem
  /\ current \subseteq Elem
  /\ painted \subseteq current

Init ==
  /\ created = [i \in Ids |-> 0]
  /\ children = [e \in Elem |-> {}]
  /\ hidden = {}
  /\ empty = {}
  /\ listeners = [i \in Ids |-> 0]
  /\ pending = <<>>
  /\ alive = {}
  /\ shown = {}
  /\ seen = {}
  /\ built = [e \in Elem |-> {}]
  /\ dirty = {}
  /\ reshaped = {}
  /\ stamped = {}
  /\ current = {}
  /\ painted = {}

-----------------------------------------------------------------------------
(* Render objects *)

\* The ids from Top down to i: those in every set that holds i and, with each
\* id, its parent.
Line ==
  [i \in Ids |-> {j \in Ids :
     \A S \in SUBSET Ids : i \in S /\ (\A k \in S \ {Top} : Parent[k] \in S) => j \in S}]

\* The ids above i in the tree.
Above == [i \in Ids |-> Line[i] \ {i}]

\* What an update of the children of c replaces.  The slots of a scaffold are
\* not among its children: only their own fragment updates them.
Replaced(c) ==
  {i \in Ids : /\ c \in Above[i]
               /\ \A f \in Fragments : Parent[f] = c => f # i /\ f \notin Above[i]}

\* The children of p in a render object of the ids S.
List(S, p) == {i \in S \ Fragments : Parent[i] = p}

\* The ids S make a well formed render object below c: each comes with its
\* parent.  H are the children that are not shown: a widget of one child takes
\* the last of its list, and a slot the first.  V are the widgets of one child
\* that come with [] for their list, not without one; an update always has a
\* list, and that of a slot is not empty.
RenderObject(c, S, H, V) ==
  /\ \A i \in S : Parent[i] = c \/ Parent[i] \in S
  /\ \A p \in S \cup {c} :
       IF p \in Single \cup Fragments /\ List(S, p) # {}
         THEN \E i \in List(S, p) : List(S, p) \ H = {i}
         ELSE List(S, p) \cap H = {}
  /\ V \subseteq {p \in (S \cup {c}) \cap Single : List(S, p) = {}}
  /\ \A i \in S : created[i] < (IF ReuseIds THEN MaxElements ELSE 1)

\* The choices of H and V among the ids S.
Hidden(S) == IF ManyForOne THEN SUBSET (S \ Fragments) ELSE {{}}
Empties   == IF EmptyLists THEN SUBSET Single ELSE {{}}

\* createNodeElement for the ids S below the element e.
NewElem(i) == <<i, created[i] + 1>>
NewElems(S) == {NewElem(i) : i \in S}

\* Mutant of CreateElements: the new elements never register.
CreateSilently(e, S, H, V) ==
  /\ created' = [i \in Ids |-> IF i \in S THEN created[i] + 1 ELSE created[i]]
  /\ children' = [d \in Elem |->
       IF d \in {e} \cup NewElems(S)
         THEN {NewElem(i) : i \in {j \in S : Parent[j] = d[1]}}
         ELSE children[d]]
  /\ hidden' = hidden \cup NewElems(H)
  /\ empty' = (empty \ {e}) \cup NewElems(V \cap S) \cup (IF e[1] \in V THEN {e} ELSE {})
  /\ UNCHANGED pending

CreateElements(e, S, H, V) ==
  /\ created' = [i \in Ids |-> IF i \in S THEN created[i] + 1 ELSE created[i]]
  /\ children' = [d \in Elem |->
       CASE d = e -> {NewElem(i) : i \in {j \in S : Parent[j] = e[1]}}
                     \cup {f \in children[e] : f[1] \in Fragments /\ e[1] \notin Fragments}
         [] d \in NewElems(S) -> {NewElem(i) : i \in {j \in S : Parent[j] = d[1]}}
         [] OTHER -> children[d]]
  /\ hidden' = hidden \cup NewElems(H)
  /\ empty' = (empty \ {e}) \cup NewElems(V \cap S) \cup (IF e[1] \in V THEN {e} ELSE {})
  /\ pending' = IF S = {} THEN pending ELSE Append(pending, NewElems(S))

\* Elements of the ids S.
Of(S) == {e \in Elem : e[1] \in S}

\* _notifier.value = now: the builder attached to e, if any, is notified
\* unless the value did not change.
Heard(e) == e \in shown \ stamped /\ e[1] \in NodeIds

Notify(e, reshapes) ==
  /\ dirty' = IF Heard(e) THEN dirty \cup {e} ELSE dirty
  /\ reshaped' = IF Heard(e) /\ reshapes THEN reshaped \cup {e} ELSE reshaped
  /\ stamped' = stamped \cup {e}

-----------------------------------------------------------------------------
(* Flutter *)

FrameDue == alive # {} /\ (shown = {} \/ dirty # {})

Settled == alive # {} /\ pending = <<>> /\ ~FrameDue

\* Whether e builds its children anew in the next frame: a fragment is built
\* by the scaffold it belongs to.
Rebuilds(e) ==
  \/ e \notin shown
  \/ e \in dirty
  \/ e[1] \in Fragments /\ \E p \in dirty : e \in children[p]

\* What a build of e shows: children?.last of [] throws, and Flutter puts an
\* error in the place of the whole widget, its slots included.
Shows(e) == IF e \in empty THEN {} ELSE children[e] \ hidden

NextBuilt(e) == IF Rebuilds(e) THEN Shows(e) ELSE built[e]

\* The elements the next frame shows: there is an element for each id from Top
\* down to theirs, each built with the next.
NextShown ==
  {e \in Elem : \E n \in [Line[e[1]] -> 1 .. MaxElements] :
     /\ n[Top] = 1 /\ n[e[1]] = e[2]
     /\ \A i \in Line[e[1]] \ {Top} : <<i, n[i]>> \in NextBuilt(<<Parent[i], n[Parent[i]]>>)}

\* Builders disposed of, or moved to another notifier, by the next frame: of
\* elements that disappear, replaced or below a build that throws, and of
\* elements below a node whose own widgets change shape (their state is thrown
\* away and created again).  Nothing listens to the notifier of a fragment.
Detached(next) ==
  {e \in shown : /\ e[1] \in NodeIds
                 /\ \/ e \notin next
                    \/ \E r \in reshaped : r[1] \in Above[e[1]]}

\* Mutant of Off: nothing is removed.
OffNothing(es) == listeners

\* ElementNotifier.removeListener: root.off(id), whoever is registered there.
Off(es) == [i \in Ids |-> IF \E e \in es : e[1] = i THEN 0 ELSE listeners[i]]

DrawFrame ==
  /\ FrameDue
  /\ DistinctMillis => stamped = {}
  /\ LET next == NextShown IN
       /\ shown' = next
       /\ seen' = seen \cup next
       /\ built' = [e \in Elem |-> IF e \in next THEN NextBuilt(e) ELSE {}]
       /\ listeners' = Off(Detached(next))
       /\ painted' = {e \in (next \cap current) \ empty : Rebuilds(e) \/ e \in painted}
  /\ dirty' = {}
  /\ reshaped' = {}
  /\ UNCHANGED <<created, children, hidden, empty, pending, alive, stamped,
                 current>>

\* The clock moves on to another millisecond.
Tick ==
  /\ stamped # {}
  /\ stamped' = {}
  /\ UNCHANGED <<created, children, hidden, empty, listeners, pending, alive,
                 shown, seen, built, dirty, reshaped, current, painted>>

\* Mutant of Register: the newest batch goes first.
RegisterLast(e) ==
  /\ pending # <<>>
  /\ e \in pending[Len(pending)]
  /\ listeners' = [listeners EXCEPT ![e[1]] = e[2]]
  /\ pending' = IF pending[Len(pending)] = {e}
                  THEN SubSeq(pending, 1, Len(pending) - 1)
                  ELSE [pending EXCEPT ![Len(pending)] = @ \ {e}]
  /\ UNCHANGED <<created, children, hidden, empty, alive, shown, seen, built,
                 dirty, reshaped, stamped, current, painted>>

\* The Future of ElementNotifier: root.on(id, element.update).
Register(e) ==
  /\ pending # <<>>
  /\ e \in Head(pending)
  /\ listeners' = [listeners EXCEPT ![e[1]] = e[2]]
  /\ pending' = IF Head(pending) = {e}
                  THEN Tail(pending)
                  ELSE [pending EXCEPT ![1] = @ \ {e}]
  /\ UNCHANGED <<created, children, hidden, empty, alive, shown, seen, built,
                 dirty, reshaped, stamped, current, painted>>

-----------------------------------------------------------------------------
(* Messages of the script *)

\* _mount: the root is created around the first render object, once.
Mount(S, H, V) ==
  /\ created[Top] = 0
  /\ RenderObject(Top, S, H, V)
  /\ LET T == S \cup {Top} IN
       /\ created' = [i \in Ids |-> IF i \in T THEN 1 ELSE 0]
       /\ children' = [d \in Elem |->
            IF d \in NewElems(T) THEN {NewElem(i) : i \in {j \in T : Parent[j] = d[1]}}
                                 ELSE {}]
       /\ hidden' = NewElems(H)
       /\ empty' = NewElems(V)
       /\ pending' = <<NewElems(T)>>
       /\ alive' = T
       /\ current' = NewElems(T)
  /\ UNCHANGED <<listeners, shown, seen, built, dirty, reshaped, stamped,
                 painted>>

ScriptReady ==
  /\ ScriptWaits = "registered" => pending = <<>>
  /\ ScriptWaits = "painted" => pending = <<>> /\ ~FrameDue

\* emit finds nobody registered for id: the update is dropped.
Drop(id) ==
  /\ listeners[id] = 0
  /\ current' = current \ Of({id})
  /\ painted' = painted \ Of({id})
  /\ UNCHANGED <<created, children, hidden, empty, listeners, pending, shown,
                 seen, built, dirty, reshaped, stamped>>

\* An update of the props of a node.
UpdateProps(id, reshapes) ==
  /\ ScriptReady
  /\ id \in alive \cap NodeIds
  /\ reshapes => Reshapes
  /\ \/ Drop(id)
     \/ LET e == <<id, listeners[id]>> IN
          /\ listeners[id] # 0
          /\ Notify(e, reshapes)
          /\ current' = current \ (Of({id}) \ {e})
          /\ painted' = painted \ Of({id})
          /\ UNCHANGED <<created, children, hidden, empty, listeners, pending,
                         shown, seen, built>>
  /\ UNCHANGED alive

\* Mutant of Owner: a fragment notifies itself.
OwnerSelf(e) == e

\* The element whose notifier an update of e's children sets: a fragment
\* notifies its scaffold.
Owner(e) == IF e[1] \in Fragments THEN CHOOSE p \in Elem : e \in children[p] ELSE e

\* An update of the children of a node, or of the content of a fragment.
UpdateChildren(id, S, H, V) ==
  /\ ScriptReady
  /\ id \in alive
  /\ RenderObject(id, S, H, V)
  /\ id \in Fragments => List(S, id) # {}
  /\ id \in Single /\ List(S, id) = {} => id \in V
  /\ alive' = (alive \ Replaced(id)) \cup S
  /\ \/ Drop(id)
     \/ LET e == <<id, listeners[id]>> IN
          /\ listeners[id] # 0
          /\ CreateElements(e, S, H, V)
          /\ Notify(Owner(e), FALSE)
          /\ current' = (current \ (Of(S \cup {id}) \ {e})) \cup NewElems(S)
          /\ painted' = painted \ Of(S \cup {id})
          /\ UNCHANGED <<listeners, shown, seen, built>>

-----------------------------------------------------------------------------

RunFuture == \E e \in Elem : Register(e)

Send ==
  \/ \E id \in Ids, reshapes \in BOOLEAN : UpdateProps(id, reshapes)
  \/ \E id \in Ids : \E S \in SUBSET Replaced(id) :
       \E H \in Hidden(S), V \in Empties : UpdateChildren(id, S, H, V)

Next ==
  \/ \E S \in SUBSET (Ids \ {Top}) :
       \E H \in Hidden(S), V \in Empties : Mount(S, H, V)
  \/ Send
  \/ RunFuture
  \/ DrawFrame
  \/ Tick

Spec == Init /\ [][Next]_vars

(***************************************************************************)
(* Fairness: the event loop runs a queued Future, the clock advances and   *)
(* Flutter draws a frame that was requested.  The script owes nothing.     *)
(* A frame waits for the clock only under DistinctMillis, and updates may  *)
(* keep falling in between: strong fairness, a vsync is never starved.     *)
(***************************************************************************)
FairSpec ==
  /\ Spec
  /\ WF_vars(RunFuture)
  /\ WF_vars(Tick)
  /\ SF_vars(DrawFrame)

-----------------------------------------------------------------------------
(* Properties *)

\* Once the queued registrations have run and the frame is drawn, every
\* element on the screen is the one RootElement.emit finds for its id: the
\* deferred on(id) of new elements and the off(id) of the ones they replace
\* never leave a visible element unreachable.
ShownRegistered ==
  Settled => \A e \in shown : listeners[e[1]] = e[2]

\* The screen catches up with the script: it shows exactly the nodes of the
\* tree the script last sent, each built with every update sent to it.
ScreenMatches ==
  Settled => /\ {e[1] : e \in shown} = alive
             /\ shown \subseteq painted

\* removeListener takes every node out of the registry that left the screen:
\* RootElement keeps no element alive that was shown and is not any more.
NoOrphans ==
  Settled => \A e \in seen \ shown : e[1] \in NodeIds => listeners[e[1]] # e[2]

\* Updates never go back to an older element: whatever the script sends and
\* however frames and futures interleave, a queued registration is for an
\* element younger than the one that RootElement has for the id.
NeverOlder ==
  \A k \in DOMAIN pending : \A e \in pending[k] : listeners[e[1]] < e[2]

\* Updates that a visible element has not shown yet are painted.
EventuallyPainted == ~(shown \subseteq painted) ~> shown \subseteq painted

=============================================================================
