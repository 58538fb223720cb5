------------------------------- MODULE Views --------------------------------
(***************************************************************************)
(* Pages and the bridge: the listeners the script calls by name, the       *)
(* Channel of each SanoView that prefixes them, the Navigate plugin that   *)
(* opens pages, and the life of a SanoView from initState to dispose.      *)
(*                                                                         *)
(* Bridge.invoke runs the script synchronously.  What the script does in   *)
(* return (sending the tree, for one) may happen inside that call or any   *)
(* time later; the model lets it happen any time later.                    *)
(***************************************************************************)
EXTENDS Integers

CONSTANTS
  View,        \* the SanoView states a run may create (bound)
  Pages,       \* page ids
  Navigation,  \* the channel of the Navigate plugin
  None,        \* no listener
  Apps         \* what apps and their scripts do, see PageAssumption

Channels == Pages \cup {Navigation}

\* An app has a page for each view.  covers has <<p, q>>, p # q, when the names
\* of q's listeners start with the name of p's channel; the script may throw
\* when it is invoked (faults); a page may be opened, by the script or by the
\* app, before the script called __initialize__ (eager); the script updates a
\* page only after it sent its tree (polite).
ASSUME PageAssumption ==
  /\ Navigation \notin Pages
  /\ None \notin View
  /\ Apps \subseteq [pageOf : [View -> Pages], covers : SUBSET (Pages \X Channels),
                     faults : BOOLEAN, eager : BOOLEAN, polite : BOOLEAN]

VARIABLES
  channel,   \* Bridge.channel is set: the script has called __initialize__
  onMount,   \* listeners: who answers the page's "mount", or None
  onUpdate,  \* listeners: who answers the page's "update", or None
  onPush,    \* listeners: "push" of the Navigate plugin is registered
  life,      \* what became of each view
  root,      \* views that have their RootElement
  asked,     \* the script was asked to mount these pages
  sent,      \* the script has sent the tree of these pages
  crashed,   \* a handler threw: the native trampoline got a null pointer
  app        \* the app that is running

vars == <<channel, onMount, onUpdate, onPush, life, root, asked, sent, crashed, app>>

PageOf    == app.pageOf
Covers    == app.covers
Faults    == app.faults
Eager     == app.eager
Polite    == app.polite

Life == {"none", "routed", "lost", "live", "broken", "disposed", "undisposed"}

(* The type invariant. *)
TypeOK ==
  /\ channel \in BOOLEAN
  /\ onMount \in [Pages -> View \cup {None}]
  /\ onUpdate \in [Pages -> View \cup {None}]
  /\ onPush \in BOOLEAN
  /\ life \in [View -> Life]
  /\ root \subseteq View
  /\ asked \subseteq Pages
  /\ sent \subseteq asked
  /\ crashed \in BOOLEAN
  /\ app \in Apps

\* initInstance has loaded the plugins: Navigate listens, the script has yet
\* to run.
Init ==
  /\ channel = FALSE
  /\ onMount = [p \in Pages |-> None]
  /\ onUpdate = [p \in Pages |-> None]
  /\ onPush = TRUE
  /\ life = [v \in View |-> "none"]
  /\ root = {}
  /\ asked = {}
  /\ sent = {}
  /\ crashed = FALSE
  /\ app \in Apps

bridgeVars == <<channel, onMount, onUpdate, onPush>>
scriptVars == <<asked, sent>>

-----------------------------------------------------------------------------
(* The script calls the bridge *)

\* __bridge__('__initialize__', ..., channel)
Initialize ==
  /\ ~crashed
  /\ channel' = TRUE
  /\ UNCHANGED <<onMount, onUpdate, onPush, life, root, scriptVars, crashed>>

\* navigate:push.  Without a listener the bridge ignores the call; it does not
\* ask whether the script called __initialize__ before.
Push(v) ==
  /\ ~crashed
  /\ Eager \/ channel
  /\ life[v] = "none"
  /\ life' = [life EXCEPT ![v] = IF onPush THEN "routed" ELSE "lost"]
  /\ UNCHANGED <<bridgeVars, root, scriptVars, crashed>>

\* Whether setState throws: it does after dispose, and after a dispose that
\* was cut short in builds that check assertions.
SetState(l) ==
  CASE l = "disposed" -> {TRUE}
    [] l = "undisposed" -> BOOLEAN
    [] OTHER -> {FALSE}

\* Mutants of SendTree: the listener stays registered, and the root is not
\* kept.
SendTreeOn(p) ==
  /\ ~crashed
  /\ p \in asked \ sent
  /\ sent' = sent \cup {p}
  /\ root' = IF onMount[p] = None THEN root ELSE root \cup {onMount[p]}
  /\ UNCHANGED <<bridgeVars, life, asked, crashed>>

SendTreeRootless(p) ==
  /\ ~crashed
  /\ p \in asked \ sent
  /\ sent' = sent \cup {p}
  /\ onMount' = [onMount EXCEPT ![p] = None]
  /\ UNCHANGED <<channel, onUpdate, onPush, life, root, asked, crashed>>

\* The script sends the tree of a page it was asked to mount.  The listener
\* was added with once: it is removed before the handler runs, and the
\* handler creates the root and calls setState.
SendTree(p) ==
  /\ ~crashed
  /\ p \in asked \ sent
  /\ sent' = sent \cup {p}
  /\ onMount' = [onMount EXCEPT ![p] = None]
  /\ \/ /\ onMount[p] = None
        /\ UNCHANGED <<root, crashed>>
     \/ /\ onMount[p] # None
        /\ root' = root \cup {onMount[p]}
        /\ crashed' \in SetState(life[onMount[p]])
  /\ UNCHANGED <<channel, onUpdate, onPush, life, asked>>

\* The script sends an update of a page; the handler dereferences the root.
SendUpdate(p) ==
  /\ ~crashed
  /\ p \in (IF Polite THEN sent ELSE asked)
  /\ crashed' = (onUpdate[p] # None /\ onUpdate[p] \notin root)
  /\ UNCHANGED <<bridgeVars, life, root, scriptVars>>

-----------------------------------------------------------------------------
(* The life of a SanoView *)

\* The app pushes a page itself.
Open(v) ==
  /\ ~crashed
  /\ Eager
  /\ life[v] = "none"
  /\ life' = [life EXCEPT ![v] = "routed"]
  /\ UNCHANGED <<bridgeVars, root, scriptVars, crashed>>

\* Mutant of InitState: nobody asks the script for the tree.
InitStateNoAsk(v) ==
  /\ ~crashed
  /\ life[v] = "routed"
  /\ onMount' = [onMount EXCEPT ![PageOf[v]] = v]
  /\ onUpdate' = [onUpdate EXCEPT ![PageOf[v]] = v]
  /\ life' = [life EXCEPT ![v] = "live"]
  /\ UNCHANGED <<channel, onPush, root, scriptVars, crashed>>

\* initState: register mount and update, then invoke('mount').  The channel
\* function may be unset and the script may throw: initState throws, and
\* Flutter shows an error in place of a state it will never dispose of.
InitState(v) ==
  LET p == PageOf[v] IN
  /\ ~crashed
  /\ life[v] = "routed"
  /\ onMount' = [onMount EXCEPT ![p] = v]
  /\ onUpdate' = [onUpdate EXCEPT ![p] = v]
  /\ \/ /\ channel
        /\ life' = [life EXCEPT ![v] = "live"]
        /\ asked' = asked \cup {p}
        /\ sent' = sent \ {p}
     \/ /\ ~channel \/ Faults
        /\ life' = [life EXCEPT ![v] = "broken"]
        /\ UNCHANGED scriptVars
  /\ UNCHANGED <<channel, onPush, root, crashed>>

\* Mutant of Covered: every channel is taken for the one disposed of.
CoveredAll(p) == Channels

\* Mutant of Covered: the name is compared for equality with a listener's.
CoveredNone(p) == {}

\* The channels whose listeners dispose takes out of the bridge.
Covered(p) == {p} \cup {q \in Channels : <<p, q>> \in Covers}

\* Channel.dispose: every listener whose name starts with the channel's name.
DisposeChannel(p) ==
  /\ onMount' = [q \in Pages |-> IF q \in Covered(p) THEN None ELSE onMount[q]]
  /\ onUpdate' = [q \in Pages |-> IF q \in Covered(p) THEN None ELSE onUpdate[q]]
  /\ onPush' = (onPush /\ Navigation \notin Covered(p))

\* dispose: invoke('unmount'), then the channel.  When the script throws, the
\* rest is skipped.
Dispose(v) ==
  LET p == PageOf[v] IN
  /\ ~crashed
  /\ life[v] = "live"
  /\ \/ /\ life' = [life EXCEPT ![v] = "disposed"]
        /\ DisposeChannel(p)
        /\ asked' = asked \ {p}
        /\ sent' = sent \ {p}
     \/ /\ Faults
        /\ life' = [life EXCEPT ![v] = "undisposed"]
        /\ UNCHANGED <<onMount, onUpdate, onPush, scriptVars>>
  /\ UNCHANGED <<channel, root, crashed>>

-----------------------------------------------------------------------------

Next ==
  /\ \/ Initialize
     \/ \E v \in View : Push(v) \/ Open(v) \/ InitState(v) \/ Dispose(v)
     \/ \E p \in Pages : SendTree(p) \/ SendUpdate(p)
  /\ UNCHANGED app

Spec == Init /\ [][Next]_vars

\* The script answers a mount, and Flutter builds a page that was pushed.
FairSpec ==
  /\ Spec
  /\ \A p \in Pages : WF_vars(SendTree(p) /\ UNCHANGED app)
  /\ \A v \in View : WF_vars(InitState(v) /\ UNCHANGED app)

-----------------------------------------------------------------------------
(* Properties *)

\* No two views show the same page, and no page's channel covers another.
OwnNames ==
  /\ \A v, w \in View : PageOf[v] = PageOf[w] => v = w
  /\ Covers = {}

\* Besides, the script neither throws nor updates a page before its tree.
Orderly == OwnNames /\ ~Faults /\ Polite

\* The listeners of the views on the navigator's stack are in place.
Hears ==
  \A v \in View : life[v] = "live" =>
    /\ onUpdate[PageOf[v]] = v
    /\ v \notin root => onMount[PageOf[v]] = v

\* A view that is on the navigator's stack answers for its page: no other
\* view's dispose has taken its listeners away, and it waits for the tree as
\* long as it has none.  Channel.dispose goes by name, so that names must be
\* distinct.
LiveHears == OwnNames => Hears

\* No listener of a view that was disposed of is left.
Silent ==
  \A v \in View, p \in Pages :
    life[v] \in {"disposed", "undisposed"} => onMount[p] # v /\ onUpdate[p] # v

\* With an orderly app a view that was disposed of answers for nothing any
\* more (Channel.dispose).
GoneSilent == Orderly => Silent

\* With an orderly app no order of pushing, mounting, updating and disposing
\* makes a handler throw into the native trampoline.
NoCrash == Orderly => ~crashed

\* A view is mounted at most once: whoever still waits for a tree has none,
\* however often its page is opened, replaced and updated.
MountsOnce ==
  \A v \in View, p \in Pages : onMount[p] = v => v \notin root

\* With an orderly app a page that was pushed after __initialize__
\* (navigate:push, initState, mount) gets its tree, unless it is closed
\* before.
PagesMount ==
  \A v \in View :
    life[v] = "routed" /\ Orderly /\ ~Eager ~> v \in root \/ life[v] = "disposed"

=============================================================================
