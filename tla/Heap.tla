-------------------------------- MODULE Heap --------------------------------
(***************************************************************************)
(* The engine's heap: reference counts, the list of objects whose count    *)
(* has dropped to zero, weak maps, and the collector of cycles.  The host  *)
(* (the JSObject wrappers of the Dart side) and the script's own frames    *)
(* hold references to objects; everything else is reached through them.    *)
(*                                                                         *)
(* The engine is single threaded, and freeing and collecting are loops     *)
(* over linked lists that the loops themselves change, with a loop over    *)
(* what a cell refers to inside.  Every turn of the inner loop and every   *)
(* turn of the outer one is a step; script and host run only when no loop  *)
(* is under way.                                                           *)
(***************************************************************************)
EXTENDS Integers, Sequences, FiniteSets, SequencesExt

CONSTANTS
  MaxCells,  \* bound: objects and captured variables at a time
  MaxSlots,  \* bound: properties of an object
  MaxHost,   \* bound: references the host holds to one object
  MaxWeak,   \* bound: records of weak maps
  None       \* no cell

Cells == 1 .. MaxCells
Slots == 1 .. MaxSlots

ASSUME HeapAssumption ==
  {MaxCells, MaxSlots, MaxHost, MaxWeak} \subseteq Nat /\ None \notin Cells

VARIABLES
  heap,   \* the cells, what they refer to, and the lists that link them
  phase,  \* what the engine is doing: "run", or which loop
  loop,   \* the cell of that loop's turn, the link read ahead, what is left to mark
  host,   \* how many references to each object the host holds
  reached \* history: what the host could reach when the collector started

vars == <<heap, phase, loop, host, reached>>

Unused == [kind |-> "unused", refs |-> 0, mark |-> 0]
Idle   == [cell |-> None, link |-> None, todo |-> {}]

\* References between cells: slot s of x holds y (a captured variable has one
\* slot); a JSMapRecord of the weak map m leads from key k to y.
Prop(x, s, y)   == [weak |-> FALSE, from |-> x, at |-> s, to |-> y]
Record(m, k, y) == [weak |-> TRUE, from |-> m, at |-> k, to |-> y]

Init ==
  /\ heap = [cell  |-> [x \in Cells |-> Unused],
             links |-> {},
             objs  |-> <<>>,    \* gc_obj_list
             tmp   |-> <<>>,    \* tmp_obj_list
             zero  |-> <<>>,    \* gc_zero_ref_count_list
             bad   |-> FALSE]   \* something touched a cell that was freed
  /\ phase = "run"
  /\ loop = Idle
  /\ host = [x \in Cells |-> 0]
  /\ reached = {}

-----------------------------------------------------------------------------
(* Reference counts *)

Used(h, x) == h.cell[x].kind # "unused"
Refs(h, x) == h.cell[x].refs
Free(h, x) == [h EXCEPT !.cell[x] = Unused]

\* list_del
Without(l, x) == IF x \in Range(l) THEN RemoveAt(l, CHOOSE i \in DOMAIN l : l[i] = x) ELSE l

\* x is in one of the lists at most.
Unlink(h, x) ==
  [h EXCEPT !.objs = Without(@, x), !.tmp = Without(@, x), !.zero = Without(@, x)]

Incref(h, x) == [h EXCEPT !.cell[x].refs = @ + 1, !.bad = @ \/ ~Used(h, x)]
Decref(h, x) == [h EXCEPT !.cell[x].refs = @ - 1, !.bad = @ \/ Refs(h, x) <= 0]

JS_DupValue(h, x) == IF x = None THEN h ELSE Incref(h, x)

\* JS_FreeValueRT on an object: at zero it waits to be freed, unless cycles
\* are being removed: then it is in the list of those anyway.
JS_FreeValueRT(h, x) ==
  LET d == Decref(h, x)
  IN  IF Refs(d, x) <= 0 /\ phase # "remove"
      THEN [Unlink(d, x) EXCEPT !.zero = <<x>> \o @]
      ELSE d

\* What mark_children walks: properties, the value of a captured variable,
\* and the values of a weak map, but not its keys.
Children(h, x) == {l \in h.links : l.from = x}

Cut(h, l) == [h EXCEPT !.links = @ \ {l}]

\* A captured variable goes at once, with what it holds.
free_var_ref(h, x) ==
  LET d == Decref(h, x)
      v == CHOOSE l \in h.links : l.from = x
  IN  IF Refs(d, x) = 0
      THEN Free(Unlink(JS_FreeValueRT(Cut(d, v), v.to), x), x)
      ELSE d

\* free_property: by the kind of what the property held.
free_property(h, x) ==
  IF h.cell[x].kind = "var" THEN free_var_ref(h, x) ELSE JS_FreeValueRT(h, x)

\* Mutant: a freed key leaves its records in the maps.
ForgetWeakRefs(h, x) == {}

\* first_weak_ref: the records of key x.
WeakRefs(h, x) == {l \in h.links : l.weak /\ l.at = x}

\* The record of a key goes from its map, then the value it held.
reset_weak_ref(h, l) ==
  JS_FreeValueRT([Cut(h, l) EXCEPT !.bad = @ \/ ~Used(h, l.from)], l.to)

\* A weak map takes its record out of the list the key keeps.
js_map_finalizer(h, l) ==
  JS_FreeValueRT([Cut(h, l) EXCEPT !.bad = @ \/ ~Used(h, l.at)], l.to)

\* A step of free_object: the object lets go of its properties, then of the
\* records it is the key of, then of its own records (the order within each is
\* the list's, here any) ...
LetGo(x) ==
  LET props == {l \in Children(heap, x) : ~l.weak}
      keyed == WeakRefs(heap, x)
      own   == {l \in Children(heap, x) : l.weak}
  IN  \/ \E l \in props : heap' = free_property(Cut(heap, l), l.to)
      \/ props = {} /\ \E l \in keyed : heap' = reset_weak_ref(heap, l)
      \/ props = {} /\ keyed = {} /\ \E l \in own : heap' = js_map_finalizer(heap, l)

HoldsNothing(x) == Children(heap, x) = {} /\ WeakRefs(heap, x) = {}

\* ... and at last its memory goes.  While cycles are removed it stays as long
\* as others that are to be removed still refer to the object.
free_object(h, x) ==
  IF phase = "remove" /\ Refs(h, x) # 0
  THEN [Unlink(h, x) EXCEPT !.zero = Append(@, x), !.cell[x].kind = "zombie"]
  ELSE Free(Unlink(h, x), x)

-----------------------------------------------------------------------------
(* What scripts and the host do *)

\* js_malloc
Fresh == CHOOSE x \in Cells : ~Used(heap, x)

Holds(x) == host[x] > 0

\* add_gc_object
add_gc_object(h, x, kind) ==
  [h EXCEPT !.cell[x] = [kind |-> kind, refs |-> 1, mark |-> 0], !.objs = Append(@, x)]

First(l) == IF l = <<>> THEN None ELSE Head(l)

\* The state after a call that may have freed something: free_zero_refcount
\* starts, or goes on, with the first object whose count dropped to zero.
Becomes(h) ==
  /\ heap' = h
  /\ phase' = IF h.zero = <<>> THEN "run" ELSE "free"
  /\ loop' = [Idle EXCEPT !.cell = First(h.zero)]
  /\ UNCHANGED reached

JS_NewObject ==
  /\ phase = "run"
  /\ \E x \in Cells : ~Used(heap, x)
  /\ heap' = add_gc_object(heap, Fresh, "object")
  /\ host' = [host EXCEPT ![Fresh] = 1]
  /\ UNCHANGED <<phase, loop, reached>>

\* JSObject.free, once its future runs.
Release(x) ==
  /\ phase = "run"
  /\ Holds(x)
  /\ Becomes(JS_FreeValueRT(heap, x))
  /\ host' = [host EXCEPT ![x] = @ - 1]

\* getProperty of what the link l leads to
GetProperty(l) ==
  /\ phase = "run"
  /\ ~l.weak /\ Holds(l.from)
  /\ heap.cell[l.to].kind = "object" /\ host[l.to] < MaxHost
  /\ heap' = JS_DupValue(heap, l.to)
  /\ host' = [host EXCEPT ![l.to] = @ + 1]
  /\ UNCHANGED <<phase, loop, reached>>

Slot(h, x, s) == {l \in h.links : ~l.weak /\ l.from = x /\ l.at = s}

\* set_value: the new value is in place before the old one is freed.
SetSlot(h, x, s, y) ==
  LET old == Slot(h, x, s)
      d == [h EXCEPT !.links = (@ \ old) \cup (IF y = None THEN {} ELSE {Prop(x, s, y)})]
  IN  IF old = {} THEN d ELSE free_property(d, (CHOOSE l \in old : TRUE).to)

\* setProperty takes a reference of its own; setPropertyStr and the set of an
\* array keep the one the host had.
SetProperty(x, s, y, keeps) ==
  /\ phase = "run"
  /\ Holds(x)
  /\ y # None => Holds(y)
  /\ keeps => y # None
  /\ Becomes(SetSlot(IF keeps THEN heap ELSE JS_DupValue(heap, y), x, s, y))
  /\ host' = IF keeps THEN [host EXCEPT ![y] = @ - 1] ELSE host

\* A frame ends, and close_var_refs detaches a variable that holds y and that
\* the closure x captured.  As long as the frame ran, the variable was in its
\* own list and the collector did not know of it.
Capture(x, s, y) ==
  /\ phase = "run"
  /\ Holds(x) /\ Holds(y)
  /\ Slot(heap, x, s) = {}
  /\ \E v \in Cells : ~Used(heap, v)
  /\ heap' = [add_gc_object(JS_DupValue(heap, y), Fresh, "var")
                EXCEPT !.links = @ \cup {Prop(Fresh, 1, y), Prop(x, s, Fresh)}]
  /\ UNCHANGED <<phase, loop, host, reached>>

\* js_closure2: another closure, z, captures the detached variable l leads to.
Share(l, z, t) ==
  /\ phase = "run"
  /\ ~l.weak /\ Holds(l.from) /\ Holds(z)
  /\ heap.cell[l.to].kind = "var"
  /\ Slot(heap, z, t) = {}
  /\ heap' = [JS_DupValue(heap, l.to) EXCEPT !.links = @ \cup {Prop(z, t, l.to)}]
  /\ UNCHANGED <<phase, loop, host, reached>>

\* js_map_set on weak map m: the value that was there goes before the new one
\* is stored.
WeakSet(m, k, y) ==
  LET old == {l \in WeakRefs(heap, k) : l.from = m}
      l == CHOOSE r \in old : TRUE
      h == IF old = {} THEN heap ELSE JS_FreeValueRT(Cut(heap, l), l.to)
  IN  /\ phase = "run"
      /\ Holds(m) /\ Holds(k) /\ Holds(y)
      /\ Cardinality({r \in heap.links : r.weak} \ old) < MaxWeak
      /\ Becomes([JS_DupValue(h, y) EXCEPT !.links = @ \cup {Record(m, k, y)}])
      /\ UNCHANGED host

\* js_map_delete of record l.
WeakDelete(l) ==
  /\ phase = "run"
  /\ l.weak /\ Holds(l.from) /\ Holds(l.at)
  /\ Becomes(JS_FreeValueRT(Cut(heap, l), l.to))
  /\ UNCHANGED host

-----------------------------------------------------------------------------
(* free_zero_refcount *)

FreeNext ==
  /\ phase = "free"
  /\ \/ LetGo(loop.cell) /\ UNCHANGED <<phase, loop, reached>>
     \/ HoldsNothing(loop.cell) /\ Becomes(free_object(heap, loop.cell))
  /\ UNCHANGED host

-----------------------------------------------------------------------------
(* JS_RunGC *)

\* The element after x in list l.
After(l, x) ==
  LET i == CHOOSE j \in DOMAIN l : l[j] = x
  IN  IF i = Len(l) THEN None ELSE l[i + 1]

\* The turn of cell c in a loop over list l; None: the loop is over.
\* list_for_each_safe reads the link ahead, list_for_each when the turn is done.
Turn(h, l, c) ==
  IF c = None THEN Idle ELSE [cell |-> c, link |-> After(l, c), todo |-> Children(h, c)]

ToTmp(h, x)  == [Unlink(h, x) EXCEPT !.tmp = Append(@, x)]
ToObjs(h, x) == [Unlink(h, x) EXCEPT !.objs = Append(@, x), !.cell[x].mark = 0]

gc_decref_child(h, y) ==
  LET d == Decref(h, y)
  IN  IF Refs(d, y) = 0 /\ d.cell[y].mark = 1 THEN ToTmp(d, y) ELSE d

\* Mutant: only a count of zero is incremented.
IncrefZeroOnly(h, y) ==
  IF Refs(h, y) = 0 THEN ToObjs([h EXCEPT !.cell[y].refs = 1], y) ELSE h

gc_scan_incref_child(h, y) ==
  LET d == Incref(h, y)
  IN  IF Refs(d, y) = 1 THEN ToObjs(d, y) ELSE d

\* What the host can reach: the least set that holds what the host holds and
\* whatever its members lead to.
Closed(S) == \A l \in heap.links : l.from \in S => l.to \in S

Reachable ==
  {x \in Cells : \A S \in SUBSET Cells :
     {y \in Cells : Holds(y)} \subseteq S /\ Closed(S) => x \in S}

\* An allocation finds the heap above malloc_gc_threshold.
StartGC ==
  /\ phase = "run"
  /\ heap.objs # <<>>
  /\ phase' = "decref"
  /\ loop' = Turn(heap, heap.objs, First(heap.objs))
  /\ reached' = Reachable
  /\ UNCHANGED <<heap, host>>

\* mark_children in the turn of loop.cell: one child after the other.
MarkChild(p, l, h) ==
  /\ phase = p
  /\ heap' = h
  /\ loop' = [loop EXCEPT !.todo = @ \ {l}]
  /\ UNCHANGED <<phase, host, reached>>

\* The turn of loop.cell is over: the children are marked.
EndTurn(p, h, l, c) ==
  /\ phase = p
  /\ loop.cell # None /\ loop.todo = {}
  /\ heap' = h
  /\ loop' = Turn(h, l, c)
  /\ UNCHANGED <<phase, host, reached>>

\* Mutant: only a decrement moves a cell, never its own turn.
DecrefChildrenOnly ==
  LET h == [heap EXCEPT !.cell[loop.cell].mark = 1]
  IN  EndTurn("decref", h, h.objs, loop.link)

\* gc_decref: the counts lose what other cells contribute.
GcDecref ==
  LET d == [heap EXCEPT !.cell[loop.cell].mark = 1]
      h == IF Refs(d, loop.cell) = 0 THEN ToTmp(d, loop.cell) ELSE d
  IN  EndTurn("decref", h, h.objs, loop.link)

\* Mutant: list_for_each_safe, which has read the link before the turn.
ScanSafe ==
  LET h == [heap EXCEPT !.cell[loop.cell].mark = 0]
  IN  EndTurn("scan", h, h.objs, loop.link)

\* gc_scan: what is left with a count, and all it leads to, is kept (the mark
\* is reset before the children are counted, which do not look at it) ...
GcScan ==
  LET h == [heap EXCEPT !.cell[loop.cell].mark = 0]
  IN  EndTurn("scan", h, h.objs, After(h.objs, loop.cell))

\* ... and the counts of the rest are restored.
GcRestore == EndTurn("restore", heap, heap.tmp, After(heap.tmp, loop.cell))

\* One loop is over, the next begins.
NextLoop ==
  /\ loop.cell = None
  /\ \/ /\ phase = "decref" /\ phase' = "scan"
        /\ loop' = Turn(heap, heap.objs, First(heap.objs))
     \/ /\ phase = "scan" /\ phase' = "restore"
        /\ loop' = Turn(heap, heap.tmp, First(heap.tmp))
     \/ /\ phase = "restore" /\ phase' = "remove"
        /\ UNCHANGED loop
  /\ UNCHANGED <<heap, host, reached>>

\* gc_free_cycles: objects are freed, variables wait for the objects that
\* refer to them.
GcRemove ==
  LET x == Head(heap.tmp) IN
  /\ phase = "remove"
  /\ heap.tmp # <<>>
  /\ \/ heap.cell[x].kind = "object" /\ LetGo(x)
     \/ heap.cell[x].kind = "object" /\ HoldsNothing(x) /\ heap' = free_object(heap, x)
     \/ heap.cell[x].kind # "object" /\ heap' = [Unlink(heap, x) EXCEPT !.zero = Append(@, x)]
  /\ UNCHANGED <<phase, loop, host, reached>>

\* The memory of the objects that had to stay until the end.
GcSweep ==
  /\ phase = "remove"
  /\ heap.tmp = <<>>
  /\ heap' = [heap EXCEPT !.cell = [x \in Cells |-> IF x \in Range(heap.zero) THEN Unused ELSE @[x]],
                          !.zero = <<>>]
  /\ phase' = "swept"
  /\ UNCHANGED <<loop, host, reached>>

\* JS_RunGC returns.
GcReturn ==
  /\ phase = "swept"
  /\ phase' = "run"
  /\ reached' = {}
  /\ UNCHANGED <<heap, loop, host>>

-----------------------------------------------------------------------------

Script ==
  \/ JS_NewObject
  \/ \E x \in Cells : Release(x)
  \/ \E l \in heap.links : GetProperty(l)
  \/ \E x \in Cells, s \in Slots, y \in Cells \cup {None}, keeps \in BOOLEAN :
       SetProperty(x, s, y, keeps)
  \/ \E x, y \in Cells, s \in Slots : Capture(x, s, y)
  \/ \E l \in heap.links, z \in Cells, t \in Slots : Share(l, z, t)
  \/ \E m, k, y \in Cells : WeakSet(m, k, y)
  \/ \E l \in heap.links : WeakDelete(l)

JS_RunGC ==
  \/ \E l \in loop.todo : MarkChild("decref", l, gc_decref_child(heap, l.to))
  \/ GcDecref
  \/ \E l \in loop.todo : MarkChild("scan", l, gc_scan_incref_child(heap, l.to))
  \/ GcScan
  \/ \E l \in loop.todo : MarkChild("restore", l, Incref(heap, l.to))
  \/ GcRestore
  \/ NextLoop
  \/ GcRemove
  \/ GcSweep
  \/ GcReturn

Next == Script \/ FreeNext \/ StartGC \/ JS_RunGC

Spec == Init /\ [][Next]_vars

-----------------------------------------------------------------------------
(* Properties *)

\* Neither the script, nor free_zero_refcount, nor the collector
\* touches a cell that was freed: __JS_FreeValueRT frees nothing that a
\* property, a captured variable or a record of a weak map still leads to.
NoUseAfterFree == ~heap.bad

\* References to x from other cells.
Incoming(x) == Cardinality({l \in heap.links : l.to = x})

\* Whenever the script runs, after any JS_SetProperty, JS_FreeValue,
\* js_map_set and JS_RunGC, and after js_closure2 on a detached variable,
\* every count is the number of references there are, every cell in use is in
\* the main list once, and nothing else is; no mark is left, and nothing
\* refers to a cell that is gone.
CountsExact ==
  phase = "run" =>
    /\ \A x \in Cells :
         /\ Refs(heap, x) = host[x] + Incoming(x)
         /\ heap.cell[x].mark = 0
         /\ ~Used(heap, x) => Refs(heap, x) = 0
    /\ \A l \in heap.links :
         Used(heap, l.from) /\ Used(heap, l.to) /\ (l.weak => Used(heap, l.at))
    /\ heap.tmp = <<>> /\ heap.zero = <<>>
    /\ IsInjective(heap.objs)
    /\ Range(heap.objs) = {x \in Cells : Used(heap, x)}

\* JS_RunGC (gc_decref, gc_scan, gc_free_cycles) frees what was out of reach
\* when it started, all of it, and nothing else.
CollectsGarbage ==
  phase = "swept" => {x \in Cells : Used(heap, x)} = reached

\* What free_zero_refcount, gc_decref, gc_scan and gc_free_cycles
\* assert of the lists they walk.
AssertsHold ==
  /\ phase = "free" => Refs(heap, loop.cell) = 0
  /\ phase = "decref" /\ loop.cell # None => heap.cell[loop.cell].mark = 0
  /\ phase = "scan" /\ loop.cell # None => Refs(heap, loop.cell) > 0
  /\ phase = "remove" /\ heap.tmp = <<>> => \A x \in Range(heap.zero) : heap.cell[x].kind = "zombie"

=============================================================================
