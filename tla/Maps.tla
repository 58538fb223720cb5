-------------------------------- MODULE Maps --------------------------------
(***************************************************************************)
(* A Map or a Set of the engine: its records, in a list in the order they  *)
(* were added and in a hash table, and the traversals of it, iterators and *)
(* forEach.  A record that is deleted while a traversal stands on it stays *)
(* in the list, empty, until the traversal leaves it.  When map and        *)
(* iterators are part of a cycle the collector finalizes them in any       *)
(* order.                                                                  *)
(***************************************************************************)
EXTENDS Integers, Sequences, FiniteSets, SequencesExt, FiniteSetsExt

CONSTANTS
  Keys,        \* the keys the script uses: a tag, and a number (for strings
               \* and objects the low bits of their hash)
  Values,
  Cursors,     \* the traversals there may be at a time
  MaxRecords,  \* bound: the records a map is given in its life
  None,        \* no record
  Done         \* see OrderedMap

Tags == {"int", "float", "bool", "string", "object"}

ASSUME MapsAssumption ==
  /\ MaxRecords \in Nat
  /\ Keys \subseteq [tag : Tags, num : Nat]
  /\ IsFiniteSet(Cursors)
  /\ None \notin 1 .. MaxRecords /\ Done \notin 0 .. MaxRecords

VARIABLES
  map,     \* the JSMapState and its records
  cursor,  \* the traversals: still on the map?  on which record?
  phase    \* "run", "clear" inside js_map_clear, or "sweep" while a cycle
           \* with map and iterators goes

vars == <<map, cursor, phase>>

Records == 1 .. MaxRecords
Gone    == [key |-> None, value |-> None, empty |-> TRUE, refs |-> 0]
Idle    == [on |-> FALSE, at |-> None]

\* js_map_constructor without a list of entries: these are set one by one.
Empty ==
  [list |-> <<>>,                       \* records, by JSMapRecord.link
   rec  |-> [r \in Records |-> Gone],
   made |-> 0,                          \* how many records there have been
   size |-> 1,                          \* hash_size
   table |-> [b \in 0 .. 0 |-> {}],     \* hash_table: the records in each chain,
                                        \* which has them in order of addition
   count |-> 0,                         \* record_count
   threshold |-> 4,                     \* record_count_threshold
   el   |-> None,                       \* where the loop of js_map_clear is
   held |-> TRUE,                       \* the script refers to the map
   freed |-> FALSE,                     \* free_mark of the map
   bad  |-> FALSE]                      \* a freed record was used

Init ==
  /\ map = Empty
  /\ cursor = [c \in Cursors |-> Idle]
  /\ phase = "run"

-----------------------------------------------------------------------------
(* Keys *)

IsNumber(k) == k.tag \in {"int", "float"}

\* js_same_value_zero
Same(k, l) == IF IsNumber(k) /\ IsNumber(l) THEN k.num = l.num ELSE k = l

\* -0.0 becomes 0; 0.0 does too.
map_normalize_key(k) == IF k.tag = "float" /\ k.num = 0 THEN [k EXCEPT !.tag = "int"] ELSE k

\* The low bits of the hash, which are all that a small table uses.  The low
\* bits of the double of a small number are 0, so that the tag is what is
\* left of it: 0 for an int, 7 for a float.  The tag of a bool is 1.
map_hash_key(k) ==
  CASE k.tag = "int"   -> 0
    [] k.tag = "float" -> 7
    [] k.tag = "bool"  -> 1 - k.num
    [] OTHER           -> k.num

\* hash_size is a power of two, so that its mask takes the remainder.
BucketOf(k, size) == map_hash_key(k) % size

-----------------------------------------------------------------------------
(* Records *)

Live(m) == {r \in Records : ~m.rec[r].empty}

\* The place of record r in the list, 0 for the head of the list.
Place(m, r) == IF r = None THEN 0 ELSE CHOOSE i \in DOMAIN m.list : m.list[i] = r

map_find_record(m, k) ==
  LET hits == {r \in m.table[BucketOf(k, m.size)] : Same(m.rec[r].key, k)}
  IN  IF hits = {} THEN None ELSE Min(hits)

\* Mutant: a longer table, with the records in the buckets they were in.
ResizeInPlace(m, room) ==
  LET size == IF m.size = 1 THEN 4 ELSE 2 * m.size
  IN  IF ~room THEN m
      ELSE [m EXCEPT !.table = [b \in 0 .. size - 1 |-> IF b < m.size THEN @[b] ELSE {}],
                     !.size = size, !.threshold = size * 2]

\* A larger table, unless there is no room for it.  Left out is the slack that
\* js_realloc2 reports, which the code turns into further buckets when the
\* allocator's block is larger than asked for by one or more of them.
map_hash_resize(m, room) ==
  LET size == IF m.size = 1 THEN 4 ELSE 2 * m.size
      bucket(b) == {r \in Range(m.list) : ~m.rec[r].empty /\ BucketOf(m.rec[r].key, size) = b}
  IN  IF ~room THEN m
      ELSE [m EXCEPT !.table = [b \in 0 .. size - 1 |-> bucket(b)],
                     !.size = size, !.threshold = size * 2]

map_add_record(m, k, v, room) ==
  LET r == m.made + 1
      n == [m EXCEPT !.made = r,
                     !.rec[r] = [key |-> k, value |-> v, empty |-> FALSE, refs |-> 1],
                     !.table[BucketOf(k, m.size)] = @ \cup {r},
                     !.list = Append(@, r),
                     !.count = @ + 1]
  IN  IF n.count >= n.threshold THEN map_hash_resize(n, room) ELSE n

FreeRecord(m, r) == [m EXCEPT !.list = RemoveAt(@, Place(m, r)), !.rec[r] = Gone]

\* The record loses a reference; the last one takes it out of the list.
Decref(m, r) ==
  IF m.rec[r].refs = 1 THEN FreeRecord(m, r) ELSE [m EXCEPT !.rec[r].refs = @ - 1]

\* An empty record stays for the traversals that stand on it.
map_delete_record(m, r) ==
  LET n == [m EXCEPT !.table = [b \in DOMAIN @ |-> @[b] \ {r}], !.count = @ - 1,
                     !.rec[r] = [@ EXCEPT !.key = None, !.value = None, !.empty = TRUE]]
  IN  IF m.rec[r].empty THEN m ELSE Decref(n, r)

\* A traversal leaves a record: by then it is empty if this is the last
\* reference.
map_decref_record(m, r) ==
  [Decref(m, r) EXCEPT !.bad = @ \/ m.rec[r].refs = 0 \/ (m.rec[r].refs = 1 /\ ~m.rec[r].empty)]

\* js_map_finalizer, when nothing refers to the map.
js_map_finalizer(m) == [Empty EXCEPT !.held = FALSE, !.freed = TRUE, !.made = m.made, !.bad = m.bad]

-----------------------------------------------------------------------------
(* What the script does *)

\* The map goes when neither the script nor a traversal refers to it.
Settle(m, cs) ==
  /\ map' = IF m.held \/ \E c \in Cursors : cs[c].on THEN m ELSE js_map_finalizer(m)
  /\ cursor' = cs

Usable == phase = "run" /\ map.held

js_map_set(k, v, room) ==
  LET n == map_normalize_key(k)
      r == map_find_record(map, n) IN
  /\ Usable
  /\ r = None => map.made < MaxRecords
  /\ map' = IF r = None THEN map_add_record(map, n, v, room)
            ELSE [map EXCEPT !.rec[r].value = v]
  /\ UNCHANGED <<cursor, phase>>

js_map_delete(k) ==
  LET r == map_find_record(map, map_normalize_key(k)) IN
  /\ Usable
  /\ r # None
  /\ map' = map_delete_record(map, r)
  /\ UNCHANGED <<cursor, phase>>

\* The loop of js_map_clear sets out; without a record nothing changes.
js_map_clear ==
  /\ Usable
  /\ map.list # <<>>
  /\ map' = [map EXCEPT !.el = map.list[1]]
  /\ phase' = "clear"
  /\ UNCHANGED cursor

\* A turn of the loop: the record after this one is read, then this one is
\* deleted.  The script does not run until the loop is through.
ClearTurn ==
  LET i == Place(map, map.el)
      last == i = Len(map.list)
  IN  /\ phase = "clear"
      /\ map' = [map_delete_record(map, map.el) EXCEPT
                   !.el = IF last THEN None ELSE map.list[i + 1]]
      /\ phase' = IF last THEN "run" ELSE "clear"
      /\ UNCHANGED cursor

\* js_create_map_iterator, and the call of forEach.
Begin(c) ==
  /\ Usable
  /\ ~cursor[c].on
  /\ cursor' = [cursor EXCEPT ![c] = [on |-> TRUE, at |-> None]]
  /\ UNCHANGED <<map, phase>>

\* The places of the records beyond place i that are not empty.
Ahead(m, i) == {j \in DOMAIN m.list : j > i /\ ~m.rec[m.list[j]].empty}

\* Mutant: the link is followed after the record was let go.
AdvanceLate(c) ==
  LET r == cursor[c].at
      m == IF r = None THEN map ELSE map_decref_record(map, r)
      ahead == Ahead(m, IF r = None \/ r \in Range(m.list) THEN Place(m, r) ELSE 0)
  IN  /\ phase = "run"
      /\ cursor[c].on
      /\ IF ahead = {}
         THEN Settle(m, [cursor EXCEPT ![c] = Idle])
         ELSE Settle([m EXCEPT !.rec[m.list[Min(ahead)]].refs = @ + 1],
                     [cursor EXCEPT ![c].at = m.list[Min(ahead)]])
      /\ UNCHANGED phase

\* js_map_iterator_next, and a turn of forEach: on to the next record that
\* is not empty, which is locked; at the end the traversal lets go of the map.
\* What the function of forEach returned owns nothing.
Advance(c) ==
  LET r == cursor[c].at
      ahead == Ahead(map, Place(map, r))
      next == map.list[Min(ahead)]
      m == IF r = None THEN map ELSE map_decref_record(map, r)
  IN  /\ phase = "run"
      /\ cursor[c].on
      /\ IF ahead = {}
         THEN Settle(m, [cursor EXCEPT ![c] = Idle])
         ELSE Settle([m EXCEPT !.rec[next].refs = @ + 1], [cursor EXCEPT ![c].at = next])
      /\ UNCHANGED phase

\* Mutant: js_map_iterator_finalizer does not ask if the map is still there.
LetGoAnyway(c) ==
  IF cursor[c].at # None THEN map_decref_record(map, cursor[c].at) ELSE map

\* js_map_iterator_finalizer: the map may have been finalized before.
LetGo(c) ==
  IF ~map.freed /\ cursor[c].at # None THEN map_decref_record(map, cursor[c].at) ELSE map

\* The script drops an iterator it has not finished, or the function given
\* to forEach throws.
Leave(c) ==
  /\ phase = "run"
  /\ cursor[c].on
  /\ Settle(LetGo(c), [cursor EXCEPT ![c] = Idle])
  /\ UNCHANGED phase

\* The script drops the map; iterators may keep it.
Drop ==
  /\ Usable
  /\ Settle([map EXCEPT !.held = FALSE], cursor)
  /\ UNCHANGED phase

js_map_constructor ==
  /\ phase = "run"
  /\ map.freed
  /\ map' = [Empty EXCEPT !.bad = map.bad]
  /\ UNCHANGED <<cursor, phase>>

-----------------------------------------------------------------------------
(* The collector finds map and iterators in a cycle *)

Sweep ==
  /\ phase = "run"
  /\ ~map.freed
  /\ \E c \in Cursors : cursor[c].on
  /\ map' = [map EXCEPT !.held = FALSE]
  /\ phase' = "sweep"
  /\ UNCHANGED cursor

SweepMap ==
  /\ phase = "sweep"
  /\ ~map.freed
  /\ map' = js_map_finalizer(map)
  /\ phase' = IF \E c \in Cursors : cursor[c].on THEN "sweep" ELSE "run"
  /\ UNCHANGED cursor

SweepIterator(c) ==
  /\ phase = "sweep"
  /\ cursor[c].on
  /\ map' = LetGo(c)
  /\ cursor' = [cursor EXCEPT ![c] = Idle]
  /\ phase' = IF map.freed /\ \A d \in Cursors \ {c} : ~cursor[d].on THEN "run" ELSE "sweep"

-----------------------------------------------------------------------------

Next ==
  \/ \E k \in Keys, v \in Values, room \in BOOLEAN : js_map_set(k, v, room)
  \/ \E k \in Keys : js_map_delete(k)
  \/ js_map_clear
  \/ ClearTurn
  \/ \E c \in Cursors : Begin(c) \/ Advance(c) \/ Leave(c)
  \/ Drop
  \/ js_map_constructor
  \/ Sweep
  \/ SweepMap
  \/ \E c \in Cursors : SweepIterator(c)

Spec == Init /\ [][Next]_vars

-----------------------------------------------------------------------------
(* Properties *)

\* The value a key stands for: 1 and 1.0 are one key.
ValueOf(k) == IF IsNumber(k) THEN [tag |-> "number", num |-> k.num] ELSE k

\* What record r of the map m says to the script.
Entry(m, r) == [at |-> r, key |-> ValueOf(m.rec[r].key), value |-> m.rec[r].value]

\* js_map_clear takes effect when its loop sets out.
Entries == IF phase = "clear" THEN {} ELSE {Entry(map, r) : r \in Live(map)}

\* The number of the record r, 0 before the first one.
At(r) == IF r = None THEN 0 ELSE r

Pos == [c \in Cursors |-> IF cursor[c].on THEN At(cursor[c].at) ELSE Done]

Abstract ==
  INSTANCE OrderedMap WITH
    Keys    <- {ValueOf(k) : k \in Keys},
    held    <- map.held,
    entries <- Entries,
    last    <- map.made,
    pos     <- Pos

\* A map of the engine (js_map_set, js_map_delete, js_map_clear, the iterators
\* and forEach) is an ordered map: its list, hash table and empty records
\* implement OrderedMap, whatever is done to it between two steps of a
\* traversal, and the loop of js_map_clear leaves no entry.
IsOrderedMap == Abstract!Spec

\* Standing(r): the traversals that are on record r.
Standing(r) == {c \in Cursors : cursor[c].on /\ cursor[c].at = r}

\* Until the map is finalized every record in the list is referred to by the
\* map, if it is not empty, and by the traversals that stand on it, and it
\* counts just those (map_add_record, map_delete_record, map_decref_record);
\* the list is in the order of addition; the hash table has the records that
\* are not empty, each in its bucket and no other, whatever map_hash_resize did,
\* and record_count is their number.
RecordsExact ==
  ~map.freed =>
    /\ \A r \in Records :
         /\ map.rec[r].refs = Cardinality(Standing(r)) + (IF map.rec[r].empty THEN 0 ELSE 1)
         /\ r \in Range(map.list) <=> map.rec[r].refs > 0
    /\ \A i \in 1 .. Len(map.list) - 1 : map.list[i] < map.list[i + 1]
    /\ \A b \in 0 .. map.size - 1 :
         map.table[b] = {r \in Live(map) : BucketOf(map.rec[r].key, map.size) = b}
    /\ map.count = Cardinality(Live(map))

\* No traversal lets go of a record that was freed, or frees one that is
\* still in use: the assertion of map_decref_record, also when the collector
\* finalizes the map before the iterators on it.
NoDangling == ~map.bad

=============================================================================
