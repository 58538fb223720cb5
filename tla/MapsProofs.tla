----------------------------- MODULE MapsProofs -----------------------------
(***************************************************************************)
(* Proofs about Maps, for every set of keys, values and traversals and     *)
(* every number of records.                                                *)
(***************************************************************************)
EXTENDS Maps, TLAPS, FiniteSetTheorems, WellFoundedInduction

-----------------------------------------------------------------------------
(* Smallest elements *)

\* A set of natural numbers that is not empty has a smallest element, and Min
\* is it.
LEMMA MinNat ==
  ASSUME NEW S \in SUBSET Nat, S # {}
  PROVE  Min(S) \in S /\ \A y \in S : Min(S) <= y
<1>1. IsWellFoundedOn(OpToRel(<, Nat), Nat)
  BY NatLessThanWellFounded
<1>2. PICK x \in S : \A y \in S : ~(<<y, x>> \in OpToRel(<, Nat))
  BY <1>1, WFMin, Zenon
<1>3. \A y \in S : x <= y
  <2> TAKE y \in S
  <2>1. y \in Nat /\ x \in Nat /\ ~(<<y, x>> \in OpToRel(<, Nat))
    BY <1>2
  <2>2. y \in Nat /\ x \in Nat /\ ~(y < x)
    BY <2>1, Zenon DEF OpToRel
  <2> QED
    BY <2>2
<1> QED
  BY <1>3 DEF Min

\* It is the only element that is not above another one.
LEMMA MinIs ==
  ASSUME NEW S \in SUBSET Nat, NEW x \in S, \A y \in S : x <= y
  PROVE  Min(S) = x
<1>1. Min(S) \in Nat /\ x \in Nat /\ Min(S) <= x /\ x <= Min(S)
  BY MinNat
<1> QED
  BY <1>1

-----------------------------------------------------------------------------
(* The list *)

Ordered(l) == \A i, j \in 1 .. Len(l) : i < j => l[i] < l[j]

\* The second part of two lists.
LEMMA ConcatRight ==
  ASSUME NEW a \in Seq(Nat), NEW b \in Seq(Nat), NEW k \in 1 .. Len(b)
  PROVE  (a \o b)[Len(a) + k] = b[k]
OBVIOUS

\* What a list without its i-th element is.
LEMMA RemoveOne ==
  ASSUME NEW l \in Seq(Nat), NEW i \in 1 .. Len(l)
  PROVE  /\ RemoveAt(l, i) \in Seq(Nat)
         /\ Len(RemoveAt(l, i)) = Len(l) - 1
         /\ \A j \in 1 .. Len(l) - 1 :
              /\ j < i => RemoveAt(l, i)[j] = l[j]
              /\ j >= i => RemoveAt(l, i)[j] = l[j + 1]
<1> DEFINE a == SubSeq(l, 1, i - 1)
           b == SubSeq(l, i + 1, Len(l))
<1>1. a \in Seq(Nat) /\ Len(a) = i - 1
  OBVIOUS
<1>2. \A j \in 1 .. i - 1 : a[j] = l[j]
  OBVIOUS
<1>3. b \in Seq(Nat) /\ Len(b) = Len(l) - i
  OBVIOUS
<1>4. \A j \in 1 .. Len(l) - i : b[j] = l[j + i]
  OBVIOUS
<1>5. RemoveAt(l, i) = a \o b
  BY DEF RemoveAt
<1> HIDE DEF a, b
<1>6. a \o b \in Seq(Nat) /\ Len(a \o b) = Len(l) - 1
  BY <1>1, <1>3
<1>7. ASSUME NEW j \in 1 .. Len(l) - 1
      PROVE  /\ j < i => (a \o b)[j] = l[j]
             /\ j >= i => (a \o b)[j] = l[j + 1]
  <2>1. CASE j < i
    <3>1. (a \o b)[j] = a[j]
      BY <1>1, <1>3, <2>1
    <3> QED
      BY <1>2, <2>1, <3>1
  <2>2. CASE j >= i
    <3>1. PICK k \in 1 .. Len(l) - i : j = (i - 1) + k
      BY <1>1, <1>3, <2>2
    <3>2. (a \o b)[Len(a) + k] = b[k]
      BY <1>1, <1>3, <3>1, ConcatRight
    <3>3. k + i = j + 1 /\ Len(a) + k = j
      BY <1>1, <3>1
    <3>4. b[k] = l[k + i]
      BY <1>4
    <3>5. (a \o b)[j] = l[j + 1]
      BY <3>2, <3>3, <3>4
    <3> QED
      BY <2>2, <3>5
  <2> QED
    BY <2>1, <2>2
<1> QED
  BY <1>5, <1>6, <1>7

Increasing(l, n) ==
  /\ \A j \in 1 .. n : l[j] \in Nat
  /\ \A j, k \in 1 .. n : j < k => l[j] < l[k]

Shifted(d, l, n, i) ==
  \A j \in 1 .. n - 1 : (j < i => d[j] = l[j]) /\ (j >= i => d[j] = l[j + 1])

Elements(l, n) == {l[j] : j \in 1 .. n}

\* The same for its order and its elements.
LEMMA RemoveKeeps ==
  ASSUME NEW l, NEW d, NEW n \in Nat, NEW i \in 1 .. n,
         Increasing(l, n), Shifted(d, l, n, i)
  PROVE  /\ Increasing(d, n - 1)
         /\ Elements(d, n - 1) = Elements(l, n) \ {l[i]}
<1> USE DEF Increasing, Shifted, Elements
<1>1. ASSUME NEW j \in 1 .. n - 1, NEW k \in 1 .. n - 1, j < k
      PROVE  d[j] < d[k]
  BY <1>1
<1>2. ASSUME NEW j \in 1 .. n, NEW k \in 1 .. n, j # k
      PROVE  l[j] # l[k]
  <2>1. j < k \/ k < j
    BY <1>2
  <2> QED
    BY <2>1
<1>3. ASSUME NEW j \in 1 .. n - 1
      PROVE  \E k \in 1 .. n : d[j] = l[k] /\ k # i
  <2>1. j \in 1 .. n /\ j + 1 \in 1 .. n
    OBVIOUS
  <2> QED
    BY <2>1
<1>4. ASSUME NEW j \in 1 .. n, j # i
      PROVE  \E k \in 1 .. n - 1 : d[k] = l[j]
  <2>1. CASE j < i
    BY <2>1
  <2>2. CASE j > i
    <3>1. j - 1 \in 1 .. n - 1 /\ d[j - 1] = l[j]
      BY <2>2
    <3> QED
      BY <3>1
  <2> QED
    BY <1>4, <2>1, <2>2
<1>5. \A j \in 1 .. n - 1 : d[j] \in Nat
  BY <1>3
<1>6. \A x : x \in {d[j] : j \in 1 .. n - 1} <=> x \in {l[j] : j \in 1 .. n} \ {l[i]}
  BY <1>2, <1>3, <1>4
<1> QED
  BY <1>1, <1>5, <1>6

\* list_del takes one record out and leaves the others in their order.
LEMMA ListRemove ==
  ASSUME NEW l \in Seq(Nat), Ordered(l), NEW i \in 1 .. Len(l)
  PROVE  /\ Ordered(RemoveAt(l, i))
         /\ Range(RemoveAt(l, i)) = Range(l) \ {l[i]}
<1>1. PICK d : d = RemoveAt(l, i)
  OBVIOUS
<1>2. PICK n \in Nat : n = Len(l)
  OBVIOUS
<1>3. d \in Seq(Nat) /\ Len(d) = n - 1
  BY <1>1, <1>2, RemoveOne
<1>4. Shifted(d, l, n, i)
  BY <1>1, <1>2, RemoveOne DEF Shifted
<1>5. \A j \in 1 .. n : l[j] \in Nat
  BY <1>2
<1>6. i \in 1 .. n /\ Increasing(l, n)
  BY <1>2, <1>5 DEF Ordered, Increasing
<1>7. Increasing(d, n - 1) /\ Elements(d, n - 1) = Elements(l, n) \ {l[i]}
  BY <1>4, <1>6, RemoveKeeps
<1>8. DOMAIN d = 1 .. n - 1 /\ DOMAIN l = 1 .. n
  BY <1>2, <1>3
<1>9. Range(d) = Elements(d, n - 1) /\ Range(l) = Elements(l, n)
  BY <1>8 DEF Range, Elements
<1>10. Ordered(d)
  BY <1>3, <1>7 DEF Ordered, Increasing
<1> QED
  BY <1>1, <1>7, <1>9, <1>10

-----------------------------------------------------------------------------
(* The inductive invariant *)

AnyKey   == [tag : Tags, num : Nat]
AnyRec   == [key : AnyKey \cup {None}, value : Values \cup {None}, empty : BOOLEAN, refs : Nat]
AnyTable == UNION {[0 .. n - 1 -> SUBSET Records] : n \in Nat}
AnyMap   == [list : Seq(Records), rec : [Records -> AnyRec], made : 0 .. MaxRecords,
             size : Nat \ {0}, table : AnyTable, count : Int, threshold : Nat,
             el : Records \cup {None},
             held : BOOLEAN, freed : BOOLEAN, bad : BOOLEAN]
AnyCursors == [Cursors -> [on : BOOLEAN, at : Records \cup {None}]]

\* The traversals cs that are on record r.
On(cs, r) == {c \in Cursors : cs[c].on /\ cs[c].at = r}

\* What RecordsExact says of a map m and the traversals cs: it is inductive
\* with the facts that records are numbered up to m.made, that the list has
\* every record once, and that a record with entries has a key.
Linked(m) ==
  /\ Ordered(m.list)
  /\ Range(m.list) = {r \in Records : m.rec[r].refs > 0}
  /\ \A r \in Records : r > m.made => m.rec[r].empty /\ m.rec[r].refs = 0

Counted(m, cs) ==
  \A r \in Records :
    m.rec[r].refs = Cardinality(On(cs, r)) + (IF m.rec[r].empty THEN 0 ELSE 1)

Hashed(m) ==
  /\ m.table \in [0 .. m.size - 1 -> SUBSET Records]
  /\ \A r \in Live(m) : m.rec[r].key \in AnyKey
  /\ \A b \in 0 .. m.size - 1 :
       m.table[b] = {r \in Live(m) : BucketOf(m.rec[r].key, m.size) = b}
  /\ m.count = Cardinality(Live(m))

Kept(m, cs) == m \in AnyMap /\ cs \in AnyCursors /\ Linked(m) /\ Counted(m, cs) /\ Hashed(m)

SameTable(n, m) ==
  n.size = m.size /\ n.table = m.table /\ n.count = m.count /\ n.threshold = m.threshold
SameLife(n, m) ==
  n.held = m.held /\ n.freed = m.freed /\ n.el = m.el

-----------------------------------------------------------------------------
(* The operations on records *)

\* A record that is in the list has its place there.
LEMMA PlaceOf ==
  ASSUME NEW m \in AnyMap, NEW r \in Range(m.list)
  PROVE  /\ Place(m, r) \in 1 .. Len(m.list)
         /\ m.list[Place(m, r)] = r
         /\ r \in Records /\ r # None
<1>1. m.list \in Seq(Records)
  BY DEF AnyMap
<1>2. DOMAIN m.list = 1 .. Len(m.list)
  BY <1>1
<1>3. PICK i \in DOMAIN m.list : m.list[i] = r
  BY DEF Range
<1>4. r \in Records
  BY <1>1, <1>3
<1>5. r # None
  BY <1>4, MapsAssumption DEF Records
<1> QED
  BY <1>2, <1>3, <1>4, <1>5 DEF Place

\* The list of records is one of natural numbers.
LEMMA ListNat ==
  ASSUME NEW l \in Seq(Records)
  PROVE  l \in Seq(Nat)
<1>1. Records \subseteq Nat
  BY MapsAssumption DEF Records
<1>2. \A i \in 1 .. Len(l) : l[i] \in Nat
  <2>1. \A i \in 1 .. Len(l) : l[i] \in Records
    OBVIOUS
  <2> QED
    BY <1>1, <2>1
<1>3. l = [i \in 1 .. Len(l) |-> l[i]] /\ Len(l) \in Nat
  OBVIOUS
<1> QED
  BY <1>2, <1>3

\* A record loses a reference that is not the map's.
LEMMA DecrefEffect ==
  ASSUME NEW m \in AnyMap, Linked(m), NEW r \in Records,
         m.rec[r].refs > 0, m.rec[r].refs = 1 => m.rec[r].empty,
         NEW n, n = Decref(m, r)
  PROVE  /\ n \in AnyMap /\ Linked(n)
         /\ n.rec[r].refs = m.rec[r].refs - 1 /\ (n.rec[r].empty <=> m.rec[r].empty)
         /\ m.rec[r].refs # 1 => n.rec[r].key = m.rec[r].key /\ n.rec[r].value = m.rec[r].value
         /\ \A q \in Records : q # r => n.rec[q] = m.rec[q]
         /\ SameTable(n, m) /\ SameLife(n, m) /\ n.made = m.made /\ n.bad = m.bad
<1>0. m.list \in Seq(Records) /\ m.rec \in [Records -> AnyRec]
  BY DEF AnyMap
<1>1. CASE m.rec[r].refs = 1
  <2>1. n = [m EXCEPT !.list = RemoveAt(m.list, Place(m, r)), !.rec[r] = Gone]
    BY <1>1 DEF Decref, FreeRecord
  <2>2. r \in Range(m.list)
    BY <1>1 DEF Linked
  <2>3. PICK i \in 1 .. Len(m.list) : i = Place(m, r) /\ m.list[i] = r
    BY <2>2, PlaceOf
  <2>4. PICK d : d = RemoveAt(m.list, i)
    OBVIOUS
  <2>5. Ordered(d) /\ Range(d) = Range(m.list) \ {r}
    <3>1. m.list \in Seq(Nat)
      BY <1>0, ListNat
    <3> QED
      BY <2>3, <2>4, <3>1, ListRemove DEF Linked
  <2>6. d \in Seq(Records)
    BY <1>0, <2>4 DEF RemoveAt
  <2>7. Gone \in AnyRec
    BY DEF Gone, AnyRec
  <2>8. n = [m EXCEPT !.list = d, !.rec[r] = Gone]
    BY <2>1, <2>3, <2>4
  <2>9. /\ n \in AnyMap /\ n.list = d
        /\ n.rec = [m.rec EXCEPT ![r] = Gone]
        /\ SameTable(n, m) /\ SameLife(n, m) /\ n.made = m.made /\ n.bad = m.bad
    <3>1. [m.rec EXCEPT ![r] = Gone] \in [Records -> AnyRec]
      BY <1>0, <2>7
    <3>2. n = [[m EXCEPT !.list = d] EXCEPT !.rec = [m.rec EXCEPT ![r] = Gone]]
      BY <2>8 DEF AnyMap
    <3> QED
      BY <2>6, <3>1, <3>2 DEF AnyMap, SameTable, SameLife
  <2>10. n.rec[r] = Gone /\ \A q \in Records : q # r => n.rec[q] = m.rec[q]
    BY <1>0, <2>9
  <2>11. Gone.refs = 0 /\ Gone.empty
    BY DEF Gone
  <2>12. Range(n.list) = {q \in Records : n.rec[q].refs > 0}
    BY <2>5, <2>9, <2>10, <2>11 DEF Linked
  <2>13. Linked(n)
    BY <2>5, <2>9, <2>10, <2>11, <2>12 DEF Linked
  <2>14. m.rec[r].empty
    BY <1>0, <1>1 DEF AnyRec
  <2>15. n.rec[r].refs = 0 /\ n.rec[r].empty
    BY <2>10, <2>11
  <2>16. n.rec[r].refs = m.rec[r].refs - 1 /\ (n.rec[r].empty <=> m.rec[r].empty)
    BY <1>1, <2>14, <2>15
  <2> QED
    BY <1>1, <2>9, <2>10, <2>13, <2>16
<1>2. CASE m.rec[r].refs # 1
  <2>1. n = [m EXCEPT !.rec[r].refs = @ - 1]
    BY <1>2 DEF Decref
  <2>2. m.rec[r].refs - 1 \in Nat /\ m.rec[r].refs - 1 > 0
    BY <1>0, <1>2 DEF AnyRec
  <2>3. n \in AnyMap /\ n.rec = [m.rec EXCEPT ![r] = [m.rec[r] EXCEPT !.refs = m.rec[r].refs - 1]]
        /\ n.list = m.list
        /\ SameTable(n, m) /\ SameLife(n, m) /\ n.made = m.made /\ n.bad = m.bad
    <3> DEFINE new == [m.rec EXCEPT ![r] = [m.rec[r] EXCEPT !.refs = m.rec[r].refs - 1]]
    <3>1. new \in [Records -> AnyRec]
      BY <1>0, <2>2 DEF AnyRec
    <3>2. n = [m EXCEPT !.rec = new]
      BY <2>1
    <3> HIDE DEF new
    <3>3. n \in AnyMap /\ n.rec = new /\ n.list = m.list
          /\ SameTable(n, m) /\ SameLife(n, m) /\ n.made = m.made /\ n.bad = m.bad
      BY <3>1, <3>2 DEF AnyMap, SameTable, SameLife
    <3> QED
      BY <3>3 DEF new
  <2>4. /\ n.rec[r].refs = m.rec[r].refs - 1 /\ (n.rec[r].empty <=> m.rec[r].empty)
        /\ n.rec[r].key = m.rec[r].key /\ n.rec[r].value = m.rec[r].value
        /\ \A q \in Records : q # r => n.rec[q] = m.rec[q]
    BY <1>0, <2>3 DEF AnyRec
  <2>5. Range(n.list) = {q \in Records : n.rec[q].refs > 0}
    BY <2>2, <2>3, <2>4 DEF Linked
  <2>6. Linked(n)
    BY <2>3, <2>4, <2>5 DEF Linked
  <2> QED
    BY <2>3, <2>4, <2>6
<1> QED
  BY <1>1, <1>2

-----------------------------------------------------------------------------
(* The traversals on a record *)

\* Traversal c has gone to r, or to no record; the others have not moved.
Moved(ds, cs, c, r) ==
  ds \in AnyCursors /\ ds[c].at = r /\ \A d \in Cursors : d # c => ds[d] = cs[d]

\* A traversal leaves its record.
LEMMA OnLeave ==
  ASSUME NEW cs \in AnyCursors, NEW c \in Cursors, cs[c].on, NEW r \in Records, cs[c].at = r,
         NEW ds, Moved(ds, cs, c, None)
  PROVE  /\ Cardinality(On(cs, r)) \in Nat /\ Cardinality(On(cs, r)) > 0
         /\ Cardinality(On(ds, r)) = Cardinality(On(cs, r)) - 1
         /\ \A q \in Records : q # r => On(ds, q) = On(cs, q)
<1>1. ds[c].at = None /\ \A d \in Cursors : d # c => ds[d] = cs[d]
  BY DEF Moved
<1>2. None \notin Records
  BY MapsAssumption DEF Records
<1>3. c \in On(cs, r) /\ IsFiniteSet(On(cs, r))
  BY MapsAssumption, FS_Subset DEF On
<1>4. On(ds, r) = On(cs, r) \ {c}
  BY <1>1, <1>2 DEF On
<1>5. \A q \in Records : q # r => On(ds, q) = On(cs, q)
  BY <1>1, <1>2 DEF On
<1>6. /\ Cardinality(On(cs, r)) \in Nat
      /\ Cardinality(On(cs, r) \ {c}) \in Nat
      /\ Cardinality(On(cs, r) \ {c}) = Cardinality(On(cs, r)) - 1
  BY <1>3, FS_RemoveElement, FS_CardinalityType
<1>7. Cardinality(On(cs, r)) > 0
  BY <1>6
<1> QED
  BY <1>4, <1>5, <1>6, <1>7

\* A traversal that is on no record gets to one.
LEMMA OnEnter ==
  ASSUME NEW cs \in AnyCursors, NEW c \in Cursors, cs[c].on, NEW r \in Records, cs[c].at = None,
         NEW ds, Moved(ds, cs, c, r), ds[c].on
  PROVE  /\ Cardinality(On(cs, r)) \in Nat
         /\ Cardinality(On(ds, r)) = Cardinality(On(cs, r)) + 1
         /\ \A q \in Records : q # r => On(ds, q) = On(cs, q)
<1>1. ds[c].at = r /\ \A d \in Cursors : d # c => ds[d] = cs[d]
  BY DEF Moved
<1>2. None \notin Records
  BY MapsAssumption DEF Records
<1>3. c \notin On(cs, r) /\ IsFiniteSet(On(cs, r))
  BY <1>2, MapsAssumption, FS_Subset DEF On
<1>4. On(ds, r) = On(cs, r) \cup {c}
  BY <1>1, <1>2 DEF On
<1>5. \A q \in Records : q # r => On(ds, q) = On(cs, q)
  BY <1>1, <1>2 DEF On
<1>6. /\ Cardinality(On(cs, r)) \in Nat
      /\ Cardinality(On(cs, r) \cup {c}) = Cardinality(On(cs, r)) + 1
  BY <1>3, FS_AddElement, FS_CardinalityType
<1> QED
  BY <1>4, <1>5, <1>6

\* The entries of a map: the same records with the same keys and values.
SameEntries(n, m) ==
  /\ Live(n) = Live(m)
  /\ \A r \in Live(m) : n.rec[r].key = m.rec[r].key /\ n.rec[r].value = m.rec[r].value

\* The table is right for a map with the same entries.
LEMMA HashedSame ==
  ASSUME NEW m, NEW n, Hashed(m), SameTable(n, m), SameEntries(n, m)
  PROVE  Hashed(n)
BY DEF Hashed, SameTable, SameEntries

\* map_decref_record, when a traversal leaves a record, keeps the map as it is
\* and does not touch a record that is gone.
LEMMA LetGoKept ==
  ASSUME NEW m, NEW cs, Kept(m, cs), NEW c \in Cursors, cs[c].on,
         NEW r \in Records, cs[c].at = r,
         NEW n, n = map_decref_record(m, r),
         NEW ds, Moved(ds, cs, c, None)
  PROVE  /\ Kept(n, ds) /\ SameEntries(n, m)
         /\ SameLife(n, m) /\ n.made = m.made /\ (n.bad <=> m.bad)
<1>1. PICK k : k = Decref(m, r)
  OBVIOUS
<1>2. /\ m \in AnyMap /\ cs \in AnyCursors /\ Linked(m) /\ Counted(m, cs) /\ Hashed(m)
      /\ m.rec[r] \in AnyRec
  BY DEF Kept, AnyMap
<1>3. /\ Cardinality(On(cs, r)) \in Nat /\ Cardinality(On(cs, r)) > 0
      /\ Cardinality(On(ds, r)) = Cardinality(On(cs, r)) - 1
      /\ \A q \in Records : q # r => On(ds, q) = On(cs, q)
  BY <1>2, OnLeave
<1>4. m.rec[r].refs \in Nat /\ m.rec[r].refs > 0 /\ (m.rec[r].refs = 1 => m.rec[r].empty)
  BY <1>2, <1>3 DEF Counted, AnyRec
<1>5. /\ k \in AnyMap /\ Linked(k)
      /\ k.rec[r].refs = m.rec[r].refs - 1 /\ (k.rec[r].empty <=> m.rec[r].empty)
      /\ m.rec[r].refs # 1 => k.rec[r].key = m.rec[r].key /\ k.rec[r].value = m.rec[r].value
      /\ \A q \in Records : q # r => k.rec[q] = m.rec[q]
      /\ SameTable(k, m) /\ SameLife(k, m) /\ k.made = m.made /\ k.bad = m.bad
  BY <1>1, <1>2, <1>4, DecrefEffect
<1>6. n = [k EXCEPT !.bad = @ \/ m.rec[r].refs = 0 \/ (m.rec[r].refs = 1 /\ ~m.rec[r].empty)]
  BY <1>1 DEF map_decref_record
<1>7. /\ n \in AnyMap /\ n.list = k.list /\ n.rec = k.rec /\ n.made = k.made
      /\ SameTable(n, k) /\ SameLife(n, k)
      /\ n.bad <=> k.bad
  BY <1>4, <1>5, <1>6 DEF AnyMap, SameTable, SameLife
<1>8. Linked(n)
  BY <1>5, <1>7 DEF Linked
<1>9. SameEntries(n, m)
  BY <1>4, <1>5, <1>7 DEF SameEntries, Live
<1>10. Hashed(n)
  BY <1>2, <1>5, <1>7, <1>9, HashedSame DEF SameTable
<1>11. Counted(n, ds)
  <2> SUFFICES ASSUME NEW q \in Records
               PROVE  n.rec[q].refs = Cardinality(On(ds, q)) + (IF n.rec[q].empty THEN 0 ELSE 1)
    BY DEF Counted
  <2>1. CASE q = r
    BY <1>2, <1>3, <1>4, <1>5, <1>7, <2>1 DEF Counted
  <2>2. CASE q # r
    BY <1>2, <1>3, <1>5, <1>7, <2>2 DEF Counted
  <2> QED
    BY <2>1, <2>2
<1> QED
  BY <1>5, <1>7, <1>8, <1>9, <1>10, <1>11 DEF Kept, SameLife, Moved

\* A traversal locks the record it gets to.
Locked(m, r) == [m EXCEPT !.rec[r].refs = @ + 1]

\* The record a traversal goes to is held.
LEMMA LockKept ==
  ASSUME NEW m, NEW cs, Kept(m, cs), NEW c \in Cursors, cs[c].on, cs[c].at = None,
         NEW r \in Live(m),
         NEW n, n = Locked(m, r),
         NEW ds, Moved(ds, cs, c, r), ds[c].on
  PROVE  /\ Kept(n, ds) /\ SameEntries(n, m)
         /\ SameLife(n, m) /\ n.made = m.made /\ (n.bad <=> m.bad)
<1>1. /\ m \in AnyMap /\ cs \in AnyCursors /\ Linked(m) /\ Counted(m, cs) /\ Hashed(m)
      /\ m.rec \in [Records -> AnyRec] /\ r \in Records /\ ~m.rec[r].empty
  BY DEF Kept, AnyMap, Live
<1>2. /\ Cardinality(On(cs, r)) \in Nat
      /\ Cardinality(On(ds, r)) = Cardinality(On(cs, r)) + 1
      /\ \A q \in Records : q # r => On(ds, q) = On(cs, q)
  BY <1>1, OnEnter
<1> DEFINE new == [m.rec EXCEPT ![r] = [m.rec[r] EXCEPT !.refs = m.rec[r].refs + 1]]
<1>3. /\ new \in [Records -> AnyRec]
      /\ new[r].refs = m.rec[r].refs + 1 /\ (new[r].empty <=> m.rec[r].empty)
      /\ new[r].key = m.rec[r].key /\ new[r].value = m.rec[r].value
      /\ \A q \in Records : q # r => new[q] = m.rec[q]
  BY <1>1 DEF AnyRec
<1>4. n = [m EXCEPT !.rec = new]
  BY DEF Locked
<1> HIDE DEF new
<1>5. /\ n \in AnyMap /\ n.list = m.list /\ n.rec = new
      /\ SameTable(n, m) /\ SameLife(n, m) /\ n.made = m.made /\ n.bad = m.bad
  BY <1>1, <1>3, <1>4 DEF AnyMap, SameTable, SameLife
<1>6. m.rec[r].refs \in Nat /\ m.rec[r].refs > 0
  BY <1>1, <1>2 DEF Counted
<1>7. Linked(n)
  <2>1. Range(n.list) = {q \in Records : n.rec[q].refs > 0}
    BY <1>1, <1>3, <1>5, <1>6 DEF Linked
  <2> QED
    BY <1>1, <1>3, <1>5, <1>6, <2>1 DEF Linked
<1>8. SameEntries(n, m)
  BY <1>1, <1>3, <1>5 DEF SameEntries, Live
<1>9. Hashed(n)
  BY <1>1, <1>5, <1>8, HashedSame
<1>10. Counted(n, ds)
  <2> SUFFICES ASSUME NEW q \in Records
               PROVE  n.rec[q].refs = Cardinality(On(ds, q)) + (IF n.rec[q].empty THEN 0 ELSE 1)
    BY DEF Counted
  <2>1. CASE q = r
    BY <1>1, <1>2, <1>3, <1>5, <2>1 DEF Counted
  <2>2. CASE q # r
    BY <1>1, <1>2, <1>3, <1>5, <2>2 DEF Counted
  <2> QED
    BY <2>1, <2>2
<1> QED
  BY <1>5, <1>7, <1>8, <1>9, <1>10 DEF Kept, Moved

-----------------------------------------------------------------------------
(* The table *)

\* The records that are not empty are finitely many.
LEMMA LiveFinite ==
  ASSUME NEW m
  PROVE  IsFiniteSet(Live(m)) /\ Live(m) \subseteq Records /\ Cardinality(Live(m)) \in Nat
<1>1. IsFiniteSet(Records)
  BY MapsAssumption, FS_Interval DEF Records
<1>2. Live(m) \subseteq Records
  BY DEF Live
<1> QED
  BY <1>1, <1>2, FS_Subset, FS_CardinalityType

\* Every key has a bucket.
LEMMA BucketIn ==
  ASSUME NEW k \in AnyKey, NEW size \in Nat \ {0}
  PROVE  BucketOf(k, size) \in 0 .. size - 1
<1>1. map_hash_key(k) \in Int
  BY DEF map_hash_key, AnyKey, Tags
<1>2. PICK h \in Int : h = map_hash_key(k)
  BY <1>1
<1>3. h % size \in 0 .. size - 1
  OBVIOUS
<1> QED
  BY <1>2, <1>3 DEF BucketOf

\* map_find_record answers a record with an equal key in the bucket, if there
\* is one.
LEMMA FindSound ==
  ASSUME NEW m \in AnyMap, Hashed(m), NEW k \in AnyKey, NEW r, r = map_find_record(m, k)
  PROVE  \/ /\ r \in Live(m) /\ r # None
            /\ Same(m.rec[r].key, k)
         \/ /\ r = None
            /\ \A q \in Live(m) : BucketOf(m.rec[q].key, m.size) = BucketOf(k, m.size)
                                    => ~Same(m.rec[q].key, k)
<1> DEFINE hits == {q \in m.table[BucketOf(k, m.size)] : Same(m.rec[q].key, k)}
<1>1. BucketOf(k, m.size) \in 0 .. m.size - 1
  BY BucketIn DEF AnyMap
<1>2. m.table[BucketOf(k, m.size)] =
        {q \in Live(m) : BucketOf(m.rec[q].key, m.size) = BucketOf(k, m.size)}
  BY <1>1 DEF Hashed
<1>3. r = IF hits = {} THEN None ELSE Min(hits)
  BY DEF map_find_record
<1>4. hits \subseteq Live(m) /\ \A q \in hits : Same(m.rec[q].key, k)
  BY <1>2
<1>5. \A q \in Live(m) \ hits : BucketOf(m.rec[q].key, m.size) = BucketOf(k, m.size)
                                  => ~Same(m.rec[q].key, k)
  BY <1>2
<1> HIDE DEF hits
<1>6. Live(m) \subseteq Nat /\ None \notin Live(m)
  BY MapsAssumption DEF Live, Records
<1>7. CASE hits = {}
  BY <1>3, <1>5, <1>7
<1>8. CASE hits # {}
  <2>1. Min(hits) \in hits
    BY <1>4, <1>6, <1>8, MinNat
  <2> QED
    BY <1>3, <1>4, <1>6, <1>8, <2>1
<1> QED
  BY <1>7, <1>8

\* map_hash_resize files every record that is not empty anew.
LEMMA ResizeKept ==
  ASSUME NEW m, NEW cs, Kept(m, cs), NEW room \in BOOLEAN,
         NEW n, n = map_hash_resize(m, room)
  PROVE  /\ Kept(n, cs) /\ n.rec = m.rec
         /\ SameLife(n, m) /\ n.made = m.made /\ (n.bad <=> m.bad)
<1>1. m \in AnyMap /\ Linked(m) /\ Counted(m, cs) /\ Hashed(m) /\ m.size \in Nat \ {0}
  BY DEF Kept, AnyMap
<1>2. CASE ~room
  <2>1. n = m
    BY <1>2 DEF map_hash_resize
  <2> QED
    BY <2>1 DEF SameLife
<1>3. CASE room
  <2>1. PICK size \in Nat \ {0} : size = IF m.size = 1 THEN 4 ELSE 2 * m.size
    BY <1>1
  <2> DEFINE bucket(b) == {r \in Range(m.list) : ~m.rec[r].empty /\ BucketOf(m.rec[r].key, size) = b}
             table == [b \in 0 .. size - 1 |-> bucket(b)]
  <2>2. n = [m EXCEPT !.table = table, !.size = size, !.threshold = size * 2]
    BY <1>3, <2>1 DEF map_hash_resize
  <2>3. \A r \in Records : ~m.rec[r].empty => m.rec[r].refs > 0
    <3> SUFFICES ASSUME NEW r \in Records, ~m.rec[r].empty PROVE m.rec[r].refs > 0
      OBVIOUS
    <3>1. Cardinality(On(cs, r)) \in Nat
      BY MapsAssumption, FS_Subset, FS_CardinalityType DEF On
    <3> QED
      BY <1>1, <3>1 DEF Counted
  <2>4. \A b \in 0 .. size - 1 : table[b] = {r \in Live(m) : BucketOf(m.rec[r].key, size) = b}
    BY <1>1, <2>3 DEF Linked, Live
  <2>5. table \in [0 .. size - 1 -> SUBSET Records]
    BY <1>1 DEF Linked
  <2> HIDE DEF table
  <2>6. table \in AnyTable
    BY <2>5 DEF AnyTable
  <2>7. size * 2 \in Nat
    BY <2>1
  <2>8. /\ n \in AnyMap /\ n.list = m.list /\ n.rec = m.rec /\ n.made = m.made
        /\ n.table = table /\ n.size = size /\ n.count = m.count
        /\ SameLife(n, m) /\ n.bad = m.bad
    <3>1. PICK t \in Nat : t = size * 2
      BY <2>7
    <3>2. n = [m EXCEPT !.table = table, !.size = size, !.threshold = t]
      BY <2>2, <3>1
    <3> QED
      BY <1>1, <2>6, <3>2 DEF AnyMap, SameLife
  <2>9. Live(n) = Live(m)
    BY <2>8 DEF Live
  <2>10. Hashed(n)
    BY <1>1, <2>4, <2>5, <2>8, <2>9 DEF Hashed
  <2>11. Linked(n) /\ Counted(n, cs)
    BY <1>1, <2>8 DEF Linked, Counted
  <2> QED
    BY <2>8, <2>10, <2>11 DEF Kept
<1> QED
  BY <1>2, <1>3

\* list_add_tail of a record with a higher number than all others.
LEMMA ListAppend ==
  ASSUME NEW l \in Seq(Nat), Ordered(l), NEW r \in Nat, \A q \in Range(l) : q < r
  PROVE  Ordered(Append(l, r)) /\ Range(Append(l, r)) = Range(l) \cup {r}
<1>1. PICK d : d = Append(l, r)
  OBVIOUS
<1>2. PICK n \in Nat : n = Len(l)
  OBVIOUS
<1>3. Len(d) = n + 1 /\ d[n + 1] = r /\ \A i \in 1 .. n : d[i] = l[i]
  BY <1>1, <1>2
<1>4. DOMAIN d = 1 .. n + 1 /\ DOMAIN l = 1 .. n
  BY <1>1, <1>2
<1>5. \A i \in 1 .. n : l[i] < r
  BY <1>4 DEF Range
<1>6. \A i, j \in 1 .. n : i < j => l[i] < l[j]
  BY <1>2 DEF Ordered
<1>7. ASSUME NEW i \in 1 .. n + 1, NEW j \in 1 .. n + 1, i < j
      PROVE  d[i] < d[j]
  <2>1. i \in 1 .. n /\ d[i] = l[i]
    BY <1>3, <1>7
  <2>2. CASE j = n + 1
    BY <1>3, <1>5, <2>1, <2>2
  <2>3. CASE j \in 1 .. n
    BY <1>3, <1>6, <1>7, <2>1, <2>3
  <2> QED
    BY <2>2, <2>3
<1>8. Ordered(d)
  BY <1>3, <1>7 DEF Ordered
<1>9. Range(d) = {d[i] : i \in 1 .. n + 1} /\ Range(l) = {l[i] : i \in 1 .. n}
  BY <1>4 DEF Range
<1>10. Range(d) = Range(l) \cup {r}
  BY <1>3, <1>9
<1> QED
  BY <1>1, <1>8, <1>10

\* map_add_record: the new record is the last of the list, in its bucket, and
\* referred to by the map alone.
LEMMA AddKept ==
  ASSUME NEW m, NEW cs, Kept(m, cs), m.made < MaxRecords,
         NEW k \in AnyKey, NEW v \in Values, NEW room \in BOOLEAN,
         NEW n, n = map_add_record(m, k, v, room),
         NEW r, r = m.made + 1
  PROVE  /\ Kept(n, cs)
         /\ SameLife(n, m) /\ n.made = r /\ (n.bad <=> m.bad)
         /\ r \in Records /\ r \notin Live(m) /\ Live(n) = Live(m) \cup {r}
         /\ n.rec[r].key = k /\ n.rec[r].value = v
         /\ \A q \in Live(m) : n.rec[q] = m.rec[q]
<1>1. /\ m \in AnyMap /\ cs \in AnyCursors /\ Linked(m) /\ Counted(m, cs) /\ Hashed(m)
      /\ m.made \in 0 .. MaxRecords /\ m.rec \in [Records -> AnyRec] /\ m.list \in Seq(Records)
      /\ m.size \in Nat \ {0} /\ m.count \in Int
  BY DEF Kept, AnyMap
<1>2. r \in Records /\ r \in Nat /\ r > m.made /\ r \in 0 .. MaxRecords
  BY <1>1, MapsAssumption DEF Records
<1>3. m.rec[r].empty /\ m.rec[r].refs = 0
  BY <1>1, <1>2 DEF Linked
<1>4. PICK b \in 0 .. m.size - 1 : b = BucketOf(k, m.size)
  BY <1>1, BucketIn
<1> DEFINE new == [key |-> k, value |-> v, empty |-> FALSE, refs |-> 1]
           rec == [m.rec EXCEPT ![r] = new]
           table == [m.table EXCEPT ![b] = @ \cup {r}]
           list == Append(m.list, r)
           o == [m EXCEPT !.made = r, !.rec = rec, !.table = table, !.list = list,
                          !.count = m.count + 1]
<1>5. /\ rec \in [Records -> AnyRec]
      /\ rec[r] = new /\ \A q \in Records : q # r => rec[q] = m.rec[q]
  BY <1>1, <1>2 DEF AnyRec
<1>6. new.key = k /\ new.value = v /\ ~new.empty /\ new.refs = 1
  OBVIOUS
<1>7. /\ table \in [0 .. m.size - 1 -> SUBSET Records]
      /\ table[b] = m.table[b] \cup {r}
      /\ \A a \in 0 .. m.size - 1 : a # b => table[a] = m.table[a]
  BY <1>1, <1>2 DEF Hashed
<1>8. list \in Seq(Records) /\ Ordered(list) /\ Range(list) = Range(m.list) \cup {r}
  <2>1. \A q \in Range(m.list) : q < r
    <3> TAKE q \in Range(m.list)
    <3>1. q \in Records /\ m.rec[q].refs > 0
      BY <1>1 DEF Linked
    <3>2. q <= m.made
      BY <1>1, <3>1, MapsAssumption DEF Linked, Records
    <3> QED
      BY <1>1, <1>2, <3>1, <3>2, MapsAssumption DEF Records
  <2>2. m.list \in Seq(Nat)
    BY <1>1, ListNat
  <2> QED
    BY <1>1, <1>2, <2>1, <2>2, ListAppend DEF Linked
<1>9. n = IF o.count >= o.threshold THEN map_hash_resize(o, room) ELSE o
  <2>1. o = [m EXCEPT !.made = r, !.rec[r] = new,
                      !.table[BucketOf(k, m.size)] = @ \cup {r},
                      !.list = Append(@, r), !.count = @ + 1]
    BY <1>1, <1>4
  <2> QED
    BY <2>1 DEF map_add_record
<1> HIDE DEF new, rec, table, list
<1>10. table \in AnyTable /\ m.count + 1 \in Int
  <2>1. m.count + 1 \in Int
    BY <1>1
  <2>2. table \in AnyTable
    BY <1>1, <1>7 DEF AnyTable
  <2> QED
    BY <2>1, <2>2
<1>11. /\ o \in AnyMap /\ o.list = list /\ o.rec = rec /\ o.made = r
       /\ o.table = table /\ o.size = m.size /\ o.count = m.count + 1
       /\ SameLife(o, m) /\ o.bad = m.bad
  BY <1>1, <1>2, <1>5, <1>8, <1>10 DEF AnyMap, SameLife
<1> HIDE DEF o
<1>12. Live(o) = Live(m) \cup {r} /\ r \notin Live(m)
  BY <1>2, <1>3, <1>5, <1>6, <1>11 DEF Live
<1>13. Linked(o)
  <2>0. \A q \in Records : o.rec[q].refs > 0 <=> m.rec[q].refs > 0 \/ q = r
    BY <1>3, <1>5, <1>6, <1>11
  <2>1. Range(o.list) = {q \in Records : o.rec[q].refs > 0}
    BY <1>1, <1>2, <1>8, <1>11, <2>0 DEF Linked
  <2>2. ASSUME NEW q \in Records, q > o.made
        PROVE  o.rec[q].empty /\ o.rec[q].refs = 0
    <3>1. q \in Nat
      BY MapsAssumption DEF Records
    <3>2. q > m.made /\ q # r
      BY <1>1, <1>2, <1>11, <2>2, <3>1
    <3> QED
      BY <1>1, <1>5, <1>11, <3>2 DEF Linked
  <2> QED
    BY <1>8, <1>11, <2>1, <2>2 DEF Linked
<1>14. Counted(o, cs)
  <2> SUFFICES ASSUME NEW q \in Records
               PROVE  o.rec[q].refs = Cardinality(On(cs, q)) + (IF o.rec[q].empty THEN 0 ELSE 1)
    BY DEF Counted
  <2>0. Cardinality(On(cs, q)) \in Nat
    BY MapsAssumption, FS_Subset, FS_CardinalityType DEF On
  <2>1. CASE q = r
    BY <1>1, <1>3, <1>5, <1>6, <1>11, <2>0, <2>1 DEF Counted
  <2>2. CASE q # r
    BY <1>1, <1>5, <1>11, <2>2 DEF Counted
  <2> QED
    BY <2>1, <2>2
<1>15. Hashed(o)
  <2>1. \A q \in Live(o) : o.rec[q].key \in AnyKey
    BY <1>1, <1>5, <1>6, <1>11, <1>12 DEF Hashed, Live
  <2>2. ASSUME NEW a \in 0 .. m.size - 1
        PROVE  o.table[a] = {q \in Live(o) : BucketOf(o.rec[q].key, m.size) = a}
    <3>1. m.table[a] = {q \in Live(m) : BucketOf(m.rec[q].key, m.size) = a}
      BY <1>1 DEF Hashed
    <3>2. o.rec[r].key = k /\ \A q \in Live(m) : o.rec[q].key = m.rec[q].key
      BY <1>5, <1>6, <1>11, <1>12 DEF Live
    <3>3. o.table[a] = IF a = b THEN m.table[a] \cup {r} ELSE m.table[a]
      BY <1>7, <1>11
    <3> QED
      BY <1>4, <1>12, <3>1, <3>2, <3>3
  <2>3. o.count = Cardinality(Live(o))
    <3>1. IsFiniteSet(Live(m)) /\ m.count = Cardinality(Live(m))
      BY <1>1, LiveFinite DEF Hashed
    <3>2. Cardinality(Live(m) \cup {r}) = Cardinality(Live(m)) + 1
      BY <1>12, <3>1, FS_AddElement
    <3> QED
      BY <1>11, <1>12, <3>1, <3>2
  <2> QED
    BY <1>7, <1>11, <2>1, <2>2, <2>3 DEF Hashed
<1>16. Kept(o, cs)
  BY <1>1, <1>11, <1>13, <1>14, <1>15 DEF Kept
<1>17. /\ Kept(n, cs) /\ n.rec = o.rec
       /\ SameLife(n, o) /\ n.made = o.made /\ (n.bad <=> o.bad)
  <2>1. CASE n = o
    BY <1>16, <2>1 DEF SameLife
  <2>2. CASE n = map_hash_resize(o, room)
    BY <1>16, <2>2, ResizeKept
  <2> QED
    BY <1>9, <2>1, <2>2
<1>18. Live(n) = Live(o)
  BY <1>17 DEF Live
<1> QED
  BY <1>2, <1>5, <1>6, <1>11, <1>12, <1>17, <1>18 DEF SameLife, Live

\* map_delete_record: the record is out of the table, and in the list for the
\* traversals that stand on it.
LEMMA DeleteKept ==
  ASSUME NEW m, NEW cs, Kept(m, cs), NEW r \in Live(m),
         NEW n, n = map_delete_record(m, r)
  PROVE  /\ Kept(n, cs)
         /\ SameLife(n, m) /\ n.made = m.made /\ (n.bad <=> m.bad)
         /\ Live(n) = Live(m) \ {r}
         /\ \A q \in Records : q # r => n.rec[q] = m.rec[q]
<1>1. /\ m \in AnyMap /\ cs \in AnyCursors /\ Linked(m) /\ Counted(m, cs) /\ Hashed(m)
      /\ m.rec \in [Records -> AnyRec] /\ m.size \in Nat \ {0} /\ m.count \in Int
      /\ r \in Records /\ ~m.rec[r].empty
  BY DEF Kept, AnyMap, Live
<1> DEFINE rec == [m.rec EXCEPT ![r] = [@ EXCEPT !.key = None, !.value = None, !.empty = TRUE]]
           table == [b \in 0 .. m.size - 1 |-> m.table[b] \ {r}]
           o == [m EXCEPT !.table = table, !.count = m.count - 1, !.rec = rec]
<1>2. n = Decref(o, r)
  <2>1. DOMAIN m.table = 0 .. m.size - 1
    BY <1>1 DEF Hashed
  <2>2. o = [m EXCEPT !.table = [b \in DOMAIN @ |-> @[b] \ {r}], !.count = @ - 1,
                      !.rec[r] = [@ EXCEPT !.key = None, !.value = None, !.empty = TRUE]]
    BY <1>1, <2>1
  <2> QED
    BY <1>1, <2>2 DEF map_delete_record
<1>3. /\ rec \in [Records -> AnyRec]
      /\ rec[r].refs = m.rec[r].refs /\ rec[r].empty
      /\ \A q \in Records : q # r => rec[q] = m.rec[q]
  BY <1>1 DEF AnyRec
<1>4. /\ table \in [0 .. m.size - 1 -> SUBSET Records]
      /\ \A b \in 0 .. m.size - 1 : table[b] = m.table[b] \ {r}
  BY <1>1 DEF Hashed
<1> HIDE DEF rec, table
<1>5. table \in AnyTable /\ m.count - 1 \in Int
  BY <1>1, <1>4 DEF AnyTable
<1>6. /\ o \in AnyMap /\ o.list = m.list /\ o.rec = rec /\ o.made = m.made
      /\ o.table = table /\ o.size = m.size /\ o.count = m.count - 1
      /\ SameLife(o, m) /\ o.bad = m.bad
  BY <1>1, <1>3, <1>5 DEF AnyMap, SameLife
<1> HIDE DEF o
<1>7. Linked(o)
  <2>1. Range(o.list) = {q \in Records : o.rec[q].refs > 0}
    BY <1>1, <1>3, <1>6 DEF Linked
  <2> QED
    BY <1>1, <1>3, <1>6, <2>1 DEF Linked
<1>8. Live(o) = Live(m) \ {r}
  BY <1>1, <1>3, <1>6 DEF Live
<1>9. Hashed(o)
  <2>1. \A q \in Live(o) : o.rec[q] = m.rec[q]
    BY <1>3, <1>6, <1>8 DEF Live
  <2>2. ASSUME NEW a \in 0 .. m.size - 1
        PROVE  o.table[a] = {q \in Live(o) : BucketOf(o.rec[q].key, m.size) = a}
    <3>1. m.table[a] = {q \in Live(m) : BucketOf(m.rec[q].key, m.size) = a}
      BY <1>1 DEF Hashed
    <3> QED
      BY <1>4, <1>6, <1>8, <2>1, <3>1
  <2>3. o.count = Cardinality(Live(o))
    BY <1>1, <1>6, <1>8, LiveFinite, FS_RemoveElement DEF Hashed
  <2>4. \A q \in Live(o) : o.rec[q].key \in AnyKey
    BY <1>1, <1>8, <2>1 DEF Hashed
  <2> QED
    BY <1>4, <1>6, <2>2, <2>3, <2>4 DEF Hashed
<1>10. \A q \in Records : Cardinality(On(cs, q)) \in Nat
  BY MapsAssumption, FS_Subset, FS_CardinalityType DEF On
<1>11. m.rec[r].refs = Cardinality(On(cs, r)) + 1
  BY <1>1 DEF Counted
<1>12. o.rec[r].refs > 0 /\ o.rec[r].empty /\ o.rec[r].refs \in Nat
  <2>1. Cardinality(On(cs, r)) + 1 \in Nat /\ Cardinality(On(cs, r)) + 1 > 0
    BY <1>1, <1>10
  <2> QED
    BY <1>3, <1>6, <1>11, <2>1
<1>13. /\ n \in AnyMap /\ Linked(n)
       /\ n.rec[r].refs = o.rec[r].refs - 1 /\ (n.rec[r].empty <=> o.rec[r].empty)
       /\ \A q \in Records : q # r => n.rec[q] = o.rec[q]
       /\ SameTable(n, o) /\ SameLife(n, o) /\ n.made = o.made /\ n.bad = o.bad
  BY <1>1, <1>2, <1>6, <1>7, <1>12, DecrefEffect
<1>14. Live(n) = Live(o) /\ \A q \in Live(n) : n.rec[q] = o.rec[q]
  BY <1>12, <1>13 DEF Live
<1>15. Hashed(n)
  BY <1>9, <1>13, <1>14, HashedSame DEF SameEntries
<1>16. Counted(n, cs)
  <2> SUFFICES ASSUME NEW q \in Records
               PROVE  n.rec[q].refs = Cardinality(On(cs, q)) + (IF n.rec[q].empty THEN 0 ELSE 1)
    BY DEF Counted
  <2>1. CASE q = r
    BY <1>3, <1>6, <1>10, <1>11, <1>12, <1>13, <2>1
  <2>2. CASE q # r
    BY <1>1, <1>3, <1>6, <1>13, <2>2 DEF Counted
  <2> QED
    BY <2>1, <2>2
<1> QED
  BY <1>1, <1>3, <1>6, <1>8, <1>13, <1>14, <1>15, <1>16 DEF Kept, SameLife, Live

-----------------------------------------------------------------------------
(* The invariant and the steps *)

\* Outside of js_map_clear, the loop is nowhere; in it, the records before the
\* one it has got to are empty.  A map that is freed has no entry, and no
\* traversal but those the collector is about to finalize.
Clearing ==
  /\ map.held
  /\ map.el \in Range(map.list)
  /\ \A r \in Live(map) : r >= map.el

Over ==
  /\ ~map.held
  /\ Live(map) = {}
  /\ phase = "run" => \A c \in Cursors : ~cursor[c].on

IInv ==
  /\ map \in AnyMap /\ cursor \in AnyCursors /\ phase \in {"run", "clear", "sweep"}
  /\ ~map.bad
  /\ ~map.freed => Kept(map, cursor)
  /\ map.freed => Over
  /\ phase = "clear" => Clearing
  /\ phase = "sweep" => ~map.held

\* js_map_finalizer leaves nothing of the map.
LEMMA Finalized ==
  ASSUME NEW m \in AnyMap, NEW n, n = js_map_finalizer(m)
  PROVE  /\ n \in AnyMap /\ ~n.held /\ n.freed /\ Live(n) = {}
         /\ n.made = m.made /\ (n.bad <=> m.bad)
<1>1. Empty \in AnyMap
  <2>1. [r \in Records |-> Gone] \in [Records -> AnyRec]
    BY DEF Gone, AnyRec
  <2>2. [b \in 0 .. 0 |-> {}] \in AnyTable
    <3>1. [b \in 0 .. 0 |-> {}] \in [0 .. 1 - 1 -> SUBSET Records]
      OBVIOUS
    <3> QED
      BY <3>1 DEF AnyTable
  <2>3. <<>> \in Seq(Records) /\ 0 \in 0 .. MaxRecords
    BY MapsAssumption
  <2> QED
    BY <2>1, <2>2, <2>3 DEF Empty, AnyMap
<1>2. n = [[Empty EXCEPT !.held = FALSE, !.freed = TRUE] EXCEPT !.made = m.made, !.bad = m.bad]
  BY <1>1 DEF js_map_finalizer, AnyMap
<1>3. n \in AnyMap /\ ~n.held /\ n.freed /\ n.made = m.made /\ (n.bad <=> m.bad) /\ n.rec = Empty.rec
  BY <1>1, <1>2 DEF AnyMap
<1>4. Empty.rec = [r \in Records |-> Gone] /\ Gone.empty
  BY DEF Empty, Gone
<1>5. Live(n) = {}
  BY <1>3, <1>4 DEF Live
<1> QED
  BY <1>3, <1>5

\* A new map has no record.
LEMMA EmptyKept ==
  ASSUME NEW cs \in AnyCursors, \A c \in Cursors : ~cs[c].on,
         NEW n, n = Empty
  PROVE  Kept(n, cs) /\ Live(n) = {} /\ n.held /\ ~n.freed /\ ~n.bad /\ n.made = 0
<1>1. /\ n.list = <<>> /\ n.rec = [r \in Records |-> Gone] /\ n.made = 0 /\ n.size = 1
      /\ n.table = [b \in 0 .. 0 |-> {}] /\ n.count = 0 /\ n.held /\ ~n.freed /\ ~n.bad
  BY DEF Empty
<1>2. Gone.empty /\ Gone.refs = 0 /\ Gone \in AnyRec
  BY DEF Gone, AnyRec
<1>3. n \in AnyMap
  <2>1. [r \in Records |-> Gone] \in [Records -> AnyRec]
    BY <1>2
  <2>2. [b \in 0 .. 0 |-> {}] \in AnyTable
    <3>1. [b \in 0 .. 0 |-> {}] \in [0 .. 1 - 1 -> SUBSET Records]
      OBVIOUS
    <3> QED
      BY <3>1 DEF AnyTable
  <2>3. <<>> \in Seq(Records) /\ 0 \in 0 .. MaxRecords
    BY MapsAssumption
  <2> QED
    BY <2>1, <2>2, <2>3 DEF Empty, AnyMap
<1>4. Live(n) = {}
  BY <1>1, <1>2 DEF Live
<1>5. Linked(n)
  BY <1>1, <1>2 DEF Linked, Ordered, Range
<1>6. Counted(n, cs)
  <2>1. \A r \in Records : On(cs, r) = {}
    BY DEF On
  <2>2. Cardinality({}) = 0
    BY FS_EmptySet
  <2>3. \A r \in Records : n.rec[r].refs = 0 /\ n.rec[r].empty
    BY <1>1, <1>2
  <2>4. \A r \in Records : Cardinality(On(cs, r)) = 0
    BY <2>1, <2>2
  <2> QED
    BY <2>3, <2>4 DEF Counted
<1>7. Hashed(n)
  <2>1. Cardinality({}) = 0
    BY FS_EmptySet
  <2> QED
    BY <1>1, <1>4, <2>1 DEF Hashed
<1> QED
  BY <1>1, <1>3, <1>4, <1>5, <1>6, <1>7 DEF Kept

\* An empty map is sound.
LEMMA InitIInv == Init => IInv
<1> SUFFICES ASSUME Init PROVE IInv
  OBVIOUS
<1>1. cursor \in AnyCursors /\ \A c \in Cursors : ~cursor[c].on
  BY DEF Init, Idle, AnyCursors
<1>2. map = Empty /\ phase = "run"
  BY DEF Init
<1> QED
  BY <1>1, <1>2, EmptyKept DEF IInv, Kept

\* map_normalize_key answers a key.
LEMMA NormalKey ==
  ASSUME NEW k \in Keys
  PROVE  k \in AnyKey /\ map_normalize_key(k) \in AnyKey
<1>1. k \in AnyKey
  BY MapsAssumption DEF AnyKey
<1> QED
  BY <1>1 DEF map_normalize_key, AnyKey, Tags

\* js_map_set on a key that is there.
WithValue(m, r, v) == [m EXCEPT !.rec[r].value = v]

\* js_map_set on a key that is there changes its value only.
LEMMA ValueKept ==
  ASSUME NEW m, NEW cs, Kept(m, cs), NEW r \in Live(m), NEW v \in Values,
         NEW n, n = WithValue(m, r, v)
  PROVE  /\ Kept(n, cs) /\ Live(n) = Live(m)
         /\ SameLife(n, m) /\ n.made = m.made /\ (n.bad <=> m.bad)
         /\ n.rec[r].key = m.rec[r].key /\ n.rec[r].value = v
         /\ \A q \in Records : q # r => n.rec[q] = m.rec[q]
<1>1. /\ m \in AnyMap /\ cs \in AnyCursors /\ Linked(m) /\ Counted(m, cs) /\ Hashed(m)
      /\ m.rec \in [Records -> AnyRec] /\ r \in Records /\ ~m.rec[r].empty
  BY DEF Kept, AnyMap, Live
<1> DEFINE new == [m.rec EXCEPT ![r] = [m.rec[r] EXCEPT !.value = v]]
<1>2. /\ new \in [Records -> AnyRec]
      /\ new[r].refs = m.rec[r].refs /\ (new[r].empty <=> m.rec[r].empty)
      /\ new[r].key = m.rec[r].key /\ new[r].value = v
      /\ \A q \in Records : q # r => new[q] = m.rec[q]
  BY <1>1 DEF AnyRec
<1>3. n = [m EXCEPT !.rec = new]
  BY DEF WithValue
<1> HIDE DEF new
<1>4. /\ n \in AnyMap /\ n.list = m.list /\ n.rec = new
      /\ SameTable(n, m) /\ SameLife(n, m) /\ n.made = m.made /\ n.bad = m.bad
  BY <1>1, <1>2, <1>3 DEF AnyMap, SameTable, SameLife
<1>5. \A q \in Records : /\ n.rec[q].refs = m.rec[q].refs
                         /\ n.rec[q].empty <=> m.rec[q].empty
                         /\ n.rec[q].key = m.rec[q].key
  BY <1>2, <1>4
<1>6. Live(n) = Live(m)
  BY <1>5 DEF Live
<1>7. Linked(n)
  <2>1. Range(n.list) = {q \in Records : n.rec[q].refs > 0}
    BY <1>1, <1>4, <1>5 DEF Linked
  <2> QED
    BY <1>1, <1>4, <1>5, <2>1 DEF Linked
<1>8. Counted(n, cs)
  BY <1>1, <1>5 DEF Counted
<1>9. Hashed(n)
  <2>1. \A q \in Live(m) : q \in Records
    BY DEF Live
  <2>2. \A q \in Live(n) : n.rec[q].key \in AnyKey
    BY <1>1, <1>5, <1>6, <2>1 DEF Hashed
  <2>3. ASSUME NEW a \in 0 .. m.size - 1
        PROVE  n.table[a] = {q \in Live(n) : BucketOf(n.rec[q].key, m.size) = a}
    <3>1. m.table[a] = {q \in Live(m) : BucketOf(m.rec[q].key, m.size) = a}
      BY <1>1 DEF Hashed
    <3> QED
      BY <1>4, <1>5, <1>6, <2>1, <3>1 DEF SameTable
  <2>4. n.count = Cardinality(Live(n))
    BY <1>1, <1>4, <1>6 DEF Hashed, SameTable
  <2> QED
    BY <1>1, <1>4, <2>2, <2>3, <2>4 DEF Hashed, SameTable
<1> QED
  BY <1>1, <1>2, <1>4, <1>6, <1>7, <1>8, <1>9 DEF Kept

\* js_map_set: a new record, or a new value.
LEMMA SetStep ==
  ASSUME IInv, NEW k \in Keys, NEW v \in Values, NEW room \in BOOLEAN, js_map_set(k, v, room),
         NEW n, n = map_normalize_key(k)
  PROVE  /\ IInv'
         /\ \/ \E r \in Records :
                 /\ \A q \in Live(map) : BucketOf(map.rec[q].key, map.size) = BucketOf(n, map.size)
                                           => ~Same(map.rec[q].key, n)
                 /\ r = map.made + 1 /\ map'.made = r
                 /\ r \notin Live(map) /\ Live(map') = Live(map) \cup {r}
                 /\ map'.rec[r].key = n /\ map'.rec[r].value = v
                 /\ \A q \in Live(map) : map'.rec[q] = map.rec[q]
            \/ \E r \in Live(map) :
                 /\ Same(map.rec[r].key, n)
                 /\ map'.made = map.made /\ Live(map') = Live(map)
                 /\ map'.rec[r].key = map.rec[r].key /\ map'.rec[r].value = v
                 /\ \A q \in Live(map) : q # r => map'.rec[q] = map.rec[q]
         /\ map.held /\ map'.held /\ phase = "run" /\ UNCHANGED <<cursor, phase>>
<1>1. PICK r : r = map_find_record(map, n)
  OBVIOUS
<1>2. /\ phase = "run" /\ map.held /\ UNCHANGED <<cursor, phase>>
      /\ r = None => map.made < MaxRecords
      /\ map' = IF r = None THEN map_add_record(map, n, v, room)
                ELSE [map EXCEPT !.rec[r].value = v]
  BY <1>1 DEF js_map_set, Usable
<1>3. /\ map \in AnyMap /\ cursor \in AnyCursors /\ ~map.bad /\ ~map.freed
      /\ Kept(map, cursor) /\ Hashed(map)
  BY <1>2 DEF IInv, Over, Kept
<1>4. n \in AnyKey
  BY NormalKey
<1>5. ASSUME Kept(map', cursor), SameLife(map', map), map'.bad <=> map.bad
      PROVE  IInv' /\ map'.held
  BY <1>2, <1>3, <1>5 DEF IInv, SameLife, Kept
<1>6. \/ r \in Live(map) /\ r # None /\ Same(map.rec[r].key, n)
      \/ /\ r = None
         /\ \A q \in Live(map) : BucketOf(map.rec[q].key, map.size) = BucketOf(n, map.size)
                                   => ~Same(map.rec[q].key, n)
  BY <1>1, <1>3, <1>4, FindSound
<1>7. CASE r = None
  <2>1. map' = map_add_record(map, n, v, room) /\ map.made < MaxRecords
    BY <1>2, <1>7
  <2>2. PICK s : s = map.made + 1
    OBVIOUS
  <2>3. /\ Kept(map', cursor)
        /\ SameLife(map', map) /\ map'.made = s /\ (map'.bad <=> map.bad)
        /\ s \in Records /\ s \notin Live(map) /\ Live(map') = Live(map) \cup {s}
        /\ map'.rec[s].key = n /\ map'.rec[s].value = v
        /\ \A q \in Live(map) : map'.rec[q] = map.rec[q]
    BY <1>3, <1>4, <2>1, <2>2, AddKept
  <2>4. None \notin Live(map)
    BY MapsAssumption DEF Live, Records
  <2> QED
    BY <1>2, <1>5, <1>6, <1>7, <2>2, <2>3, <2>4
<1>8. CASE r # None
  <2>1. r \in Live(map) /\ map' = WithValue(map, r, v)
    BY <1>2, <1>6, <1>8 DEF WithValue
  <2>2. /\ Kept(map', cursor) /\ Live(map') = Live(map)
        /\ SameLife(map', map) /\ map'.made = map.made /\ (map'.bad <=> map.bad)
        /\ map'.rec[r].key = map.rec[r].key /\ map'.rec[r].value = v
        /\ \A q \in Records : q # r => map'.rec[q] = map.rec[q]
    BY <1>3, <2>1, ValueKept
  <2>3. Live(map) \subseteq Records
    BY DEF Live
  <2> QED
    BY <1>2, <1>5, <1>6, <1>8, <2>1, <2>2, <2>3
<1> QED
  BY <1>7, <1>8

\* js_map_delete: one record less.
LEMMA DeleteStep ==
  ASSUME IInv, NEW k \in Keys, js_map_delete(k), NEW n, n = map_normalize_key(k)
  PROVE  /\ IInv'
         /\ \E r \in Live(map) :
              /\ Same(map.rec[r].key, n)
              /\ Live(map') = Live(map) \ {r}
              /\ \A q \in Live(map') : map'.rec[q] = map.rec[q]
         /\ map.held /\ map'.held /\ map'.made = map.made
         /\ phase = "run" /\ UNCHANGED <<cursor, phase>>
<1>1. PICK r : r = map_find_record(map, n)
  OBVIOUS
<1>2. /\ phase = "run" /\ map.held /\ UNCHANGED <<cursor, phase>>
      /\ r # None /\ map' = map_delete_record(map, r)
  BY <1>1 DEF js_map_delete, Usable
<1>3. /\ map \in AnyMap /\ cursor \in AnyCursors /\ ~map.bad /\ ~map.freed
      /\ Kept(map, cursor) /\ Hashed(map)
  BY <1>2 DEF IInv, Over, Kept
<1>4. r \in Live(map) /\ Same(map.rec[r].key, n)
  BY <1>1, <1>2, <1>3, NormalKey, FindSound
<1>5. /\ Kept(map', cursor)
      /\ SameLife(map', map) /\ map'.made = map.made /\ (map'.bad <=> map.bad)
      /\ Live(map') = Live(map) \ {r}
      /\ \A q \in Records : q # r => map'.rec[q] = map.rec[q]
  BY <1>2, <1>3, <1>4, DeleteKept
<1>6. IInv' /\ map'.held
  BY <1>2, <1>3, <1>5 DEF IInv, SameLife, Kept
<1>7. \A q \in Live(map') : q # r /\ q \in Records
  BY <1>5 DEF Live
<1> QED
  BY <1>2, <1>4, <1>5, <1>6, <1>7

-----------------------------------------------------------------------------
(* The steps of a traversal *)

\* Only the traversals on records matter to the map.
LEMMA CursorKept ==
  ASSUME NEW m, NEW cs, Kept(m, cs), NEW ds \in AnyCursors,
         \A r \in Records : On(ds, r) = On(cs, r)
  PROVE  Kept(m, ds)
BY DEF Kept, Counted

Released(m, r) == IF r = None THEN m ELSE map_decref_record(m, r)

\* A traversal leaves the record it is on, if it is on one.
LEMMA ReleaseKept ==
  ASSUME NEW m, NEW cs, Kept(m, cs), NEW c \in Cursors, cs[c].on,
         NEW n, n = Released(m, cs[c].at),
         NEW ds, Moved(ds, cs, c, None)
  PROVE  /\ Kept(n, ds) /\ SameEntries(n, m)
         /\ SameLife(n, m) /\ n.made = m.made /\ (n.bad <=> m.bad)
<1>1. cs[c].at \in Records \/ cs[c].at = None
  BY DEF Kept, AnyCursors
<1>2. None \notin Records
  BY MapsAssumption DEF Records
<1>3. CASE cs[c].at = None
  <2>1. n = m
    BY <1>3 DEF Released
  <2>2. \A r \in Records : On(ds, r) = On(cs, r)
    BY <1>2, <1>3 DEF On, Moved
  <2>3. Kept(m, ds)
    BY <2>2, CursorKept DEF Moved
  <2> QED
    BY <2>1, <2>3 DEF SameEntries, SameLife
<1>4. CASE cs[c].at # None
  <2>1. PICK r \in Records : cs[c].at = r
    BY <1>1, <1>4
  <2>2. n = map_decref_record(m, r)
    BY <1>4, <2>1 DEF Released
  <2> QED
    BY <2>1, <2>2, LetGoKept
<1> QED
  BY <1>3, <1>4

\* A record that is not empty, or that a traversal is on, is in the list.
LEMMA InList ==
  ASSUME NEW m, NEW cs, Kept(m, cs)
  PROVE  /\ Live(m) \subseteq Range(m.list)
         /\ \A c \in Cursors : cs[c].on /\ cs[c].at # None => cs[c].at \in Range(m.list)
<1>1. \A r \in Records : Cardinality(On(cs, r)) \in Nat
  BY MapsAssumption, FS_Subset, FS_CardinalityType DEF On
<1>2. \A r \in Records : m.rec[r].refs = Cardinality(On(cs, r)) + (IF m.rec[r].empty THEN 0 ELSE 1)
  BY DEF Kept, Counted
<1>3. Range(m.list) = {r \in Records : m.rec[r].refs > 0}
  BY DEF Kept, Linked
<1>4. Live(m) \subseteq Range(m.list)
  BY <1>1, <1>2, <1>3 DEF Live
<1>5. ASSUME NEW c \in Cursors, cs[c].on, cs[c].at # None
      PROVE  cs[c].at \in Range(m.list)
  <2>1. PICK r \in Records : cs[c].at = r
    BY <1>5 DEF Kept, AnyCursors
  <2>2. c \in On(cs, r) /\ IsFiniteSet(On(cs, r))
    BY <1>5, <2>1, MapsAssumption, FS_Subset DEF On
  <2>3. Cardinality(On(cs, r)) # 0
    BY <2>2, FS_EmptySet
  <2>4. Cardinality(On(cs, r)) > 0
    BY <1>1, <2>3
  <2>5. m.rec[r].refs > 0
    BY <1>1, <1>2, <2>4
  <2> QED
    BY <1>3, <2>1, <2>5
<1> QED
  BY <1>4, <1>5

\* Following the links from a record to the first one that is not empty, or
\* to the end of the list, gets to the record with the next number.
LEMMA NextRecord ==
  ASSUME NEW m, NEW cs, Kept(m, cs), NEW r, r = None \/ r \in Range(m.list),
         NEW ahead, ahead = Ahead(m, Place(m, r))
  PROVE  /\ ahead = {} => \A q \in Live(m) : ~(q > At(r))
         /\ ahead # {} => /\ m.list[Min(ahead)] \in Live(m) /\ m.list[Min(ahead)] > At(r)
                          /\ \A q \in Live(m) : q > At(r) => m.list[Min(ahead)] <= q
<1>1. PICK l : l = m.list
  OBVIOUS
<1>2. PICK i : i = Place(m, r)
  OBVIOUS
<1>3. PICK n \in Nat : n = Len(l)
  <2>1. l \in Seq(Records)
    BY <1>1 DEF Kept, AnyMap
  <2> QED
    BY <2>1
<1>4. DOMAIN l = 1 .. n /\ \A j \in 1 .. n : l[j] \in Records /\ l[j] \in Nat
  <2>1. l \in Seq(Records)
    BY <1>1 DEF Kept, AnyMap
  <2>2. Records \subseteq Nat
    BY MapsAssumption DEF Records
  <2>3. DOMAIN l = 1 .. n
    BY <1>3, <2>1
  <2>4. \A j \in 1 .. n : l[j] \in Records
    BY <2>1, <2>3
  <2> QED
    BY <2>2, <2>3, <2>4
<1>5. \A j, k \in 1 .. n : j < k => l[j] < l[k]
  BY <1>1, <1>3 DEF Kept, Linked, Ordered
<1>6. /\ i \in 0 .. n /\ (i = 0 => At(r) = 0) /\ (i # 0 => l[i] = At(r))
  <2>1. CASE r = None
    BY <1>2, <1>3, <2>1 DEF Place, At
  <2>2. CASE r # None
    BY <1>1, <1>2, <1>3, <2>2, PlaceOf DEF At, Kept
  <2> QED
    BY <2>1, <2>2
<1>7. ahead = {j \in 1 .. n : j > i /\ ~m.rec[l[j]].empty}
  BY <1>1, <1>2, <1>4 DEF Ahead
<1>8. \A j \in 1 .. n : j > i <=> l[j] > At(r)
  <2> SUFFICES ASSUME NEW j \in 1 .. n PROVE j > i <=> l[j] > At(r)
    OBVIOUS
  <2>1. CASE i = 0
    <3>1. l[j] > 0
      BY <1>4, MapsAssumption DEF Records
    <3> QED
      BY <1>6, <2>1, <3>1
  <2>2. CASE i # 0
    <3>1. i \in 1 .. n /\ l[i] = At(r) /\ l[i] \in Nat /\ l[j] \in Nat
      BY <1>4, <1>6, <2>2
    <3>2. (i < j => l[i] < l[j]) /\ (j < i => l[j] < l[i])
      BY <1>5, <3>1
    <3>3. j = i => l[j] = l[i]
      OBVIOUS
    <3> QED
      BY <3>1, <3>2, <3>3
  <2> QED
    BY <2>1, <2>2
<1>9. ASSUME NEW q \in Live(m), q > At(r)
      PROVE  \E j \in ahead : l[j] = q
  <2>1. PICK j \in 1 .. n : l[j] = q
    BY <1>1, <1>4, InList DEF Range
  <2>2. ~m.rec[q].empty
    BY DEF Live
  <2> QED
    BY <1>7, <1>8, <1>9, <2>1, <2>2
<1>10. CASE ahead = {}
  BY <1>9, <1>10
<1>11. CASE ahead # {}
  <2>1. PICK x : x = Min(ahead)
    OBVIOUS
  <2>2. x \in ahead /\ \A y \in ahead : x <= y
    <3>1. ahead \subseteq Nat
      BY <1>7
    <3> QED
      BY <1>11, <2>1, <3>1, MinNat
  <2>3. x \in 1 .. n /\ l[x] \in Live(m) /\ l[x] > At(r)
    BY <1>4, <1>7, <1>8, <2>2 DEF Live
  <2>4. ASSUME NEW q \in Live(m), q > At(r)
        PROVE  l[x] <= q
    <3>1. PICK j \in ahead : l[j] = q
      BY <1>9, <2>4
    <3>2. j \in 1 .. n /\ x <= j /\ l[j] \in Nat /\ l[x] \in Nat
      BY <1>4, <1>7, <2>2, <2>3
    <3>3. x < j => l[x] < l[j]
      BY <1>5, <2>3, <3>2
    <3>4. x = j => l[x] = l[j]
      OBVIOUS
    <3> QED
      BY <2>3, <3>1, <3>2, <3>3, <3>4
  <2> QED
    BY <1>1, <1>11, <2>1, <2>3, <2>4
<1> QED
  BY <1>10, <1>11

\* The map goes when nothing refers to it any more.
LEMMA SettleStep ==
  ASSUME phase = "run", phase' = phase,
         NEW m, NEW cs, Kept(m, cs), ~m.bad, ~m.freed, Settle(m, cs)
  PROVE  /\ IInv' /\ cursor' = cs
         /\ map'.held <=> m.held
         /\ map'.made = m.made
         /\ \/ map' = m
            \/ ~m.held /\ Live(map') = {} /\ \A c \in Cursors : ~cs[c].on
<1>1. /\ map' = IF m.held \/ \E c \in Cursors : cs[c].on THEN m ELSE js_map_finalizer(m)
      /\ cursor' = cs /\ m \in AnyMap /\ cs \in AnyCursors
  BY DEF Settle, Kept
<1>2. CASE m.held \/ \E c \in Cursors : cs[c].on
  <2>1. map' = m
    BY <1>1, <1>2
  <2> QED
    BY <1>1, <2>1 DEF IInv
<1>3. CASE ~(m.held \/ \E c \in Cursors : cs[c].on)
  <2>1. map' = js_map_finalizer(m)
    BY <1>1, <1>3
  <2>2. /\ map' \in AnyMap /\ ~map'.held /\ map'.freed /\ Live(map') = {}
        /\ map'.made = m.made /\ (map'.bad <=> m.bad)
    BY <1>1, <2>1, Finalized
  <2>3. Over'
    BY <1>1, <1>3, <2>2 DEF Over, Live
  <2> QED
    BY <1>1, <1>3, <2>2, <2>3 DEF IInv
<1> QED
  BY <1>2, <1>3

\* js_create_map_iterator.
LEMMA BeginStep ==
  ASSUME IInv, NEW c \in Cursors, Begin(c)
  PROVE  IInv'
<1>1. /\ phase = "run" /\ map.held /\ map' = map /\ phase' = phase /\ ~cursor[c].on
      /\ cursor' = [cursor EXCEPT ![c] = [on |-> TRUE, at |-> None]]
  BY DEF Begin, Usable
<1>2. ~map.freed /\ Kept(map, cursor) /\ cursor \in AnyCursors
  BY <1>1 DEF IInv, Over
<1>3. None \notin Records
  BY MapsAssumption DEF Records
<1>4. cursor' \in AnyCursors
  BY <1>1, <1>2 DEF AnyCursors
<1>5. \A r \in Records : On(cursor', r) = On(cursor, r)
  BY <1>1, <1>2, <1>3 DEF On, AnyCursors
<1>6. Kept(map', cursor')
  BY <1>1, <1>2, <1>4, <1>5, CursorKept
<1> QED
  BY <1>1, <1>2, <1>4, <1>6 DEF IInv

\* A traversal that goes on to its next record, or lets go of the map.
LEMMA AdvanceStep ==
  ASSUME IInv, NEW c \in Cursors, Advance(c),
         NEW place, place = At(cursor[c].at)
  PROVE  /\ IInv'
         /\ phase = "run" /\ phase' = "run" /\ cursor[c].on
         /\ map'.held <=> map.held
         /\ map'.made = map.made
         /\ \/ /\ SameEntries(map', map)
               /\ \/ /\ cursor' = [cursor EXCEPT ![c] = Idle]
                     /\ \A q \in Live(map) : ~(q > place)
                  \/ \E next \in Live(map) :
                       /\ next > place /\ \A q \in Live(map) : q > place => next <= q
                       /\ cursor' = [cursor EXCEPT ![c].at = next]
            \/ ~map.held /\ Live(map') = {} /\ \A d \in Cursors : ~cursor'[d].on
<1>1. PICK r : r = cursor[c].at
  OBVIOUS
<1>2. PICK m : m = Released(map, r)
  OBVIOUS
<1>3. PICK ahead : ahead = Ahead(map, Place(map, r))
  OBVIOUS
<1>4. /\ phase = "run" /\ cursor[c].on /\ phase' = phase
      /\ IF ahead = {}
         THEN Settle(m, [cursor EXCEPT ![c] = Idle])
         ELSE Settle([m EXCEPT !.rec[map.list[Min(ahead)]].refs = @ + 1],
                     [cursor EXCEPT ![c].at = map.list[Min(ahead)]])
  BY <1>1, <1>2, <1>3 DEF Advance, Released
<1>5. ~map.freed /\ Kept(map, cursor) /\ cursor \in AnyCursors /\ ~map.bad
  BY <1>4 DEF IInv, Over
<1>6. r = None \/ r \in Range(map.list)
  BY <1>1, <1>4, <1>5, InList
<1>7. /\ ahead = {} => \A q \in Live(map) : ~(q > place)
      /\ ahead # {} => /\ map.list[Min(ahead)] \in Live(map) /\ map.list[Min(ahead)] > place
                       /\ \A q \in Live(map) : q > place => map.list[Min(ahead)] <= q
  BY <1>1, <1>3, <1>5, <1>6, NextRecord
<1>8. CASE ahead = {}
  <2>1. PICK ds : ds = [cursor EXCEPT ![c] = Idle]
    OBVIOUS
  <2>2. Moved(ds, cursor, c, None)
    BY <1>5, <2>1 DEF Moved, AnyCursors, Idle
  <2>3. /\ Kept(m, ds) /\ SameEntries(m, map)
        /\ SameLife(m, map) /\ m.made = map.made /\ (m.bad <=> map.bad)
    BY <1>1, <1>2, <1>4, <1>5, <2>2, ReleaseKept
  <2>4. Settle(m, ds) /\ ~m.bad /\ ~m.freed /\ (m.held <=> map.held)
    BY <1>4, <1>5, <1>8, <2>1, <2>3 DEF SameLife
  <2>5. /\ IInv' /\ cursor' = ds
        /\ map'.held <=> m.held
        /\ map'.made = m.made
        /\ \/ map' = m
           \/ ~m.held /\ Live(map') = {} /\ \A d \in Cursors : ~ds[d].on
    BY <1>4, <2>3, <2>4, SettleStep
  <2> QED
    BY <1>4, <1>7, <1>8, <2>1, <2>3, <2>4, <2>5
<1>9. CASE ahead # {}
  <2>1. PICK next \in Live(map) :
          /\ next = map.list[Min(ahead)]
          /\ next > place /\ \A q \in Live(map) : q > place => next <= q
    BY <1>7, <1>9
  <2>2. PICK es : es = [cursor EXCEPT ![c].at = None]
    OBVIOUS
  <2>3. Moved(es, cursor, c, None) /\ es[c].on
    BY <1>4, <1>5, <2>2 DEF Moved, AnyCursors
  <2>4. /\ Kept(m, es) /\ SameEntries(m, map)
        /\ SameLife(m, map) /\ m.made = map.made /\ (m.bad <=> map.bad)
    BY <1>1, <1>2, <1>4, <1>5, <2>3, ReleaseKept
  <2>5. PICK ds : ds = [cursor EXCEPT ![c].at = next]
    OBVIOUS
  <2>6. next \in Live(m) /\ next \in Records /\ es[c].at = None
    BY <2>1, <2>3, <2>4 DEF SameEntries, Live, Moved
  <2>7. Moved(ds, es, c, next) /\ ds[c].on
    BY <1>4, <1>5, <2>2, <2>5, <2>6 DEF Moved, AnyCursors
  <2>8. PICK n : n = Locked(m, next)
    OBVIOUS
  <2>9. /\ Kept(n, ds) /\ SameEntries(n, m)
        /\ SameLife(n, m) /\ n.made = m.made /\ (n.bad <=> m.bad)
    BY <2>3, <2>4, <2>6, <2>7, <2>8, LockKept
  <2>10. Settle(n, ds)
    BY <1>4, <1>9, <2>1, <2>5, <2>8 DEF Locked
  <2>11. ~n.bad /\ ~n.freed /\ (n.held <=> map.held)
    BY <1>5, <2>4, <2>9 DEF SameLife
  <2>12. /\ IInv' /\ cursor' = ds
         /\ map'.held <=> n.held
         /\ map'.made = n.made
         /\ \/ map' = n
            \/ ~n.held /\ Live(map') = {} /\ \A d \in Cursors : ~ds[d].on
    BY <1>4, <2>9, <2>10, <2>11, SettleStep
  <2>13. SameEntries(n, map)
    BY <2>4, <2>9 DEF SameEntries
  <2> QED
    BY <1>4, <2>1, <2>4, <2>5, <2>7, <2>9, <2>11, <2>12, <2>13
<1> QED
  BY <1>8, <1>9

\* A traversal is given up.
LEMMA LeaveStep ==
  ASSUME IInv, NEW c \in Cursors, Leave(c)
  PROVE  /\ IInv'
         /\ phase = "run" /\ phase' = "run"
         /\ map'.held <=> map.held
         /\ map'.made = map.made
         /\ cursor' = [cursor EXCEPT ![c] = Idle]
         /\ \/ SameEntries(map', map)
            \/ ~map.held /\ Live(map') = {} /\ \A d \in Cursors : ~cursor'[d].on
<1>1. PICK ds : ds = [cursor EXCEPT ![c] = Idle]
  OBVIOUS
<1>2. PICK m : m = Released(map, cursor[c].at)
  OBVIOUS
<1>3. phase = "run" /\ cursor[c].on /\ phase' = phase /\ Settle(LetGo(c), ds)
  BY <1>1 DEF Leave
<1>4. ~map.freed /\ Kept(map, cursor) /\ cursor \in AnyCursors /\ ~map.bad
  BY <1>3 DEF IInv, Over
<1>5. m = LetGo(c)
  BY <1>2, <1>4 DEF LetGo, Released
<1>6. Moved(ds, cursor, c, None)
  BY <1>1, <1>4 DEF Moved, AnyCursors, Idle
<1>7. /\ Kept(m, ds) /\ SameEntries(m, map)
      /\ SameLife(m, map) /\ m.made = map.made /\ (m.bad <=> map.bad)
  BY <1>2, <1>3, <1>4, <1>6, ReleaseKept
<1>8. Settle(m, ds) /\ ~m.bad /\ ~m.freed /\ (m.held <=> map.held)
  BY <1>3, <1>4, <1>5, <1>7 DEF SameLife
<1>9. /\ IInv' /\ cursor' = ds
      /\ map'.held <=> m.held
      /\ map'.made = m.made
      /\ \/ map' = m
         \/ ~m.held /\ Live(map') = {} /\ \A d \in Cursors : ~ds[d].on
  BY <1>3, <1>7, <1>8, SettleStep
<1> QED
  BY <1>1, <1>3, <1>7, <1>8, <1>9

-----------------------------------------------------------------------------
(* The loop of js_map_clear *)

\* The place of the loop is no part of the map.
LEMMA LoopKept ==
  ASSUME NEW m, NEW cs, Kept(m, cs), NEW e \in Records \cup {None},
         NEW n, n = [m EXCEPT !.el = e]
  PROVE  /\ Kept(n, cs) /\ n.el = e /\ n.rec = m.rec /\ n.list = m.list /\ Live(n) = Live(m)
         /\ n.made = m.made
         /\ (n.held <=> m.held) /\ (n.freed <=> m.freed) /\ (n.bad <=> m.bad)
<1>1. m \in AnyMap /\ cs \in AnyCursors /\ Linked(m) /\ Counted(m, cs) /\ Hashed(m)
  BY DEF Kept
<1>2. /\ n \in AnyMap /\ n.el = e /\ n.rec = m.rec /\ n.list = m.list /\ n.made = m.made
      /\ n.held = m.held /\ n.freed = m.freed /\ n.bad = m.bad /\ SameTable(n, m)
  BY <1>1 DEF AnyMap, SameTable
<1>3. Live(n) = Live(m)
  BY <1>2 DEF Live
<1>4. Hashed(n)
  BY <1>1, <1>2, <1>3, HashedSame DEF SameEntries
<1>5. Linked(n) /\ Counted(n, cs)
  BY <1>1, <1>2 DEF Linked, Counted
<1> QED
  BY <1>1, <1>2, <1>3, <1>4, <1>5 DEF Kept

\* js_map_clear sets out from the first record.
LEMMA ClearStep ==
  ASSUME IInv, js_map_clear
  PROVE  /\ IInv'
         /\ phase = "run" /\ phase' = "clear" /\ map.held /\ map'.held
         /\ map'.made = map.made /\ cursor' = cursor
<1>1. PICK l : l = map.list
  OBVIOUS
<1>2. /\ phase = "run" /\ map.held /\ l # <<>> /\ map' = [map EXCEPT !.el = l[1]]
      /\ phase' = "clear" /\ cursor' = cursor
  BY <1>1 DEF js_map_clear, Usable
<1>3. ~map.freed /\ Kept(map, cursor) /\ cursor \in AnyCursors /\ ~map.bad
  BY <1>2 DEF IInv, Over
<1>4. l \in Seq(Records)
  BY <1>1, <1>3 DEF Kept, AnyMap
<1>5. PICK n \in Nat : n = Len(l) /\ n > 0
  BY <1>2, <1>4
<1>6. l[1] \in Records /\ DOMAIN l = 1 .. n /\ l[1] \in Range(l)
  BY <1>4, <1>5 DEF Range
<1>7. \A j \in 1 .. n : l[j] >= l[1]
  <2> SUFFICES ASSUME NEW j \in 1 .. n PROVE l[j] >= l[1]
    OBVIOUS
  <2>1. l[j] \in Records /\ l[1] \in Records
    BY <1>4, <1>6
  <2>2. l[j] \in Nat /\ l[1] \in Nat
    BY <2>1, MapsAssumption DEF Records
  <2>3. 1 < j => l[1] < l[j]
    BY <1>1, <1>3, <1>5 DEF Kept, Linked, Ordered
  <2> QED
    BY <2>2, <2>3
<1>8. \A r \in Live(map) : r >= l[1]
  BY <1>1, <1>3, <1>6, <1>7, InList DEF Range
<1>9. PICK e \in Records \cup {None} : e = l[1]
  BY <1>6
<1>10. map' = [map EXCEPT !.el = e]
  BY <1>2, <1>9
<1>11. /\ Kept(map', cursor) /\ map'.el = e /\ map'.rec = map.rec /\ map'.list = map.list
       /\ Live(map') = Live(map) /\ map'.made = map.made
       /\ (map'.held <=> map.held) /\ (map'.freed <=> map.freed) /\ (map'.bad <=> map.bad)
  BY <1>3, <1>10, LoopKept
<1>12. Clearing'
  <2>1. map'.held /\ map'.el \in Range(map'.list) /\ \A r \in Live(map') : r >= map'.el
    BY <1>1, <1>2, <1>6, <1>8, <1>9, <1>11
  <2> QED
    BY <2>1 DEF Clearing, Live
<1> QED
  BY <1>2, <1>3, <1>11, <1>12 DEF IInv, Kept

\* What is left when record el of the list has been deleted: the records that
\* come after it, none when it is the last one.
LEMMA AfterTurn ==
  ASSUME NEW m, NEW cs, Kept(m, cs), NEW e \in Range(m.list), \A r \in Live(m) : r >= e,
         NEW i, i = Place(m, e)
  PROVE  /\ i \in 1 .. Len(m.list) /\ m.list[i] = e
         /\ i = Len(m.list) => \A r \in Live(m) : r = e
         /\ i # Len(m.list) => /\ m.list[i + 1] \in Range(m.list) /\ m.list[i + 1] # e
                               /\ \A r \in Live(m) : r = e \/ r >= m.list[i + 1]
<1>1. PICK l : l = m.list
  OBVIOUS
<1>2. l \in Seq(Records)
  BY <1>1 DEF Kept, AnyMap
<1>3. PICK n \in Nat : n = Len(l)
  BY <1>2
<1>4. DOMAIN l = 1 .. n
  BY <1>2, <1>3
<1>5. \A j \in 1 .. n : l[j] \in Nat
  <2>1. \A j \in 1 .. n : l[j] \in Records
    BY <1>2, <1>4
  <2> QED
    BY <2>1, MapsAssumption DEF Records
<1>6. \A j, k \in 1 .. n : j < k => l[j] < l[k]
  BY <1>1, <1>3 DEF Kept, Linked, Ordered
<1>7. i \in 1 .. n /\ l[i] = e
  BY <1>1, <1>3, PlaceOf DEF Kept
<1>8. ASSUME NEW r \in Live(m), r # e
      PROVE  i < n /\ r >= l[i + 1]
  <2>1. PICK j \in 1 .. n : l[j] = r
    BY <1>1, <1>4, InList DEF Range
  <2>2. r >= e /\ l[j] \in Nat /\ l[i] \in Nat
    BY <1>5, <1>7
  <2>3. ~(j < i)
    BY <1>6, <1>7, <2>1, <2>2
  <2>4. j # i
    BY <1>7, <1>8, <2>1
  <2>5. i < n /\ i + 1 \in 1 .. n /\ i + 1 <= j
    BY <1>7, <2>3, <2>4
  <2>6. l[i + 1] \in Nat /\ (i + 1 < j => l[i + 1] < l[j])
    BY <1>5, <1>6, <2>5
  <2>7. i + 1 = j => l[i + 1] = l[j]
    OBVIOUS
  <2> QED
    BY <2>1, <2>2, <2>5, <2>6, <2>7
<1>9. ASSUME i # n
      PROVE  l[i + 1] \in Range(l) /\ l[i + 1] # e
  <2>1. i + 1 \in 1 .. n /\ i < i + 1
    BY <1>7, <1>9
  <2>2. l[i] < l[i + 1] /\ l[i] \in Nat /\ l[i + 1] \in Nat
    BY <1>5, <1>6, <1>7, <2>1
  <2>3. l[i + 1] \in Range(l)
    BY <1>4, <2>1 DEF Range
  <2> QED
    BY <1>7, <2>2, <2>3
<1> QED
  BY <1>1, <1>3, <1>7, <1>8, <1>9

\* A turn: the next record is read before this one goes, and is still in the
\* list after it; after the last one no record is left.
LEMMA TurnStep ==
  ASSUME IInv, ClearTurn
  PROVE  /\ IInv'
         /\ phase = "clear" /\ map.held /\ map'.held
         /\ map'.made = map.made /\ cursor' = cursor
         /\ phase' = "clear" \/ (phase' = "run" /\ Live(map') = {})
         /\ \A q \in Live(map') : q \in Live(map) /\ map'.rec[q] = map.rec[q]
<1>1. PICK e : e = map.el
  OBVIOUS
<1>2. PICK i : i = Place(map, e)
  OBVIOUS
<1>3. PICK o : o = map_delete_record(map, e)
  OBVIOUS
<1>4. PICK next : next = IF i = Len(map.list) THEN None ELSE map.list[i + 1]
  OBVIOUS
<1>5. /\ phase = "clear" /\ map' = [o EXCEPT !.el = next]
      /\ phase' = (IF i = Len(map.list) THEN "run" ELSE "clear") /\ cursor' = cursor
  BY <1>1, <1>2, <1>3, <1>4 DEF ClearTurn
<1>6. map.held /\ e \in Range(map.list) /\ \A r \in Live(map) : r >= e
  BY <1>1, <1>5 DEF IInv, Clearing
<1>7. ~map.freed /\ Kept(map, cursor) /\ cursor \in AnyCursors /\ ~map.bad
  BY <1>6 DEF IInv, Over
<1>8. /\ i \in 1 .. Len(map.list) /\ map.list[i] = e
      /\ i = Len(map.list) => \A r \in Live(map) : r = e
      /\ i # Len(map.list) => /\ map.list[i + 1] \in Range(map.list) /\ map.list[i + 1] # e
                              /\ \A r \in Live(map) : r = e \/ r >= map.list[i + 1]
  BY <1>2, <1>6, <1>7, AfterTurn
<1>9. Range(map.list) = {r \in Records : map.rec[r].refs > 0}
  BY <1>7 DEF Kept, Linked
<1>10. /\ Kept(o, cursor) /\ Live(o) = Live(map) \ {e}
       /\ (o.held <=> map.held) /\ (o.freed <=> map.freed) /\ (o.bad <=> map.bad)
       /\ o.made = map.made
       /\ \A q \in Records : q # e => o.rec[q] = map.rec[q]
  <2>1. CASE e \in Live(map)
    BY <1>3, <1>7, <2>1, DeleteKept DEF SameLife
  <2>2. CASE e \notin Live(map)
    <3>1. o = map
      BY <1>3, <1>6, <1>9, <2>2 DEF map_delete_record, Live
    <3> QED
      BY <1>7, <2>2, <3>1
  <2> QED
    BY <2>1, <2>2
<1>11. next \in Records \cup {None}
  BY <1>4, <1>8, <1>9
<1>12. /\ Kept(map', cursor) /\ map'.el = next /\ map'.rec = o.rec /\ map'.list = o.list
       /\ Live(map') = Live(o) /\ map'.made = o.made
       /\ (map'.held <=> o.held) /\ (map'.freed <=> o.freed) /\ (map'.bad <=> o.bad)
  BY <1>5, <1>10, <1>11, LoopKept
<1>13. \A q \in Live(map') : q \in Live(map) /\ map'.rec[q] = map.rec[q]
  BY <1>10, <1>12 DEF Live
<1>14. CASE i = Len(map.list)
  <2>1. phase' = "run" /\ Live(map') = {}
    BY <1>5, <1>8, <1>10, <1>12, <1>14
  <2> QED
    BY <1>5, <1>6, <1>7, <1>10, <1>12, <1>13, <2>1 DEF IInv, Kept
<1>15. CASE i # Len(map.list)
  <2>1. phase' = "clear" /\ next \in Range(map.list) /\ next # e
        /\ \A r \in Live(map') : r >= next
    BY <1>4, <1>5, <1>8, <1>10, <1>12, <1>15
  <2>2. o.rec[next] = map.rec[next] /\ next \in Records /\ map.rec[next].refs > 0
    BY <1>9, <1>10, <2>1
  <2>3. Range(o.list) = {r \in Records : o.rec[r].refs > 0}
    BY <1>10 DEF Kept, Linked
  <2>4. next \in Range(map'.list)
    BY <1>12, <2>2, <2>3
  <2>5. Clearing'
    <3>1. map'.held /\ map'.el \in Range(map'.list) /\ \A r \in Live(map') : r >= map'.el
      BY <1>6, <1>10, <1>12, <2>1, <2>4
    <3> QED
      BY <3>1 DEF Clearing, Live
  <2> QED
    BY <1>5, <1>6, <1>7, <1>10, <1>12, <1>13, <2>1, <2>5 DEF IInv, Kept
<1> QED
  BY <1>14, <1>15

-----------------------------------------------------------------------------
(* The end of a map *)

\* Who refers to the map is no part of its records.
LEMMA DropKept ==
  ASSUME NEW m, NEW cs, Kept(m, cs), NEW n, n = [m EXCEPT !.held = FALSE]
  PROVE  /\ Kept(n, cs) /\ SameEntries(n, m) /\ ~n.held /\ n.made = m.made
         /\ (n.freed <=> m.freed) /\ (n.bad <=> m.bad)
<1>1. m \in AnyMap /\ cs \in AnyCursors /\ Linked(m) /\ Counted(m, cs) /\ Hashed(m)
  BY DEF Kept
<1>2. /\ n \in AnyMap /\ n.rec = m.rec /\ n.list = m.list /\ n.made = m.made
      /\ ~n.held /\ n.freed = m.freed /\ n.bad = m.bad /\ SameTable(n, m)
  BY <1>1 DEF AnyMap, SameTable
<1>3. SameEntries(n, m)
  BY <1>2 DEF Live, SameEntries
<1>4. Hashed(n)
  BY <1>1, <1>2, <1>3, HashedSame
<1>5. Linked(n) /\ Counted(n, cs)
  BY <1>1, <1>2 DEF Linked, Counted
<1> QED
  BY <1>1, <1>2, <1>3, <1>4, <1>5 DEF Kept

\* The script drops the map.
LEMMA DropStep ==
  ASSUME IInv, Drop
  PROVE  /\ IInv'
         /\ phase = "run" /\ phase' = "run" /\ ~map'.held /\ map'.made = map.made
         /\ cursor' = cursor
         /\ SameEntries(map', map) \/ Live(map') = {}
<1>1. PICK m : m = [map EXCEPT !.held = FALSE]
  OBVIOUS
<1>2. phase = "run" /\ map.held /\ phase' = phase /\ Settle(m, cursor)
  BY <1>1 DEF Drop, Usable
<1>3. ~map.freed /\ Kept(map, cursor) /\ ~map.bad
  BY <1>2 DEF IInv, Over
<1>4. /\ Kept(m, cursor) /\ SameEntries(m, map) /\ ~m.held /\ m.made = map.made
      /\ (m.freed <=> map.freed) /\ (m.bad <=> map.bad)
  BY <1>1, <1>3, DropKept
<1>5. /\ IInv' /\ cursor' = cursor
      /\ map'.held <=> m.held
      /\ map'.made = m.made
      /\ \/ map' = m
         \/ ~m.held /\ Live(map') = {} /\ \A c \in Cursors : ~cursor[c].on
  BY <1>2, <1>3, <1>4, SettleStep
<1> QED
  BY <1>2, <1>4, <1>5

\* A new map takes the place of one that is gone.
LEMMA RenewStep ==
  ASSUME IInv, js_map_constructor
  PROVE  /\ IInv'
         /\ phase = "run" /\ phase' = "run" /\ ~map.held /\ map'.held
         /\ Live(map) = {} /\ Live(map') = {} /\ map'.made = 0
         /\ cursor' = cursor /\ \A c \in Cursors : ~cursor[c].on
<1>1. /\ phase = "run" /\ map.freed /\ map' = [Empty EXCEPT !.bad = map.bad]
      /\ cursor' = cursor /\ phase' = phase
  BY DEF js_map_constructor
<1>2. /\ Over /\ map.bad = FALSE /\ cursor \in AnyCursors
  BY <1>1 DEF IInv, AnyMap
<1>3. \A c \in Cursors : ~cursor[c].on
  BY <1>1, <1>2 DEF Over
<1>4. map' = Empty
  BY <1>1, <1>2 DEF Empty
<1>5. /\ Kept(map', cursor) /\ Live(map') = {} /\ map'.held /\ ~map'.freed /\ ~map'.bad
      /\ map'.made = 0
  BY <1>2, <1>3, <1>4, EmptyKept
<1> QED
  BY <1>1, <1>2, <1>3, <1>5 DEF IInv, Over, Kept

\* The collector has found the map and its iterators unreachable.
LEMMA SweepStep ==
  ASSUME IInv, Sweep
  PROVE  /\ IInv'
         /\ phase = "run" /\ phase' = "sweep" /\ ~map'.held /\ map'.made = map.made
         /\ cursor' = cursor /\ SameEntries(map', map)
<1>1. /\ phase = "run" /\ ~map.freed /\ map' = [map EXCEPT !.held = FALSE]
      /\ phase' = "sweep" /\ cursor' = cursor
  BY DEF Sweep
<1>2. Kept(map, cursor) /\ ~map.bad
  BY <1>1 DEF IInv
<1>3. /\ Kept(map', cursor) /\ SameEntries(map', map) /\ ~map'.held /\ map'.made = map.made
      /\ (map'.freed <=> map.freed) /\ (map'.bad <=> map.bad)
  BY <1>1, <1>2, DropKept
<1> QED
  BY <1>1, <1>2, <1>3 DEF IInv, Kept

\* The collector finalizes the map, maybe before iterators that are on it.
LEMMA SweepMapStep ==
  ASSUME IInv, SweepMap
  PROVE  /\ IInv'
         /\ phase = "sweep" /\ phase' \in {"sweep", "run"}
         /\ ~map.held /\ ~map'.held /\ map'.made = map.made
         /\ cursor' = cursor /\ Live(map') = {}
<1>1. /\ phase = "sweep" /\ map' = js_map_finalizer(map) /\ cursor' = cursor
      /\ phase' = IF \E c \in Cursors : cursor[c].on THEN "sweep" ELSE "run"
  BY DEF SweepMap
<1>2. map \in AnyMap /\ ~map.bad /\ cursor \in AnyCursors /\ ~map.held
  BY <1>1 DEF IInv
<1>3. /\ map' \in AnyMap /\ ~map'.held /\ map'.freed /\ Live(map') = {}
      /\ map'.made = map.made /\ (map'.bad <=> map.bad)
  BY <1>1, <1>2, Finalized
<1>4. phase' \in {"sweep", "run"} /\ (phase' = "run" => \A c \in Cursors : ~cursor[c].on)
  BY <1>1
<1>5. Over'
  BY <1>1, <1>3, <1>4 DEF Over, Live
<1> QED
  BY <1>1, <1>2, <1>3, <1>4, <1>5 DEF IInv

\* The collector finalizes an iterator, maybe after the map it is on.
LEMMA SweepIteratorStep ==
  ASSUME IInv, NEW c \in Cursors, SweepIterator(c)
  PROVE  /\ IInv'
         /\ phase = "sweep" /\ phase' \in {"sweep", "run"}
         /\ ~map.held /\ ~map'.held /\ map'.made = map.made
         /\ cursor' = [cursor EXCEPT ![c] = Idle] /\ SameEntries(map', map)
<1>1. /\ phase = "sweep" /\ cursor[c].on /\ map' = LetGo(c)
      /\ cursor' = [cursor EXCEPT ![c] = Idle]
      /\ phase' = IF map.freed /\ \A d \in Cursors \ {c} : ~cursor[d].on THEN "run" ELSE "sweep"
  BY DEF SweepIterator
<1>2. map \in AnyMap /\ ~map.bad /\ cursor \in AnyCursors /\ ~map.held
  BY <1>1 DEF IInv
<1>3. Moved(cursor', cursor, c, None) /\ cursor' \in AnyCursors /\ ~cursor'[c].on
  BY <1>1, <1>2 DEF Moved, AnyCursors, Idle
<1>4. CASE map.freed
  <2>1. map' = map /\ Over
    BY <1>1, <1>4 DEF LetGo, IInv
  <2>2. phase' \in {"sweep", "run"}
    BY <1>1
  <2>3. phase' = "run" => \A d \in Cursors : ~cursor'[d].on
    BY <1>1, <1>3 DEF Moved
  <2>4. Over'
    BY <2>1, <2>3 DEF Over, Live
  <2> QED
    BY <1>1, <1>2, <1>3, <1>4, <2>1, <2>2, <2>4 DEF IInv, SameEntries
<1>5. CASE ~map.freed
  <2>1. map' = Released(map, cursor[c].at) /\ phase' = "sweep"
    BY <1>1, <1>5 DEF LetGo, Released
  <2>2. Kept(map, cursor)
    BY <1>5 DEF IInv
  <2>3. /\ Kept(map', cursor') /\ SameEntries(map', map)
        /\ SameLife(map', map) /\ map'.made = map.made /\ (map'.bad <=> map.bad)
    BY <1>1, <1>3, <2>1, <2>2, ReleaseKept
  <2> QED
    BY <1>1, <1>2, <1>5, <2>1, <2>3 DEF IInv, Kept, SameLife
<1> QED
  BY <1>4, <1>5

-----------------------------------------------------------------------------
(* The invariants *)

\* Every step keeps the map sound.
LEMMA NextIInv == IInv /\ [Next]_vars => IInv'
<1> SUFFICES ASSUME IInv, [Next]_vars PROVE IInv'
  OBVIOUS
<1>1. ASSUME NEW k \in Keys, NEW v \in Values, NEW room \in BOOLEAN, js_map_set(k, v, room)
      PROVE  IInv'
  BY <1>1, SetStep
<1>2. ASSUME NEW k \in Keys, js_map_delete(k)
      PROVE  IInv'
  BY <1>2, DeleteStep
<1>3. CASE js_map_clear
  BY <1>3, ClearStep
<1>4. CASE ClearTurn
  BY <1>4, TurnStep
<1>5. ASSUME NEW c \in Cursors, Begin(c)
      PROVE  IInv'
  BY <1>5, BeginStep
<1>6. ASSUME NEW c \in Cursors, Advance(c)
      PROVE  IInv'
  BY <1>6, AdvanceStep
<1>7. ASSUME NEW c \in Cursors, Leave(c)
      PROVE  IInv'
  BY <1>7, LeaveStep
<1>8. CASE Drop
  BY <1>8, DropStep
<1>9. CASE js_map_constructor
  BY <1>9, RenewStep
<1>10. CASE Sweep
  BY <1>10, SweepStep
<1>11. CASE SweepMap
  BY <1>11, SweepMapStep
<1>12. ASSUME NEW c \in Cursors, SweepIterator(c)
       PROVE  IInv'
  BY <1>12, SweepIteratorStep
<1>13. CASE UNCHANGED vars
  <2>1. map' = map /\ cursor' = cursor /\ phase' = phase
    BY <1>13 DEF vars
  <2> QED
    BY <2>1 DEF IInv, Over, Clearing, Live
<1> QED
  BY <1>1, <1>2, <1>3, <1>4, <1>5, <1>6, <1>7, <1>8, <1>9, <1>10, <1>11, <1>12, <1>13 DEF Next

\* The inductive invariant holds of every behaviour.
THEOREM AlwaysIInv == Spec => []IInv
<1>1. Init => IInv
  BY InitIInv
<1>2. IInv /\ [Next]_vars => IInv'
  BY NextIInv
<1> QED
  BY <1>1, <1>2, PTL DEF Spec

\* Until a map is finalized its records are referred to by the map and the
\* traversals that they count (map_add_record, map_delete_record,
\* map_decref_record), the list has them in the order of addition, and the
\* hash table those that are not empty, each in its bucket, whatever
\* map_hash_resize did.
THEOREM RecordsAreExact == Spec => []RecordsExact
<1>1. IInv => RecordsExact
  <2> SUFFICES ASSUME IInv, ~map.freed PROVE RecordsExact
    BY DEF RecordsExact
  <2>1. Linked(map) /\ Counted(map, cursor) /\ Hashed(map) /\ map.list \in Seq(Records)
    BY DEF IInv, Kept, AnyMap
  <2>2. \A r \in Records :
          map.rec[r].refs = Cardinality(Standing(r)) + (IF map.rec[r].empty THEN 0 ELSE 1)
    BY <2>1 DEF Counted, On, Standing
  <2>3. \A r \in Records : r \in Range(map.list) <=> map.rec[r].refs > 0
    BY <2>1 DEF Linked
  <2>4. \A i \in 1 .. Len(map.list) - 1 : map.list[i] < map.list[i + 1]
    <3>1. PICK n \in Nat : n = Len(map.list)
      BY <2>1
    <3>2. \A i, j \in 1 .. n : i < j => map.list[i] < map.list[j]
      BY <2>1, <3>1 DEF Linked, Ordered
    <3>3. \A i \in 1 .. n - 1 : i \in 1 .. n /\ i + 1 \in 1 .. n /\ i < i + 1
      OBVIOUS
    <3> QED
      BY <3>1, <3>2, <3>3
  <2> QED
    BY <2>1, <2>2, <2>3, <2>4 DEF RecordsExact, Hashed
<1> QED
  BY <1>1, AlwaysIInv, PTL

\* No traversal lets go of a record that was freed, or frees one that is in
\* use, in whatever order the collector finalizes the map and its iterators
\* (js_map_finalizer, js_map_iterator_finalizer).
THEOREM NothingDangles == Spec => []NoDangling
<1>1. IInv => NoDangling
  BY DEF IInv, NoDangling
<1> QED
  BY <1>1, AlwaysIInv, PTL

-----------------------------------------------------------------------------
(* The map is an ordered map *)

\* Keys that count as one key have one hash.  map_hash_key sees to it for all
\* keys but numbers that some script computes: 1 and 0.5 + 0.5 are one key and
\* have two hashes (see map_hash_key).
HashesAgree ==
  \A k, l \in Keys : Same(map_normalize_key(k), map_normalize_key(l)) =>
    map_hash_key(map_normalize_key(k)) = map_hash_key(map_normalize_key(l))

\* The entries have keys of the script, no two the same.
Distinct ==
  /\ \A r \in Live(map) : \E k \in Keys : map.rec[r].key = map_normalize_key(k)
  /\ \A r, q \in Live(map) : ValueOf(map.rec[r].key) = ValueOf(map.rec[q].key) => r = q

\* js_same_value_zero compares the values of keys.
LEMMA SameValue ==
  ASSUME NEW a \in AnyKey, NEW b \in AnyKey
  PROVE  Same(a, b) <=> ValueOf(a) = ValueOf(b)
<1>1. a = [tag |-> a.tag, num |-> a.num] /\ b = [tag |-> b.tag, num |-> b.num]
      /\ a.tag # "number" /\ b.tag # "number"
  BY DEF AnyKey, Tags
<1>2. CASE IsNumber(a) /\ IsNumber(b)
  BY <1>1, <1>2 DEF Same, ValueOf
<1>3. CASE ~IsNumber(a) /\ ~IsNumber(b)
  BY <1>1, <1>3 DEF Same, ValueOf
<1>4. CASE IsNumber(a) /\ ~IsNumber(b)
  <2>1. ValueOf(a).tag = "number" /\ ValueOf(b).tag # "number" /\ a # b
    BY <1>1, <1>4 DEF ValueOf
  <2> QED
    BY <1>4, <2>1 DEF Same
<1>5. CASE ~IsNumber(a) /\ IsNumber(b)
  <2>1. ValueOf(b).tag = "number" /\ ValueOf(a).tag # "number" /\ a # b
    BY <1>1, <1>5 DEF ValueOf
  <2> QED
    BY <1>5, <2>1 DEF Same
<1> QED
  BY <1>2, <1>3, <1>4, <1>5

\* map_normalize_key does not change the value of a key.
LEMMA NormalValue ==
  ASSUME NEW k \in Keys
  PROVE  ValueOf(map_normalize_key(k)) = ValueOf(k)
<1>1. k \in AnyKey
  BY NormalKey
<1>2. CASE k.tag = "float" /\ k.num = 0
  <2>1. map_normalize_key(k) = [tag |-> "int", num |-> k.num]
    BY <1>1, <1>2 DEF map_normalize_key, AnyKey
  <2> QED
    BY <1>2, <2>1 DEF ValueOf, IsNumber
<1>3. CASE ~(k.tag = "float" /\ k.num = 0)
  BY <1>3 DEF map_normalize_key
<1> QED
  BY <1>2, <1>3

\* A step that adds no entry and changes no key.
Fewer == Live(map') \subseteq Live(map) /\ \A r \in Live(map') : map'.rec[r].key = map.rec[r].key

\* Keys stay distinct when there are no new ones.
LEMMA FewerDistinct ==
  ASSUME Distinct, Fewer
  PROVE  Distinct'
<1>1. /\ \A r \in Live(map') : \E k \in Keys : map'.rec[r].key = map_normalize_key(k)
      /\ \A r, q \in Live(map') : ValueOf(map'.rec[r].key) = ValueOf(map'.rec[q].key) => r = q
  BY DEF Distinct, Fewer
<1> QED
  BY <1>1 DEF Distinct, Live

\* js_map_set finds the record of a key wherever it is: the bucket it looks
\* into is the one the record was filed in.
LEMMA FoundAnywhere ==
  ASSUME HashesAgree, Distinct, NEW k \in Keys, NEW n, n = map_normalize_key(k),
         \A q \in Live(map) : BucketOf(map.rec[q].key, map.size) = BucketOf(n, map.size)
                                => ~Same(map.rec[q].key, n)
  PROVE  \A q \in Live(map) : ValueOf(map.rec[q].key) # ValueOf(n)
<1> SUFFICES ASSUME NEW q \in Live(map), ValueOf(map.rec[q].key) = ValueOf(n) PROVE FALSE
  OBVIOUS
<1>1. PICK l \in Keys : map.rec[q].key = map_normalize_key(l)
  BY DEF Distinct
<1>2. Same(map_normalize_key(l), map_normalize_key(k))
  BY <1>1, NormalKey, SameValue
<1>3. map_hash_key(map.rec[q].key) = map_hash_key(n)
  BY <1>1, <1>2 DEF HashesAgree
<1>4. BucketOf(map.rec[q].key, map.size) = BucketOf(n, map.size)
  BY <1>3 DEF BucketOf
<1> QED
  BY <1>1, <1>2, <1>4

\* js_map_set adds a key only when it found no equal one.
LEMMA SetDistinct ==
  ASSUME HashesAgree, IInv, Distinct,
         NEW k \in Keys, NEW v \in Values, NEW room \in BOOLEAN, js_map_set(k, v, room)
  PROVE  Distinct'
<1>1. PICK n : n = map_normalize_key(k)
  OBVIOUS
<1>2. CASE \E r \in Records :
             /\ \A q \in Live(map) : BucketOf(map.rec[q].key, map.size) = BucketOf(n, map.size)
                                       => ~Same(map.rec[q].key, n)
             /\ Live(map') = Live(map) \cup {r}
             /\ map'.rec[r].key = n
             /\ r \notin Live(map) /\ \A q \in Live(map) : map'.rec[q] = map.rec[q]
  <2>1. PICK r \in Records :
             /\ \A q \in Live(map) : BucketOf(map.rec[q].key, map.size) = BucketOf(n, map.size)
                                       => ~Same(map.rec[q].key, n)
             /\ Live(map') = Live(map) \cup {r}
             /\ map'.rec[r].key = n
             /\ r \notin Live(map) /\ \A q \in Live(map) : map'.rec[q] = map.rec[q]
    BY <1>2
  <2>2. \A q \in Live(map) : ValueOf(map.rec[q].key) # ValueOf(n)
    BY <1>1, <2>1, FoundAnywhere
  <2>3. \A q \in Live(map') : \E l \in Keys : map'.rec[q].key = map_normalize_key(l)
    BY <1>1, <2>1 DEF Distinct
  <2>4. ASSUME NEW p \in Live(map'), NEW q \in Live(map'),
               ValueOf(map'.rec[p].key) = ValueOf(map'.rec[q].key)
        PROVE  p = q
    <3>1. CASE p \in Live(map) /\ q \in Live(map)
      BY <2>1, <2>4, <3>1 DEF Distinct
    <3>2. CASE p = r \/ q = r
      BY <2>1, <2>2, <2>4, <3>2
    <3> QED
      BY <2>1, <3>1, <3>2
  <2> QED
    BY <2>3, <2>4 DEF Distinct, Live
<1>3. CASE \E r \in Live(map) :
             /\ Live(map') = Live(map)
             /\ map'.rec[r].key = map.rec[r].key
             /\ \A q \in Live(map) : q # r => map'.rec[q] = map.rec[q]
  <2>1. Fewer
    BY <1>3 DEF Fewer
  <2> QED
    BY <2>1, FewerDistinct
<1> QED
  BY <1>1, <1>2, <1>3, SetStep

\* An empty map has no keys.
LEMMA InitDistinct == Init => Distinct
<1> SUFFICES ASSUME Init PROVE Distinct
  OBVIOUS
<1>1. \A r \in Records : map.rec[r] = Gone /\ Gone.empty
  BY DEF Init, Empty, Gone
<1> QED
  BY <1>1 DEF Distinct, Live

\* A map with the same entries, or with none.
LEMMA SameFewer ==
  ASSUME SameEntries(map', map) \/ Live(map') = {}
  PROVE  Fewer
BY DEF SameEntries, Fewer

\* Every step keeps the keys distinct.
LEMMA NextDistinct == HashesAgree /\ IInv /\ Distinct /\ [Next]_vars => Distinct'
<1> SUFFICES ASSUME HashesAgree, IInv, Distinct, [Next]_vars PROVE Distinct'
  OBVIOUS
<1>1. ASSUME NEW k \in Keys, NEW v \in Values, NEW room \in BOOLEAN, js_map_set(k, v, room)
      PROVE  Distinct'
  BY <1>1, SetDistinct
<1>2. ASSUME NEW k \in Keys, js_map_delete(k)
      PROVE  Distinct'
  <2>1. PICK n : n = map_normalize_key(k)
    OBVIOUS
  <2>2. \E r \in Live(map) :
          Live(map') = Live(map) \ {r} /\ \A q \in Live(map') : map'.rec[q] = map.rec[q]
    BY <1>2, <2>1, DeleteStep
  <2>3. Fewer
    BY <2>2 DEF Fewer
  <2> QED
    BY <2>3, FewerDistinct
<1>3. CASE js_map_clear
  <2>1. map'.rec = map.rec
    BY <1>3 DEF js_map_clear, IInv, AnyMap
  <2>2. Fewer
    BY <2>1 DEF Fewer, Live
  <2> QED
    BY <2>2, FewerDistinct
<1>4. CASE ClearTurn
  <2>1. Fewer
    BY <1>4, TurnStep DEF Fewer
  <2> QED
    BY <2>1, FewerDistinct
<1>5. ASSUME NEW c \in Cursors, Begin(c)
      PROVE  Distinct'
  <2>1. Fewer
    BY <1>5 DEF Begin, Fewer
  <2> QED
    BY <2>1, FewerDistinct
<1>6. ASSUME NEW c \in Cursors, Advance(c)
      PROVE  Distinct'
  BY <1>6, AdvanceStep, SameFewer, FewerDistinct
<1>7. ASSUME NEW c \in Cursors, Leave(c)
      PROVE  Distinct'
  BY <1>7, LeaveStep, SameFewer, FewerDistinct
<1>8. CASE Drop
  BY <1>8, DropStep, SameFewer, FewerDistinct
<1>9. CASE js_map_constructor
  BY <1>9, RenewStep, SameFewer, FewerDistinct
<1>10. CASE Sweep
  BY <1>10, SweepStep, SameFewer, FewerDistinct
<1>11. CASE SweepMap
  BY <1>11, SweepMapStep, SameFewer, FewerDistinct
<1>12. ASSUME NEW c \in Cursors, SweepIterator(c)
       PROVE  Distinct'
  BY <1>12, SweepIteratorStep, SameFewer, FewerDistinct
<1>13. CASE UNCHANGED vars
  <2>1. map' = map
    BY <1>13 DEF vars
  <2>2. Fewer
    BY <2>1 DEF Fewer
  <2> QED
    BY <2>2, FewerDistinct
<1> QED
  BY <1>1, <1>2, <1>3, <1>4, <1>5, <1>6, <1>7, <1>8, <1>9, <1>10, <1>11, <1>12, <1>13 DEF Next

-----------------------------------------------------------------------------
(* Every step is one of OrderedMap *)

\* The entries are those of the records that are not empty.
LEMMA EntryIs ==
  ASSUME NEW m, NEW r
  PROVE  /\ Entry(m, r).at = r /\ Entry(m, r).key = ValueOf(m.rec[r].key)
         /\ Entry(m, r).value = m.rec[r].value
BY DEF Entry

\* The same records are the same entries.
LEMMA EntriesSame ==
  ASSUME phase # "clear", phase' # "clear", SameEntries(map', map)
  PROVE  Entries' = Entries
<1>1. \A r \in Live(map) : Entry(map', r) = Entry(map, r)
  BY DEF SameEntries, Entry
<1>2. Entries = {Entry(map, r) : r \in Live(map)}
  BY DEF Entries
<1>3. Entries' = {Entry(map', r) : r \in Live(map')}
  BY DEF Entries, Live, Entry
<1> QED
  BY <1>1, <1>2, <1>3 DEF SameEntries

\* There are none when no record is left, or will be.
LEMMA EntriesNone ==
  ASSUME phase' = "clear" \/ Live(map') = {}
  PROVE  Entries' = {}
<1>1. phase' # "clear" => Entries' = {Entry(map', r) : r \in Live(map')}
  BY DEF Entries, Live, Entry
<1>2. phase' = "clear" => Entries' = {}
  BY DEF Entries
<1> QED
  BY <1>1, <1>2

\* Traversals that stay where they are.
LEMMA PosSame ==
  ASSUME cursor' = cursor
  PROVE  Pos' = Pos
BY DEF Pos

\* A traversal ends.
LEMMA PosIdle ==
  ASSUME cursor \in AnyCursors, NEW c \in Cursors, cursor' = [cursor EXCEPT ![c] = Idle]
  PROVE  Pos' = [Pos EXCEPT ![c] = Done]
<1>1. ~cursor'[c].on /\ \A d \in Cursors : d # c => cursor'[d] = cursor[d]
  BY DEF Idle, AnyCursors
<1>2. Pos' = [d \in Cursors |-> IF cursor'[d].on THEN At(cursor'[d].at) ELSE Done]
  BY DEF Pos, At
<1>3. Pos' = [d \in Cursors |-> IF d = c THEN Done ELSE Pos[d]]
  BY <1>1, <1>2 DEF Pos
<1>4. [Pos EXCEPT ![c] = Done] = [d \in Cursors |-> IF d = c THEN Done ELSE Pos[d]]
  BY DEF Pos
<1> QED
  BY <1>3, <1>4

\* All traversals have ended.
LEMMA PosOver ==
  ASSUME \A c \in Cursors : ~cursor[c].on
  PROVE  Pos = [c \in Cursors |-> Done]
BY DEF Pos

\* js_map_set is Set.
LEMMA SetImplements ==
  ASSUME HashesAgree, IInv, Distinct,
         NEW k \in Keys, NEW v \in Values, NEW room \in BOOLEAN, js_map_set(k, v, room)
  PROVE  Abstract!Set(ValueOf(k), v)
<1>1. PICK n : n = map_normalize_key(k)
  OBVIOUS
<1>2. map.held /\ map'.held /\ phase = "run" /\ UNCHANGED <<cursor, phase>>
  BY <1>1, SetStep
<1>3. PICK x : x = ValueOf(k)
  OBVIOUS
<1>4. ValueOf(n) = x
  BY <1>1, <1>3, NormalValue
<1>5. Entries = {Entry(map, r) : r \in Live(map)}
  BY <1>2 DEF Entries
<1>6. Entries' = {Entry(map', r) : r \in Live(map')}
  BY <1>2 DEF Entries, Live, Entry
<1>7. Pos' = Pos /\ (map.held)' = map.held
  <2>1. map.held \in BOOLEAN /\ map'.held \in BOOLEAN
    BY SetStep, <1>1 DEF IInv, AnyMap
  <2> QED
    BY <1>2, <2>1, PosSame
<1> DEFINE old == {e \in Entries : e.key = x}
<1>8. old = Abstract!EntryOf(x)
  BY DEF Abstract!EntryOf
<1>9. CASE \E r \in Records :
             /\ \A q \in Live(map) : BucketOf(map.rec[q].key, map.size) = BucketOf(n, map.size)
                                       => ~Same(map.rec[q].key, n)
             /\ r = map.made + 1 /\ map'.made = r
             /\ r \notin Live(map) /\ Live(map') = Live(map) \cup {r}
             /\ map'.rec[r].key = n /\ map'.rec[r].value = v
             /\ \A q \in Live(map) : map'.rec[q] = map.rec[q]
  <2>1. PICK r \in Records :
             /\ \A q \in Live(map) : BucketOf(map.rec[q].key, map.size) = BucketOf(n, map.size)
                                       => ~Same(map.rec[q].key, n)
             /\ r = map.made + 1 /\ map'.made = r
             /\ r \notin Live(map) /\ Live(map') = Live(map) \cup {r}
             /\ map'.rec[r].key = n /\ map'.rec[r].value = v
             /\ \A q \in Live(map) : map'.rec[q] = map.rec[q]
    BY <1>9
  <2>2. \A q \in Live(map) : ValueOf(map.rec[q].key) # x
    BY <1>1, <1>4, <2>1, FoundAnywhere
  <2>3. old = {}
    BY <1>5, <2>2, EntryIs
  <2>4. Entry(map', r) = [at |-> map.made + 1, key |-> x, value |-> v]
    BY <1>4, <2>1 DEF Entry
  <2>5. \A q \in Live(map) : Entry(map', q) = Entry(map, q)
    BY <2>1 DEF Entry
  <2>6. Entries' = Entries \cup {[at |-> map.made + 1, key |-> x, value |-> v]}
    BY <1>5, <1>6, <2>1, <2>4, <2>5
  <2>7. (map.made)' = map.made + 1
    BY <2>1
  <2> HIDE DEF old
  <2> QED
    BY <1>2, <1>3, <1>7, <1>8, <2>3, <2>6, <2>7 DEF Abstract!Set
<1>10. CASE \E r \in Live(map) :
             /\ Same(map.rec[r].key, n)
             /\ map'.made = map.made /\ Live(map') = Live(map)
             /\ map'.rec[r].key = map.rec[r].key /\ map'.rec[r].value = v
             /\ \A q \in Live(map) : q # r => map'.rec[q] = map.rec[q]
  <2>1. PICK r \in Live(map) :
             /\ Same(map.rec[r].key, n)
             /\ map'.made = map.made /\ Live(map') = Live(map)
             /\ map'.rec[r].key = map.rec[r].key /\ map'.rec[r].value = v
             /\ \A q \in Live(map) : q # r => map'.rec[q] = map.rec[q]
    BY <1>10
  <2>2. ValueOf(map.rec[r].key) = x
    <3>1. map.rec[r].key \in AnyKey /\ n \in AnyKey
      BY <1>1, NormalKey DEF Distinct
    <3> QED
      BY <1>4, <2>1, <3>1, SameValue
  <2>3. \A q \in Live(map) : q # r => ValueOf(map.rec[q].key) # x
    BY <2>2 DEF Distinct
  <2>4. old = {Entry(map, r)}
    BY <1>5, <2>2, <2>3, EntryIs
  <2>5. (CHOOSE e \in old : TRUE).at = r /\ old # {}
    BY <2>4, EntryIs
  <2>6. Entry(map', r) = [at |-> r, key |-> x, value |-> v]
    BY <2>1, <2>2 DEF Entry
  <2>7. \A q \in Live(map) : q # r => Entry(map', q) = Entry(map, q) /\ Entry(map, q) \notin old
    BY <2>1, <2>4, EntryIs DEF Entry
  <2>8. Entries' = (Entries \ old) \cup {[at |-> r, key |-> x, value |-> v]}
    BY <1>5, <1>6, <2>1, <2>4, <2>6, <2>7
  <2>9. (map.made)' = map.made
    BY <2>1
  <2> HIDE DEF old
  <2> QED
    BY <1>2, <1>3, <1>7, <1>8, <2>5, <2>8, <2>9 DEF Abstract!Set
<1> QED
  BY <1>1, <1>9, <1>10, SetStep

\* js_map_delete is Delete.
LEMMA DeleteImplements ==
  ASSUME IInv, Distinct, NEW k \in Keys, js_map_delete(k)
  PROVE  Abstract!Delete(ValueOf(k))
<1>1. PICK n : n = map_normalize_key(k)
  OBVIOUS
<1>2. map.held /\ map'.held /\ map'.made = map.made /\ phase = "run" /\ UNCHANGED <<cursor, phase>>
      /\ IInv'
  BY <1>1, DeleteStep
<1>3. PICK x : x = ValueOf(k)
  OBVIOUS
<1>4. ValueOf(n) = x
  BY <1>1, <1>3, NormalValue
<1>5. Entries = {Entry(map, r) : r \in Live(map)}
  BY <1>2 DEF Entries
<1>6. Entries' = {Entry(map', r) : r \in Live(map')}
  BY <1>2 DEF Entries, Live, Entry
<1>7. Pos' = Pos /\ (map.held)' = map.held
  <2>1. map.held \in BOOLEAN /\ map'.held \in BOOLEAN
    BY <1>2 DEF IInv, AnyMap
  <2> QED
    BY <1>2, <2>1, PosSame
<1>8. PICK r \in Live(map) :
        /\ Same(map.rec[r].key, n)
        /\ Live(map') = Live(map) \ {r}
        /\ \A q \in Live(map') : map'.rec[q] = map.rec[q]
  BY <1>1, DeleteStep
<1>9. ValueOf(map.rec[r].key) = x
  <2>1. map.rec[r].key \in AnyKey /\ n \in AnyKey
    BY <1>1, NormalKey DEF Distinct
  <2> QED
    BY <1>4, <1>8, <2>1, SameValue
<1>10. \A q \in Live(map) : q # r => ValueOf(map.rec[q].key) # x
  BY <1>9 DEF Distinct
<1>11. Abstract!EntryOf(x) = {Entry(map, r)}
  BY <1>5, <1>9, <1>10, EntryIs DEF Abstract!EntryOf
<1>12. \A q \in Live(map') : Entry(map', q) = Entry(map, q) /\ Entry(map, q) # Entry(map, r)
  BY <1>8, EntryIs DEF Entry
<1>13. Entries' = Entries \ {Entry(map, r)}
  BY <1>5, <1>6, <1>8, <1>12
<1>14. (map.made)' = map.made
  BY <1>2
<1> QED
  BY <1>2, <1>3, <1>7, <1>11, <1>13, <1>14 DEF Abstract!Delete

\* js_map_iterator_next is Advance, or Perish when the map goes with it.
LEMMA AdvanceImplements ==
  ASSUME IInv, NEW c \in Cursors, Advance(c)
  PROVE  Abstract!Advance(c) \/ Abstract!Perish
<1>1. PICK place : place = At(cursor[c].at)
  OBVIOUS
<1>2. /\ IInv' /\ phase = "run" /\ phase' = "run" /\ cursor[c].on
      /\ map'.held <=> map.held
      /\ map'.made = map.made
      /\ \/ /\ SameEntries(map', map)
            /\ \/ /\ cursor' = [cursor EXCEPT ![c] = Idle]
                  /\ \A q \in Live(map) : ~(q > place)
               \/ \E next \in Live(map) :
                    /\ next > place /\ \A q \in Live(map) : q > place => next <= q
                    /\ cursor' = [cursor EXCEPT ![c].at = next]
         \/ ~map.held /\ Live(map') = {} /\ \A d \in Cursors : ~cursor'[d].on
  BY <1>1, AdvanceStep
<1>3. (map.held)' = map.held /\ (map.made)' = map.made /\ cursor \in AnyCursors
  BY <1>2 DEF IInv, AnyMap
<1>4. CASE ~map.held /\ Live(map') = {} /\ \A d \in Cursors : ~cursor'[d].on
  <2>1. Entries' = {}
    BY <1>4, EntriesNone
  <2>2. Pos' = [d \in Cursors |-> Done]
    BY <1>4 DEF Pos, At
  <2> QED
    BY <1>3, <1>4, <2>1, <2>2 DEF Abstract!Perish
<1>5. CASE SameEntries(map', map)
           /\ \/ /\ cursor' = [cursor EXCEPT ![c] = Idle]
                 /\ \A q \in Live(map) : ~(q > place)
              \/ \E next \in Live(map) :
                   /\ next > place /\ \A q \in Live(map) : q > place => next <= q
                   /\ cursor' = [cursor EXCEPT ![c].at = next]
  <2>1. Entries' = Entries
    BY <1>2, <1>5, EntriesSame
  <2>2. Entries = {Entry(map, r) : r \in Live(map)}
    BY <1>2 DEF Entries
  <2>3. Pos[c] = place /\ place # Done
    <3>1. Pos[c] = place
      BY <1>1, <1>2 DEF Pos
    <3>2. place \in 0 .. MaxRecords
      BY <1>1, <1>3, MapsAssumption DEF At, AnyCursors, Records
    <3> QED
      BY <3>1, <3>2, MapsAssumption
  <2> DEFINE ahead == {e.at : e \in {f \in Entries : f.at > Pos[c]}}
  <2>4. ahead = {q \in Live(map) : q > place}
    BY <2>2, <2>3, EntryIs
  <2> HIDE DEF ahead
  <2>5. Pos' = [Pos EXCEPT ![c] = IF ahead = {} THEN Done ELSE Abstract!Min(ahead)]
    <3>1. CASE cursor' = [cursor EXCEPT ![c] = Idle] /\ \A q \in Live(map) : ~(q > place)
      <4>1. ahead = {}
        BY <2>4, <3>1
      <4> QED
        BY <1>3, <3>1, <4>1, PosIdle
    <3>2. CASE \E next \in Live(map) :
                 /\ next > place /\ \A q \in Live(map) : q > place => next <= q
                 /\ cursor' = [cursor EXCEPT ![c].at = next]
      <4>1. PICK next \in Live(map) :
                 /\ next > place /\ \A q \in Live(map) : q > place => next <= q
                 /\ cursor' = [cursor EXCEPT ![c].at = next]
        BY <3>2
      <4>2. ahead # {} /\ next \in ahead /\ \A q \in ahead : next <= q
        BY <2>4, <4>1
      <4>3. ahead \subseteq Nat
        BY <2>4, MapsAssumption DEF Live, Records
      <4>4. Min(ahead) = next
        BY <4>2, <4>3, MinIs
      <4>5. Abstract!Min(ahead) = next
        BY <4>4 DEF Abstract!Min, Min
      <4>6. next # None
        BY MapsAssumption DEF Live, Records
      <4>7. Pos' = [Pos EXCEPT ![c] = next]
        <5>1. cursor'[c].on /\ cursor'[c].at = next /\ \A d \in Cursors : d # c => cursor'[d] = cursor[d]
          BY <1>2, <1>3, <4>1 DEF AnyCursors
        <5>2. Pos' = [d \in Cursors |-> IF cursor'[d].on THEN At(cursor'[d].at) ELSE Done]
          BY DEF Pos, At
        <5>3. At(next) = next
          BY <4>6 DEF At
        <5>4. Pos' = [d \in Cursors |-> IF d = c THEN next ELSE Pos[d]]
          BY <5>1, <5>2, <5>3 DEF Pos
        <5>5. [Pos EXCEPT ![c] = next] = [d \in Cursors |-> IF d = c THEN next ELSE Pos[d]]
          BY DEF Pos
        <5> QED
          BY <5>4, <5>5
      <4> QED
        BY <4>2, <4>5, <4>7
    <3> QED
      BY <1>5, <3>1, <3>2
  <2> QED
    BY <1>3, <2>1, <2>3, <2>5 DEF Abstract!Advance, ahead
<1> QED
  BY <1>2, <1>4, <1>5

\* A step of the map is one of the ordered map, or none.
LEMMA NextImplements ==
  HashesAgree /\ IInv /\ Distinct /\ [Next]_vars => [Abstract!Next]_Abstract!vars
<1> SUFFICES ASSUME HashesAgree, IInv, Distinct, [Next]_vars
             PROVE  Abstract!Next \/ UNCHANGED <<map.held, Entries, map.made, Pos>>
  BY DEF Abstract!vars
<1>0. map.held \in BOOLEAN /\ map'.held \in BOOLEAN /\ cursor \in AnyCursors
  BY NextIInv DEF IInv, AnyMap
<1>1. ASSUME NEW k \in Keys, NEW v \in Values, NEW room \in BOOLEAN, js_map_set(k, v, room)
      PROVE  Abstract!Next
  <2>1. Abstract!Set(ValueOf(k), v)
    BY <1>1, SetImplements
  <2> QED
    BY <2>1 DEF Abstract!Next
<1>2. ASSUME NEW k \in Keys, js_map_delete(k)
      PROVE  Abstract!Next
  <2>1. Abstract!Delete(ValueOf(k))
    BY <1>2, DeleteImplements
  <2> QED
    BY <2>1 DEF Abstract!Next
<1>3. CASE js_map_clear
  <2>1. /\ phase' = "clear" /\ map.held /\ map'.held /\ map'.made = map.made /\ cursor' = cursor
    BY <1>3, ClearStep
  <2>2. Entries' = {} /\ Pos' = Pos
    BY <2>1, EntriesNone, PosSame
  <2>3. Abstract!Clear
    BY <1>0, <2>1, <2>2 DEF Abstract!Clear
  <2> QED
    BY <2>3 DEF Abstract!Next
<1>4. CASE ClearTurn
  <2>1. /\ phase = "clear" /\ map.held /\ map'.held /\ map'.made = map.made /\ cursor' = cursor
        /\ phase' = "clear" \/ Live(map') = {}
    BY <1>4, TurnStep
  <2>2. Entries' = {} /\ Pos' = Pos
    BY <2>1, EntriesNone, PosSame
  <2>3. Entries = {}
    BY <2>1 DEF Entries
  <2> QED
    BY <1>0, <2>1, <2>2, <2>3
<1>5. ASSUME NEW c \in Cursors, Begin(c)
      PROVE  Abstract!Next
  <2>1. /\ phase = "run" /\ map.held /\ map' = map /\ phase' = phase /\ ~cursor[c].on
        /\ cursor' = [cursor EXCEPT ![c] = [on |-> TRUE, at |-> None]]
    BY <1>5 DEF Begin, Usable
  <2>2. Entries' = Entries
    BY <2>1, EntriesSame DEF SameEntries
  <2>3. cursor'[c].on /\ cursor'[c].at = None /\ \A d \in Cursors : d # c => cursor'[d] = cursor[d]
    BY <1>0, <2>1 DEF AnyCursors
  <2>4. Pos' = [d \in Cursors |-> IF cursor'[d].on THEN At(cursor'[d].at) ELSE Done]
    BY DEF Pos, At
  <2>5. Pos' = [d \in Cursors |-> IF d = c THEN 0 ELSE Pos[d]]
    BY <2>3, <2>4 DEF Pos, At
  <2>6. [Pos EXCEPT ![c] = 0] = [d \in Cursors |-> IF d = c THEN 0 ELSE Pos[d]]
    BY DEF Pos
  <2>7. Pos[c] = Done
    BY <2>1 DEF Pos
  <2>8. Abstract!Begin(c)
    BY <2>1, <2>2, <2>5, <2>6, <2>7 DEF Abstract!Begin
  <2> QED
    BY <2>8 DEF Abstract!Next
<1>6. ASSUME NEW c \in Cursors, Advance(c)
      PROVE  Abstract!Next
  <2>1. Abstract!Advance(c) \/ Abstract!Perish
    BY <1>6, AdvanceImplements
  <2> QED
    BY <2>1 DEF Abstract!Next
<1>7. ASSUME NEW c \in Cursors, Leave(c)
      PROVE  Abstract!Next
  <2>1. /\ phase = "run" /\ phase' = "run"
        /\ map'.held <=> map.held
        /\ map'.made = map.made
        /\ cursor' = [cursor EXCEPT ![c] = Idle]
        /\ SameEntries(map', map) \/ (~map.held /\ Live(map') = {} /\ \A d \in Cursors : ~cursor'[d].on)
    BY <1>7, LeaveStep
  <2>2. Pos' = [Pos EXCEPT ![c] = Done]
    BY <1>0, <2>1, PosIdle
  <2>3. CASE SameEntries(map', map)
    <3>1. Entries' = Entries
      BY <2>1, <2>3, EntriesSame
    <3>2. Abstract!Leave(c)
      BY <1>0, <2>1, <2>2, <3>1 DEF Abstract!Leave
    <3> QED
      BY <3>2 DEF Abstract!Next
  <2>4. CASE ~map.held /\ Live(map') = {} /\ \A d \in Cursors : ~cursor'[d].on
    <3>1. Entries' = {}
      BY <2>4, EntriesNone
    <3>2. Pos' = [d \in Cursors |-> Done]
      BY <2>4 DEF Pos, At
    <3>3. Abstract!Perish
      BY <1>0, <2>1, <2>4, <3>1, <3>2 DEF Abstract!Perish
    <3> QED
      BY <3>3 DEF Abstract!Next
  <2> QED
    BY <2>1, <2>3, <2>4
<1>8. CASE Drop
  <2>1. /\ phase = "run" /\ phase' = "run" /\ ~map'.held /\ map'.made = map.made
        /\ cursor' = cursor
        /\ SameEntries(map', map) \/ Live(map') = {}
    BY <1>8, DropStep
  <2>2. Entries' \in {Entries, {}}
    BY <2>1, EntriesSame, EntriesNone
  <2>3. Pos' = Pos
    BY <2>1, PosSame
  <2>4. Abstract!Drop
    BY <1>0, <2>1, <2>2, <2>3 DEF Abstract!Drop
  <2> QED
    BY <2>4 DEF Abstract!Next
<1>9. CASE js_map_constructor
  <2>1. /\ phase = "run" /\ phase' = "run" /\ ~map.held /\ map'.held
        /\ Live(map) = {} /\ Live(map') = {} /\ map'.made = 0
        /\ cursor' = cursor /\ \A c \in Cursors : ~cursor[c].on
    BY <1>9, RenewStep
  <2>2. Entries' = {} /\ Pos' = Pos /\ Pos = [c \in Cursors |-> Done]
    BY <2>1, EntriesNone, PosSame, PosOver
  <2>3. Entries = {}
    BY <2>1 DEF Entries
  <2>4. Abstract!Renew
    BY <1>0, <2>1, <2>2, <2>3 DEF Abstract!Renew
  <2> QED
    BY <2>4 DEF Abstract!Next
<1>10. CASE Sweep
  <2>1. /\ phase = "run" /\ phase' = "sweep" /\ ~map'.held /\ map'.made = map.made
        /\ cursor' = cursor /\ SameEntries(map', map)
    BY <1>10, SweepStep
  <2>2. Entries' = Entries /\ Pos' = Pos
    BY <2>1, EntriesSame, PosSame
  <2>3. Abstract!Drop
    BY <1>0, <2>1, <2>2 DEF Abstract!Drop
  <2> QED
    BY <2>3 DEF Abstract!Next
<1>11. CASE SweepMap
  <2>1. /\ ~map.held /\ ~map'.held /\ map'.made = map.made
        /\ cursor' = cursor /\ Live(map') = {}
    BY <1>11, SweepMapStep
  <2>2. Entries' = {} /\ Pos' = Pos
    BY <2>1, EntriesNone, PosSame
  <2>3. Abstract!Perish
    BY <1>0, <2>1, <2>2 DEF Abstract!Perish
  <2> QED
    BY <2>3 DEF Abstract!Next
<1>12. ASSUME NEW c \in Cursors, SweepIterator(c)
       PROVE  Abstract!Next
  <2>1. /\ phase = "sweep" /\ phase' \in {"sweep", "run"}
        /\ ~map.held /\ ~map'.held /\ map'.made = map.made
        /\ cursor' = [cursor EXCEPT ![c] = Idle] /\ SameEntries(map', map)
    BY <1>12, SweepIteratorStep
  <2>2. Entries' = Entries
    BY <2>1, EntriesSame
  <2>3. Pos' = [Pos EXCEPT ![c] = Done]
    BY <1>0, <2>1, PosIdle
  <2>4. Abstract!Leave(c)
    BY <1>0, <2>1, <2>2, <2>3 DEF Abstract!Leave
  <2> QED
    BY <2>4 DEF Abstract!Next
<1>13. CASE UNCHANGED vars
  <2>1. map' = map /\ cursor' = cursor /\ phase' = phase
    BY <1>13 DEF vars
  <2>2. Entries' = Entries
    BY <2>1 DEF Entries, Entry, Live
  <2> QED
    BY <2>1, <2>2, PosSame
<1> QED
  BY <1>1, <1>2, <1>3, <1>4, <1>5, <1>6, <1>7, <1>8, <1>9, <1>10, <1>11, <1>12, <1>13 DEF Next

\* A map of the engine is an ordered map, for any keys whose hashes agree with
\* js_same_value_zero: the steps of js_map_set, js_map_delete, js_map_clear, of
\* the iterators and forEach and of the finalizers are steps of OrderedMap.
THEOREM MapIsOrderedMap ==
  ASSUME HashesAgree
  PROVE  Spec => IsOrderedMap
<1>1. Init => Abstract!Init
  <2> SUFFICES ASSUME Init PROVE Abstract!Init
    OBVIOUS
  <2>1. map = Empty /\ phase = "run" /\ \A c \in Cursors : ~cursor[c].on
    BY DEF Init, Idle
  <2>2. map.held = TRUE /\ map.made = 0 /\ \A r \in Records : map.rec[r].empty
    BY <2>1 DEF Empty, Gone
  <2>3. Entries = {}
    BY <2>1, <2>2 DEF Entries, Live
  <2>4. Pos = [c \in Cursors |-> Done]
    BY <2>1, PosOver
  <2> QED
    BY <2>2, <2>3, <2>4 DEF Abstract!Init
<1>2. Init => Distinct
  BY InitDistinct
<1>3. IInv /\ Distinct /\ [Next]_vars => Distinct'
  BY NextDistinct
<1>4. IInv /\ Distinct /\ [Next]_vars => [Abstract!Next]_Abstract!vars
  BY NextImplements
<1> QED
  BY <1>1, <1>2, <1>3, <1>4, AlwaysIInv, PTL DEF Spec, IsOrderedMap, Abstract!Spec

=============================================================================
