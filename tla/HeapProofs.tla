----------------------------- MODULE HeapProofs -----------------------------
(***************************************************************************)
(* Proofs about Heap, for every number of cells, slots, host references    *)
(* and weak records: counts are exact, nothing is used after it was freed, *)
(* and a collection frees the garbage and nothing else.                    *)
(***************************************************************************)
EXTENDS Heap, TLAPS, FiniteSetTheorems

-----------------------------------------------------------------------------
(* Lists *)

\* The elements of l in front of c; all of them when the walk is over.
Prior(l, c) ==
  IF c = None THEN Range(l) ELSE {x \in Range(l) : \E j, k \in DOMAIN l : j < k /\ l[j] = x /\ l[k] = c}

\* What RemoveAt of SequencesExt leaves.
LEMMA RemoveOne ==
  ASSUME NEW S, NEW l \in Seq(S), NEW i \in 1 .. Len(l)
  PROVE  /\ RemoveAt(l, i) \in Seq(S)
         /\ Len(RemoveAt(l, i)) = Len(l) - 1
         /\ \A j \in 1 .. Len(l) - 1 :
              RemoveAt(l, i)[j] = IF j < i THEN l[j] ELSE l[j + 1]
<1> DEFINE a == SubSeq(l, 1, i - 1)
           b == SubSeq(l, i + 1, Len(l))
<1>1. a \in Seq(S) /\ Len(a) = i - 1 /\ \A j \in 1 .. i - 1 : a[j] = l[j]
  OBVIOUS
<1>2. b \in Seq(S) /\ Len(b) = Len(l) - i /\ \A j \in 1 .. Len(l) - i : b[j] = l[j + i]
  OBVIOUS
<1>3. RemoveAt(l, i) = a \o b
  BY DEF RemoveAt
<1> HIDE DEF a, b
<1>4. a \o b \in Seq(S) /\ Len(a \o b) = Len(l) - 1
  <2>0. a \in Seq(S) /\ b \in Seq(S)
    BY <1>1, <1>2
  <2>1. a \o b \in Seq(S) /\ Len(a \o b) = Len(a) + Len(b)
    BY ONLY <2>0
  <2>2. Len(l) \in Nat
    OBVIOUS
  <2> QED
    BY <1>1, <1>2, <2>1, <2>2
<1>5. ASSUME NEW j \in 1 .. Len(l) - 1
      PROVE  (a \o b)[j] = IF j < i THEN l[j] ELSE l[j + 1]
  <2>1. CASE j < i
    <3>1. j \in 1 .. Len(a) /\ (a \o b)[j] = a[j]
      BY <1>1, <1>2, <2>1
    <3> QED
      BY <1>1, <2>1, <3>1
  <2>2. CASE ~(j < i)
    <3>1. (a \o b)[j] = b[j - Len(a)]
      BY <1>1, <1>2, <2>2
    <3>2. j - Len(a) = j - i + 1 /\ j - i + 1 \in 1 .. Len(l) - i
      BY <1>1, <2>2
    <3>3. b[j - i + 1] = l[j - i + 1 + i]
      BY <1>2, <3>2
    <3>4. j - i + 1 + i = j + 1
      OBVIOUS
    <3> QED
      BY <2>2, <3>1, <3>2, <3>3, <3>4
  <2> QED
    BY <2>1, <2>2
<1> QED
  BY <1>3, <1>4, <1>5

\* list_del takes one element out of a list and keeps the order of the rest.
LEMMA WithoutList ==
  ASSUME NEW S, NEW l \in Seq(S), IsInjective(l), NEW x
  PROVE  /\ Without(l, x) \in Seq(S)
         /\ IsInjective(Without(l, x))
         /\ Range(Without(l, x)) = Range(l) \ {x}
<1>1. CASE x \notin Range(l)
  BY <1>1 DEF Without
<1>2. CASE x \in Range(l)
  <2> DEFINE i == CHOOSE k \in DOMAIN l : l[k] = x
             r == RemoveAt(l, i)
  <2>1. i \in 1 .. Len(l) /\ l[i] = x
    BY <1>2 DEF Range
  <2>2. Without(l, x) = r
    BY <1>2 DEF Without
  <2> HIDE DEF i
  <2>3. /\ r \in Seq(S) /\ Len(r) = Len(l) - 1
        /\ \A j \in 1 .. Len(l) - 1 : r[j] = IF j < i THEN l[j] ELSE l[j + 1]
    BY <2>1, RemoveOne
  <2> HIDE DEF r
  <2>4. \A j, k \in 1 .. Len(l) : l[j] = l[k] => j = k
    BY DEF IsInjective
  <2>5. IsInjective(r)
    <3> SUFFICES ASSUME NEW j \in 1 .. Len(l) - 1, NEW k \in 1 .. Len(l) - 1, r[j] = r[k]
                 PROVE  j = k
      BY <2>3 DEF IsInjective
    <3> QED
      BY <2>1, <2>3, <2>4
  <2>6. Range(r) \subseteq Range(l) \ {x}
    <3> SUFFICES ASSUME NEW j \in 1 .. Len(l) - 1
                 PROVE  r[j] \in Range(l) /\ r[j] # x
      BY <2>3 DEF Range
    <3>1. CASE j < i
      BY <2>1, <2>3, <2>4, <3>1 DEF Range
    <3>2. CASE ~(j < i)
      <4>1. r[j] = l[j + 1] /\ j + 1 \in 1 .. Len(l) /\ j + 1 # i
        BY <2>1, <2>3, <3>2
      <4> QED
        BY <2>1, <2>4, <4>1 DEF Range
    <3> QED
      BY <3>1, <3>2
  <2>7. Range(l) \ {x} \subseteq Range(r)
    <3> SUFFICES ASSUME NEW j \in 1 .. Len(l), l[j] # x
                 PROVE  l[j] \in Range(r)
      BY DEF Range
    <3>1. CASE j < i
      <4>1. j \in 1 .. Len(l) - 1 /\ r[j] = l[j]
        BY <2>1, <2>3, <3>1
      <4> QED
        BY <2>3, <4>1 DEF Range
    <3>2. CASE i < j
      <4>1. j - 1 \in 1 .. Len(l) - 1 /\ ~(j - 1 < i) /\ j - 1 + 1 = j
        BY <2>1, <3>2
      <4>2. r[j - 1] = l[j]
        BY <2>3, <4>1
      <4> QED
        BY <2>3, <4>1, <4>2 DEF Range
    <3> QED
      BY <2>1, <3>1, <3>2
  <2> QED
    BY <2>2, <2>3, <2>5, <2>6, <2>7
<1> QED
  BY <1>1, <1>2

\* Positions decide what is in front of an element of an injective list.
LEMMA PriorAt ==
  ASSUME NEW l \in Seq(Cells), IsInjective(l), NEW k \in 1 .. Len(l)
  PROVE  Prior(l, l[k]) = {x \in Range(l) : \E j \in 1 .. Len(l) : j < k /\ l[j] = x}
<1>1. l[k] # None
  BY HeapAssumption
<1>2. \A j, m \in 1 .. Len(l) : l[j] = l[m] => j = m
  BY DEF IsInjective
<1>3. DOMAIN l = 1 .. Len(l)
  OBVIOUS
<1> QED
  BY <1>1, <1>2, <1>3 DEF Prior

\* Where After looks.
LEMMA AfterAt ==
  ASSUME NEW l \in Seq(Cells), IsInjective(l), NEW k \in 1 .. Len(l)
  PROVE  After(l, l[k]) = IF k = Len(l) THEN None ELSE l[k + 1]
<1> DEFINE i == CHOOSE j \in DOMAIN l : l[j] = l[k]
<1>1. After(l, l[k]) = IF i = Len(l) THEN None ELSE l[i + 1]
  BY DEF After
<1>2. i = k
  <2>1. \A j, m \in 1 .. Len(l) : l[j] = l[m] => j = m
    BY DEF IsInjective
  <2> QED
    BY <2>1
<1> HIDE DEF i
<1> QED
  BY <1>1, <1>2

\* An element that is taken out in front of c changes neither what follows c
\* nor the rest of what is in front of it.
LEMMA WithoutPrior ==
  ASSUME NEW l \in Seq(Cells), IsInjective(l), NEW x \in Range(l), NEW c \in Range(l), x # c
  PROVE  /\ Prior(Without(l, x), c) = Prior(l, c) \ {x}
         /\ x \in Prior(l, c) => After(Without(l, x), c) = After(l, c)
<1> DEFINE i == CHOOSE k \in DOMAIN l : l[k] = x
           r == RemoveAt(l, i)
<1>1. i \in 1 .. Len(l) /\ l[i] = x
  BY DEF Range
<1>2. Without(l, x) = r
  BY DEF Without
<1> HIDE DEF i
<1>3. /\ r \in Seq(Cells) /\ Len(r) = Len(l) - 1
      /\ \A j \in 1 .. Len(l) - 1 : r[j] = IF j < i THEN l[j] ELSE l[j + 1]
  BY <1>1, RemoveOne
<1> HIDE DEF r
<1>4. IsInjective(r) /\ Range(r) = Range(l) \ {x}
  BY <1>2, WithoutList
<1>5. PICK k \in 1 .. Len(l) : l[k] = c
  BY DEF Range
<1>6. \A j, m \in 1 .. Len(l) : l[j] = l[m] => j = m
  BY DEF IsInjective
<1>7. \A j, m \in 1 .. Len(r) : r[j] = r[m] => j = m
  BY <1>4, <1>3 DEF IsInjective
<1>8. k # i
  BY <1>1, <1>5
<1>9. PICK m \in 1 .. Len(r) : /\ r[m] = c
                               /\ k < i => m = k
                               /\ i < k => m = k - 1
  <2>1. CASE k < i
    BY <1>1, <1>3, <1>5, <2>1
  <2>2. CASE i < k
    <3>1. k - 1 \in 1 .. Len(l) - 1 /\ ~(k - 1 < i) /\ k - 1 + 1 = k
      BY <1>1, <2>2
    <3>2. r[k - 1] = l[k]
      BY <1>3, <3>1
    <3>3. k - 1 \in 1 .. Len(r) /\ r[k - 1] = c /\ ~(k < i)
      BY <1>1, <1>3, <1>5, <2>2, <3>1, <3>2
    <3> QED
      BY <3>3
  <2> QED
    BY <1>1, <1>8, <2>1, <2>2
<1>10. Prior(l, c) = {y \in Range(l) : \E j \in 1 .. Len(l) : j < k /\ l[j] = y}
  BY <1>5, PriorAt
<1>11. Prior(r, c) = {y \in Range(r) : \E j \in 1 .. Len(r) : j < m /\ r[j] = y}
  BY <1>3, <1>4, <1>9, PriorAt
<1>12. ASSUME NEW j \in 1 .. Len(r), j < m
       PROVE  \E n \in 1 .. Len(l) : n < k /\ l[n] = r[j]
  <2>1. CASE j < i
    BY <1>1, <1>3, <1>5, <1>8, <1>9, <1>12, <2>1
  <2>2. CASE ~(j < i)
    <3>1. r[j] = l[j + 1] /\ j + 1 \in 1 .. Len(l)
      BY <1>1, <1>3, <1>12, <2>2
    <3>2. j + 1 < k
      <4>1. CASE k < i
        BY <1>1, <1>5, <1>9, <1>12, <2>2, <4>1
      <4>2. CASE i < k
        BY <1>1, <1>5, <1>9, <1>12, <2>2, <4>2
      <4> QED
        BY <1>1, <1>8, <4>1, <4>2
    <3> QED
      BY <3>1, <3>2
  <2> QED
    BY <2>1, <2>2
<1>13. ASSUME NEW j \in 1 .. Len(l), j < k, l[j] # x
       PROVE  \E n \in 1 .. Len(r) : n < m /\ r[n] = l[j]
  <2>0. j # i
    BY <1>1, <1>13
  <2>1. CASE j < i
    BY <1>1, <1>3, <1>5, <1>8, <1>9, <1>13, <2>1
  <2>2. CASE i < j
    <3>1. j - 1 \in 1 .. Len(r) /\ j - 1 < m /\ ~(j - 1 < i) /\ j - 1 + 1 = j
      BY <1>1, <1>3, <1>5, <1>8, <1>9, <1>13, <2>2
    <3>2. r[j - 1] = l[j]
      BY <1>3, <3>1
    <3> QED
      BY <3>1, <3>2
  <2> QED
    BY <1>1, <2>0, <2>1, <2>2
<1>14. Prior(r, c) = Prior(l, c) \ {x}
  <2>1. Prior(r, c) \subseteq Prior(l, c) \ {x}
    BY <1>4, <1>10, <1>11, <1>12
  <2>2. Prior(l, c) \ {x} \subseteq Prior(r, c)
    BY <1>4, <1>10, <1>11, <1>13
  <2> QED
    BY <2>1, <2>2
<1>15. ASSUME x \in Prior(l, c) PROVE After(r, c) = After(l, c)
  <2>1. i < k
    BY <1>1, <1>6, <1>10, <1>15
  <2>4. After(l, c) = IF k = Len(l) THEN None ELSE l[k + 1]
    BY <1>5, AfterAt
  <2>5. After(r, c) = IF m = Len(r) THEN None ELSE r[m + 1]
    BY <1>3, <1>4, <1>9, AfterAt
  <2>6. m = k - 1 /\ (m = Len(r) <=> k = Len(l))
    BY <1>3, <1>5, <1>9, <2>1
  <2>7. k # Len(l) => r[m + 1] = l[k + 1]
    <3> SUFFICES ASSUME k # Len(l) PROVE r[m + 1] = l[k + 1]
      OBVIOUS
    <3>1. m + 1 \in 1 .. Len(l) - 1 /\ ~(m + 1 < i) /\ m + 1 + 1 = k + 1
      BY <1>1, <1>3, <1>5, <2>1, <2>6
    <3> QED
      BY <1>3, <3>1
  <2> QED
    BY <2>4, <2>5, <2>6, <2>7
<1> QED
  BY <1>2, <1>14, <1>15

\* list_add_tail
LEMMA AppendList ==
  ASSUME NEW l \in Seq(Cells), IsInjective(l), NEW x \in Cells \ Range(l)
  PROVE  /\ Append(l, x) \in Seq(Cells)
         /\ IsInjective(Append(l, x))
         /\ Range(Append(l, x)) = Range(l) \cup {x}
         /\ \A c \in Range(l) : Prior(Append(l, x), c) = Prior(l, c)
<1> DEFINE r == Append(l, x)
<1>1. /\ r \in Seq(Cells) /\ Len(r) = Len(l) + 1 /\ r[Len(l) + 1] = x
      /\ \A j \in 1 .. Len(l) : r[j] = l[j]
  OBVIOUS
<1> HIDE DEF r
<1>2. \A j, m \in 1 .. Len(l) : l[j] = l[m] => j = m
  BY DEF IsInjective
<1>3. \A j \in 1 .. Len(l) : l[j] # x
  BY DEF Range
<1>4. \A j, m \in 1 .. Len(r) : r[j] = r[m] => j = m
  BY <1>1, <1>2, <1>3
<1>5. IsInjective(r)
  BY <1>1, <1>4 DEF IsInjective
<1>6. Range(r) = Range(l) \cup {x}
  <2>1. ASSUME NEW j \in 1 .. Len(r) PROVE r[j] \in Range(l) \cup {x}
    BY <1>1, <2>1 DEF Range
  <2>2. Len(l) + 1 \in 1 .. Len(r) /\ \A j \in 1 .. Len(l) : j \in 1 .. Len(r)
    BY <1>1
  <2>3. Range(l) \cup {x} \subseteq Range(r)
    BY <1>1, <2>2 DEF Range
  <2> QED
    BY <1>1, <2>1, <2>3 DEF Range
<1>7. ASSUME NEW c \in Range(l) PROVE Prior(r, c) = Prior(l, c)
  <2>1. PICK k \in 1 .. Len(l) : l[k] = c
    BY DEF Range
  <2>2. k \in 1 .. Len(r) /\ r[k] = c
    BY <1>1, <2>1
  <2>3. Prior(l, c) = {y \in Range(l) : \E j \in 1 .. Len(l) : j < k /\ l[j] = y}
    BY <2>1, PriorAt
  <2>4. Prior(r, c) = {y \in Range(r) : \E j \in 1 .. Len(r) : j < k /\ r[j] = y}
    BY <1>1, <1>5, <2>2, PriorAt
  <2>5. \A j \in 1 .. Len(r) : j < k => j \in 1 .. Len(l) /\ r[j] = l[j] /\ l[j] \in Range(l)
    BY <1>1, <2>1 DEF Range
  <2>6. \A j \in 1 .. Len(l) : j \in 1 .. Len(r) /\ r[j] = l[j]
    BY <1>1
  <2>7. Prior(r, c) \subseteq Prior(l, c)
    BY <2>3, <2>4, <2>5
  <2>8. Prior(l, c) \subseteq Prior(r, c)
    BY <1>6, <2>3, <2>4, <2>6
  <2> QED
    BY <2>7, <2>8
<1> QED
  BY <1>1, <1>5, <1>6, <1>7 DEF r

\* list_add
LEMMA PushList ==
  ASSUME NEW l \in Seq(Cells), IsInjective(l), NEW x \in Cells \ Range(l)
  PROVE  /\ <<x>> \o l \in Seq(Cells)
         /\ IsInjective(<<x>> \o l)
         /\ Range(<<x>> \o l) = Range(l) \cup {x}
<1> DEFINE r == <<x>> \o l
<1>1. /\ r \in Seq(Cells) /\ Len(r) = Len(l) + 1 /\ r[1] = x
      /\ \A j \in 1 .. Len(l) : r[j + 1] = l[j]
  OBVIOUS
<1> HIDE DEF r
<1>2. \A j \in 2 .. Len(r) : j - 1 \in 1 .. Len(l) /\ r[j] = l[j - 1]
  <2> TAKE j \in 2 .. Len(r)
  <2>1. j - 1 \in 1 .. Len(l) /\ j - 1 + 1 = j
    BY <1>1
  <2> QED
    BY <1>1, <2>1
<1>3. \A j, m \in 1 .. Len(l) : l[j] = l[m] => j = m
  BY DEF IsInjective
<1>4. \A j \in 1 .. Len(l) : l[j] # x
  BY DEF Range
<1>5. \A j \in 1 .. Len(r) : j = 1 \/ j \in 2 .. Len(r)
  BY <1>1
<1>6. ASSUME NEW j \in 1 .. Len(r), NEW m \in 1 .. Len(r), r[j] = r[m] PROVE j = m
  <2>1. CASE j = 1 /\ m = 1
    BY <2>1
  <2>2. CASE j \in 2 .. Len(r) /\ m \in 2 .. Len(r)
    <3>1. j - 1 = m - 1
      BY <1>2, <1>3, <1>6, <2>2
    <3> QED
      BY <3>1
  <2>3. CASE j = 1 /\ m \in 2 .. Len(r)
    BY <1>1, <1>2, <1>4, <1>6, <2>3
  <2>4. CASE j \in 2 .. Len(r) /\ m = 1
    BY <1>1, <1>2, <1>4, <1>6, <2>4
  <2> QED
    BY <1>5, <2>1, <2>2, <2>3, <2>4
<1>7. IsInjective(r)
  BY <1>1, <1>6 DEF IsInjective
<1>8. Range(r) \subseteq Range(l) \cup {x}
  <2>1. \A j \in 2 .. Len(r) : r[j] \in Range(l)
    <3> TAKE j \in 2 .. Len(r)
    <3>1. j - 1 \in DOMAIN l /\ r[j] = l[j - 1]
      BY <1>2
    <3> QED
      BY <3>1 DEF Range
  <2>2. r[1] = x
    BY <1>1
  <2>3. \A j \in 1 .. Len(r) : r[j] \in Range(l) \cup {x}
    BY <1>5, <2>1, <2>2
  <2>4. DOMAIN r = 1 .. Len(r)
    BY <1>1
  <2> QED
    BY <2>3, <2>4 DEF Range
<1>9. \A j \in 1 .. Len(l) : j + 1 \in 1 .. Len(r)
  BY <1>1
<1>10. 1 \in 1 .. Len(r)
  BY <1>1
<1>11. Range(l) \cup {x} \subseteq Range(r)
  <2>1. x \in Range(r)
    BY <1>1, <1>10 DEF Range
  <2>2. \A j \in 1 .. Len(l) : l[j] \in Range(r)
    BY <1>1, <1>9 DEF Range
  <2> QED
    BY <2>1, <2>2 DEF Range
<1> QED
  BY <1>1, <1>7, <1>8, <1>11 DEF r

\* The next element of a list, and what is in front of it.
LEMMA AfterList ==
  ASSUME NEW l \in Seq(Cells), IsInjective(l), NEW c \in Range(l)
  PROVE  /\ After(l, c) \in Range(l) \cup {None}
         /\ After(l, c) # c
         /\ c # None /\ c \notin Prior(l, c)
         /\ Prior(l, c) \subseteq Range(l)
         /\ Prior(l, After(l, c)) = Prior(l, c) \cup {c}
<1>1. PICK k \in 1 .. Len(l) : l[k] = c
  BY DEF Range
<1>2. \A j, m \in 1 .. Len(l) : l[j] = l[m] => j = m
  BY DEF IsInjective
<1>4. After(l, c) = IF k = Len(l) THEN None ELSE l[k + 1]
  BY <1>1, AfterAt
<1>5. Prior(l, c) = {y \in Range(l) : \E j \in 1 .. Len(l) : j < k /\ l[j] = y}
  BY <1>1, PriorAt
<1>6. c # None
  BY HeapAssumption, <1>1
<1>7. c \notin Prior(l, c)
  BY <1>1, <1>2, <1>5
<1>8. CASE k = Len(l)
  <2>1. Prior(l, After(l, c)) = Range(l)
    BY <1>4, <1>8 DEF Prior
  <2>2. Range(l) \subseteq Prior(l, c) \cup {c}
    <3> SUFFICES ASSUME NEW j \in 1 .. Len(l) PROVE l[j] \in Prior(l, c) \cup {c}
      BY DEF Range
    <3>1. j < k \/ j = k
      BY <1>8
    <3> QED
      BY <1>1, <1>5, <3>1 DEF Range
  <2> QED
    BY <1>4, <1>5, <1>6, <1>7, <1>8, <2>1, <2>2
<1>9. CASE k # Len(l)
  <2>1. k + 1 \in 1 .. Len(l)
    BY <1>1, <1>9
  <2>2. Prior(l, l[k + 1]) = {y \in Range(l) : \E j \in 1 .. Len(l) : j < k + 1 /\ l[j] = y}
    BY <2>1, PriorAt
  <2>3. \A j \in 1 .. Len(l) : j < k + 1 <=> j < k \/ j = k
    BY <1>1
  <2>4. Prior(l, l[k + 1]) = Prior(l, c) \cup {c}
    BY <1>1, <1>5, <2>2, <2>3
  <2>5. l[k + 1] # c
    BY <1>1, <1>2, <2>1
  <2> QED
    BY <1>4, <1>5, <1>6, <1>7, <1>9, <2>1, <2>4, <2>5 DEF Range
<1> QED
  BY <1>8, <1>9

\* The first element of a list: nothing is in front of it.
LEMMA FirstList ==
  ASSUME NEW l \in Seq(Cells), IsInjective(l)
  PROVE  /\ First(l) \in Range(l) \cup {None}
         /\ First(l) = None <=> l = <<>>
         /\ Prior(l, First(l)) = {}
         /\ l = <<>> <=> Range(l) = {}
         /\ Range(l) \subseteq Cells
<1>1. CASE l = <<>>
  BY <1>1 DEF First, Prior, Range
<1>2. CASE l # <<>>
  <2>1. 1 \in 1 .. Len(l) /\ Head(l) = l[1] /\ l[1] \in Cells
    BY <1>2
  <2>2. Prior(l, l[1]) = {y \in Range(l) : \E j \in 1 .. Len(l) : j < 1 /\ l[j] = y}
    BY <2>1, PriorAt
  <2>3. \A j \in 1 .. Len(l) : ~(j < 1)
    OBVIOUS
  <2>4. Prior(l, l[1]) = {}
    BY <2>2, <2>3
  <2>5. l[1] \in Range(l)
    BY <2>1 DEF Range
  <2> QED
    BY HeapAssumption, <1>2, <2>1, <2>4, <2>5 DEF First, Range
<1> QED
  BY <1>1, <1>2

-----------------------------------------------------------------------------
(* Counting *)

\* How many links of S lead to x.
Count(S, x) == Cardinality({l \in S : l.to = x})

\* A count is a number, and it is zero when nothing leads to x.
LEMMA CountNat ==
  ASSUME NEW S, IsFiniteSet(S), NEW x
  PROVE  /\ Count(S, x) \in Nat
         /\ Count(S, x) = 0 <=> \A l \in S : l.to # x
<1>1. IsFiniteSet({l \in S : l.to = x})
  BY FS_Subset
<1>2. Cardinality({l \in S : l.to = x}) \in Nat
  BY <1>1, FS_CardinalityType
<1>3. Cardinality({l \in S : l.to = x}) = 0 <=> {l \in S : l.to = x} = {}
  BY <1>1, FS_EmptySet
<1> QED
  BY <1>2, <1>3 DEF Count

\* One link less.
LEMMA CountCut ==
  ASSUME NEW S, IsFiniteSet(S), NEW l \in S, NEW x
  PROVE  /\ IsFiniteSet(S \ {l})
         /\ Count(S \ {l}, x) = IF l.to = x THEN Count(S, x) - 1 ELSE Count(S, x)
<1> DEFINE T == {m \in S : m.to = x}
<1>1. IsFiniteSet(T)
  BY FS_Subset
<1>2. IsFiniteSet(S \ {l})
  BY FS_Subset
<1>3. CASE l.to = x
  <2>1. {m \in S \ {l} : m.to = x} = T \ {l} /\ l \in T
    BY <1>3
  <2>2. Cardinality(T \ {l}) = Cardinality(T) - 1
    BY <1>1, <2>1, FS_RemoveElement
  <2> QED
    BY <1>2, <1>3, <2>1, <2>2 DEF Count
<1>4. CASE l.to # x
  <2>1. {m \in S \ {l} : m.to = x} = T
    BY <1>4
  <2> QED
    BY <1>2, <1>4, <2>1 DEF Count
<1> QED
  BY <1>3, <1>4

\* One link more.
LEMMA CountAdd ==
  ASSUME NEW S, IsFiniteSet(S), NEW l, l \notin S, NEW x
  PROVE  /\ IsFiniteSet(S \cup {l})
         /\ Count(S \cup {l}, x) = IF l.to = x THEN Count(S, x) + 1 ELSE Count(S, x)
<1>1. IsFiniteSet(S \cup {l})
  BY FS_AddElement
<1>2. Count((S \cup {l}) \ {l}, x) = IF l.to = x THEN Count(S \cup {l}, x) - 1 ELSE Count(S \cup {l}, x)
  BY <1>1, CountCut
<1>3. (S \cup {l}) \ {l} = S
  OBVIOUS
<1>4. Count(S, x) \in Nat /\ Count(S \cup {l}, x) \in Nat
  BY <1>1, CountNat
<1> DEFINE n == Count(S, x)
           m == Count(S \cup {l}, x)
<1>5. n = IF l.to = x THEN m - 1 ELSE m
  BY <1>2, <1>3
<1>6. n \in Nat /\ m \in Nat
  BY <1>4
<1> HIDE DEF n, m
<1>7. m = IF l.to = x THEN n + 1 ELSE n
  BY <1>5, <1>6
<1> QED
  BY <1>1, <1>7 DEF n, m

-----------------------------------------------------------------------------
(* Heaps *)

Kinds    == {"unused", "object", "var", "zombie"}
Links    == [weak : BOOLEAN, from : Cells, at : Nat, to : Cells]
CellType == [kind : Kinds, refs : Nat, mark : {0, 1}]
Heaps    == [cell : [Cells -> CellType], links : SUBSET Links,
             objs : Seq(Cells), tmp : Seq(Cells), zero : Seq(Cells), bad : BOOLEAN]

Kind(h, x) == h.cell[x].kind
Objs(h)    == Range(h.objs)
Tmp(h)     == Range(h.tmp)
Zero(h)    == Range(h.zero)

\* Links lead from objects and variables to cells that are in use; the key of
\* a weak record is an object; neither a record nor a variable leads to a
\* variable; a place holds one link.
LinksSound(h) ==
  /\ IsFiniteSet(h.links)
  /\ \A l, m \in h.links : l.weak = m.weak /\ l.from = m.from /\ l.at = m.at => l = m
  /\ \A l \in h.links :
       /\ Kind(h, l.from) \in {"object", "var"}
       /\ Kind(h, l.to) # "unused"
       /\ l.weak \/ Kind(h, l.from) = "var" => Kind(h, l.to) # "var"
       /\ l.weak => Kind(h, l.from) = "object" /\ l.at \in Cells /\ Kind(h, l.at) = "object"
       /\ Kind(h, l.from) = "var" => l.at = 1

\* A free cell is empty; a variable holds a value and something holds it: a
\* link, or one of the owners outside the heap.
CellsSound(h, own) ==
  \A x \in Cells :
    /\ Kind(h, x) = "unused" => h.cell[x] = Unused
    /\ Kind(h, x) = "var" => /\ \E l \in h.links : l.from = x
                             /\ own[x] > 0 \/ \E l \in h.links : l.to = x

\* Every cell in use is in one list, once.
ListsApart(h) ==
  /\ IsInjective(h.objs) /\ IsInjective(h.tmp) /\ IsInjective(h.zero)
  /\ Objs(h) \cap Tmp(h) = {} /\ Objs(h) \cap Zero(h) = {} /\ Tmp(h) \cap Zero(h) = {}

ListsSound(h) ==
  /\ ListsApart(h)
  /\ Objs(h) \cup Tmp(h) \cup Zero(h) = {x \in Cells : Used(h, x)}

\* The counts are those of the owners and of the links in S.
Counts(h, own, S) == \A x \in Cells : Refs(h, x) = own[x] + Count(S, x)

\* All of it, for a heap with owners own outside: the host, and whoever is
\* about to let go of a reference or to store one.
Sane(h, own) ==
  /\ h \in Heaps /\ own \in [Cells -> Nat] /\ h.bad = FALSE
  /\ LinksSound(h) /\ CellsSound(h, own) /\ ListsSound(h) /\ Counts(h, own, h.links)

Plus(own, x)  == [own EXCEPT ![x] = @ + 1]
Minus(own, x) == [own EXCEPT ![x] = @ - 1]

-----------------------------------------------------------------------------
(* What the operators of the heap change *)

\* A count goes down.
LEMMA DecrefHeap ==
  ASSUME NEW h \in Heaps, NEW x \in Cells, Refs(h, x) > 0
  PROVE  LET g == Decref(h, x) IN
         /\ g \in Heaps /\ g.bad = h.bad /\ g.links = h.links
         /\ g.objs = h.objs /\ g.tmp = h.tmp /\ g.zero = h.zero
         /\ \A y \in Cells : /\ g.cell[y].kind = h.cell[y].kind /\ g.cell[y].mark = h.cell[y].mark
                             /\ g.cell[y].refs = IF y = x THEN h.cell[y].refs - 1 ELSE h.cell[y].refs
                             /\ y # x => g.cell[y] = h.cell[y]
<1> DEFINE g == Decref(h, x)
           c == [h.cell[x] EXCEPT !.refs = @ - 1]
<1>1. h.cell[x] \in CellType /\ h.cell \in [Cells -> CellType]
  BY DEF Heaps
<1>2. /\ c \in CellType /\ c.kind = h.cell[x].kind /\ c.mark = h.cell[x].mark
      /\ c.refs = h.cell[x].refs - 1
  BY <1>1 DEF CellType, Refs
<1>0. (h.cell[x].refs <= 0) = FALSE /\ h.bad \in BOOLEAN
  BY <1>1 DEF CellType, Refs, Heaps
<1>3. /\ g.cell = [h.cell EXCEPT ![x] = c] /\ g.bad = h.bad /\ g.links = h.links
      /\ g.objs = h.objs /\ g.tmp = h.tmp /\ g.zero = h.zero
  <2>1. /\ g.cell = [h.cell EXCEPT ![x] = c] /\ g.links = h.links
        /\ g.objs = h.objs /\ g.tmp = h.tmp /\ g.zero = h.zero
    BY DEF Decref, Heaps, Refs
  <2>2. g.bad = (h.bad \/ h.cell[x].refs <= 0)
    BY DEF Decref, Heaps, Refs
  <2>3. g.bad = h.bad
    BY <1>0, <2>2
  <2> QED
    BY <2>1, <2>3
<1>4. [h.cell EXCEPT ![x] = c] \in [Cells -> CellType] => g \in Heaps
  BY DEF Decref, Heaps, Refs, Used
<1> HIDE DEF g, c
<1>5. [h.cell EXCEPT ![x] = c] \in [Cells -> CellType]
  BY <1>1, <1>2
<1>6. \A y \in Cells : g.cell[y] = IF y = x THEN c ELSE h.cell[y]
  BY <1>1, <1>3
<1> QED
  BY <1>2, <1>3, <1>4, <1>5, <1>6 DEF g

\* A count goes up.
LEMMA IncrefHeap ==
  ASSUME NEW h \in Heaps, NEW x \in Cells, Used(h, x)
  PROVE  LET g == Incref(h, x) IN
         /\ g \in Heaps /\ g.bad = h.bad /\ g.links = h.links
         /\ g.objs = h.objs /\ g.tmp = h.tmp /\ g.zero = h.zero
         /\ \A y \in Cells : /\ g.cell[y].kind = h.cell[y].kind /\ g.cell[y].mark = h.cell[y].mark
                             /\ g.cell[y].refs = IF y = x THEN h.cell[y].refs + 1 ELSE h.cell[y].refs
                             /\ y # x => g.cell[y] = h.cell[y]
<1> DEFINE g == Incref(h, x)
           c == [h.cell[x] EXCEPT !.refs = @ + 1]
<1>1. h.cell[x] \in CellType /\ h.cell \in [Cells -> CellType]
  BY DEF Heaps
<1>2. /\ c \in CellType /\ c.kind = h.cell[x].kind /\ c.mark = h.cell[x].mark
      /\ c.refs = h.cell[x].refs + 1
  BY <1>1 DEF CellType, Refs
<1>3. /\ g.cell = [h.cell EXCEPT ![x] = c] /\ g.bad = h.bad /\ g.links = h.links
      /\ g.objs = h.objs /\ g.tmp = h.tmp /\ g.zero = h.zero
  BY DEF Incref, Heaps, Refs, Used
<1>4. [h.cell EXCEPT ![x] = c] \in [Cells -> CellType] => g \in Heaps
  BY DEF Incref, Heaps, Refs, Used
<1> HIDE DEF g, c
<1>5. [h.cell EXCEPT ![x] = c] \in [Cells -> CellType]
  BY <1>1, <1>2
<1>6. \A y \in Cells : g.cell[y] = IF y = x THEN c ELSE h.cell[y]
  BY <1>1, <1>3
<1> QED
  BY <1>2, <1>3, <1>4, <1>5, <1>6 DEF g

\* A cell leaves its list.
LEMMA UnlinkHeap ==
  ASSUME NEW h \in Heaps, ListsApart(h), NEW x \in Cells
  PROVE  LET g == Unlink(h, x) IN
         /\ g \in Heaps /\ g.bad = h.bad /\ g.links = h.links /\ g.cell = h.cell
         /\ ListsApart(g)
         /\ Objs(g) = Objs(h) \ {x} /\ Tmp(g) = Tmp(h) \ {x} /\ Zero(g) = Zero(h) \ {x}
         /\ g.objs = Without(h.objs, x) /\ g.tmp = Without(h.tmp, x) /\ g.zero = Without(h.zero, x)
<1> DEFINE g == Unlink(h, x)
<1>1. h.objs \in Seq(Cells) /\ h.tmp \in Seq(Cells) /\ h.zero \in Seq(Cells)
  BY DEF Heaps
<1>2. IsInjective(h.objs) /\ IsInjective(h.tmp) /\ IsInjective(h.zero)
  BY DEF ListsApart
<1> DEFINE a == Without(h.objs, x)
           b == Without(h.tmp, x)
           c == Without(h.zero, x)
<1>3. g = [h EXCEPT !.objs = a, !.tmp = b, !.zero = c]
  BY DEF Unlink
<1> HIDE DEF g, a, b, c
<1>9. /\ g.objs = a /\ g.tmp = b /\ g.zero = c
      /\ g.bad = h.bad /\ g.links = h.links /\ g.cell = h.cell
      /\ a \in Seq(Cells) /\ b \in Seq(Cells) /\ c \in Seq(Cells) => g \in Heaps
  BY <1>3 DEF Heaps
<1>4. g.objs \in Seq(Cells) /\ IsInjective(g.objs) /\ Range(g.objs) = Range(h.objs) \ {x}
  BY <1>1, <1>2, <1>9, WithoutList DEF a, b, c
<1>5. g.tmp \in Seq(Cells) /\ IsInjective(g.tmp) /\ Range(g.tmp) = Range(h.tmp) \ {x}
  BY <1>1, <1>2, <1>9, WithoutList DEF a, b, c
<1>6. g.zero \in Seq(Cells) /\ IsInjective(g.zero) /\ Range(g.zero) = Range(h.zero) \ {x}
  BY <1>1, <1>2, <1>9, WithoutList DEF a, b, c
<1>7. g \in Heaps
  BY <1>4, <1>5, <1>6, <1>9
<1>8. ListsApart(g)
  BY <1>4, <1>5, <1>6 DEF ListsApart, Objs, Tmp, Zero
<1> QED
  BY <1>4, <1>5, <1>6, <1>7, <1>8, <1>9 DEF g, a, b, c, Objs, Tmp, Zero

\* A link goes.
LEMMA CutHeap ==
  ASSUME NEW h \in Heaps, NEW l
  PROVE  LET g == Cut(h, l) IN
         /\ g \in Heaps /\ g.bad = h.bad /\ g.links = h.links \ {l} /\ g.cell = h.cell
         /\ g.objs = h.objs /\ g.tmp = h.tmp /\ g.zero = h.zero
BY DEF Cut, Heaps

\* A cell is free.
LEMMA FreeHeap ==
  ASSUME NEW h \in Heaps, NEW x \in Cells
  PROVE  LET g == Free(h, x) IN
         /\ g \in Heaps /\ g.bad = h.bad /\ g.links = h.links
         /\ g.objs = h.objs /\ g.tmp = h.tmp /\ g.zero = h.zero
         /\ g.cell[x] = Unused
         /\ \A y \in Cells : y # x => g.cell[y] = h.cell[y]
BY DEF Free, Heaps, CellType, Kinds, Unused

\* JS_FreeValueRT takes one from a count; an object that is left without a
\* reference waits in the list of zero counts, unless cycles are removed.
LEMMA FreeValueHeap ==
  ASSUME NEW h \in Heaps, ListsApart(h), NEW x \in Cells, Refs(h, x) > 0
  PROVE  LET g == JS_FreeValueRT(h, x) IN
         /\ g \in Heaps /\ g.bad = h.bad /\ g.links = h.links
         /\ \A y \in Cells : /\ g.cell[y].kind = h.cell[y].kind /\ g.cell[y].mark = h.cell[y].mark
                             /\ g.cell[y].refs = IF y = x THEN h.cell[y].refs - 1 ELSE h.cell[y].refs
                             /\ y # x => g.cell[y] = h.cell[y]
         /\ ListsApart(g)
         /\ IF Refs(h, x) = 1 /\ phase # "remove"
            THEN /\ Objs(g) = Objs(h) \ {x} /\ Tmp(g) = Tmp(h) \ {x}
                 /\ Zero(g) = Zero(h) \cup {x}
            ELSE g.objs = h.objs /\ g.tmp = h.tmp /\ g.zero = h.zero
<1> DEFINE d == Decref(h, x)
           u == Unlink(d, x)
           g == [u EXCEPT !.zero = <<x>> \o @]
<1>1. /\ d \in Heaps /\ d.bad = h.bad /\ d.links = h.links
      /\ d.objs = h.objs /\ d.tmp = h.tmp /\ d.zero = h.zero
      /\ \A y \in Cells : /\ d.cell[y].kind = h.cell[y].kind /\ d.cell[y].mark = h.cell[y].mark
                          /\ d.cell[y].refs = IF y = x THEN h.cell[y].refs - 1 ELSE h.cell[y].refs
                          /\ y # x => d.cell[y] = h.cell[y]
  BY DecrefHeap
<1>2. ListsApart(d)
  BY <1>1 DEF ListsApart, Objs, Tmp, Zero
<1>3. JS_FreeValueRT(h, x) = IF Refs(d, x) <= 0 /\ phase # "remove" THEN g ELSE d
  BY DEF JS_FreeValueRT
<1> HIDE DEF d
<1>4. Refs(h, x) \in Nat /\ Refs(d, x) = Refs(h, x) - 1
  BY <1>1 DEF Refs, Heaps, CellType
<1>5. Refs(d, x) <= 0 <=> Refs(h, x) = 1
  BY <1>4
<1>6. CASE Refs(h, x) = 1 /\ phase # "remove"
  <2>1. /\ u \in Heaps /\ u.bad = d.bad /\ u.links = d.links /\ u.cell = d.cell
        /\ ListsApart(u)
        /\ Objs(u) = Objs(d) \ {x} /\ Tmp(u) = Tmp(d) \ {x} /\ Zero(u) = Zero(d) \ {x}
    BY <1>1, <1>2, UnlinkHeap
  <2> HIDE DEF u
  <2>2. u.zero \in Seq(Cells) /\ IsInjective(u.zero) /\ x \in Cells \ Range(u.zero)
    BY <2>1 DEF Heaps, ListsApart, Zero
  <2> DEFINE z == <<x>> \o u.zero
  <2>3. z \in Seq(Cells) /\ IsInjective(z) /\ Range(z) = Range(u.zero) \cup {x}
    BY <2>2, PushList
  <2>4. /\ g.zero = z /\ g.bad = u.bad /\ g.links = u.links /\ g.cell = u.cell
        /\ g.objs = u.objs /\ g.tmp = u.tmp
    BY <2>1 DEF Heaps
  <2>5. z \in Seq(Cells) => g \in Heaps
    <3> HIDE DEF z
    <3> QED
      BY <2>1, <2>4 DEF Heaps
  <2> HIDE DEF z, g
  <2>6. ListsApart(g)
    BY <2>1, <2>3, <2>4 DEF ListsApart, Objs, Tmp, Zero
  <2>7. Objs(g) = Objs(h) \ {x} /\ Tmp(g) = Tmp(h) \ {x} /\ Zero(g) = Zero(h) \cup {x}
    BY <1>1, <2>1, <2>3, <2>4 DEF Objs, Tmp, Zero
  <2>8. JS_FreeValueRT(h, x) = g
    BY <1>3, <1>5, <1>6
  <2> QED
    BY <1>1, <1>6, <2>1, <2>3, <2>4, <2>5, <2>6, <2>7, <2>8
<1>7. CASE ~(Refs(h, x) = 1 /\ phase # "remove")
  <2>1. JS_FreeValueRT(h, x) = d
    BY <1>3, <1>5, <1>7
  <2> HIDE DEF g, u
  <2> QED
    BY <1>1, <1>2, <1>7, <2>1
<1> QED
  BY <1>6, <1>7

-----------------------------------------------------------------------------
(* Owners and links, one reference at a time *)

\* An owner more, an owner less.
LEMMA Owners ==
  ASSUME NEW own \in [Cells -> Nat], NEW x \in Cells
  PROVE  /\ Plus(own, x) \in [Cells -> Nat]
         /\ \A y \in Cells : Plus(own, x)[y] = IF y = x THEN own[y] + 1 ELSE own[y]
         /\ own[x] > 0 => Minus(own, x) \in [Cells -> Nat]
         /\ \A y \in Cells : Minus(own, x)[y] = IF y = x THEN own[y] - 1 ELSE own[y]
         /\ Minus(Plus(own, x), x) = own
<1>1. /\ Plus(own, x) \in [Cells -> Nat]
      /\ \A y \in Cells : Plus(own, x)[y] = IF y = x THEN own[y] + 1 ELSE own[y]
  BY DEF Plus
<1>2. /\ own[x] > 0 => Minus(own, x) \in [Cells -> Nat]
      /\ \A y \in Cells : Minus(own, x)[y] = IF y = x THEN own[y] - 1 ELSE own[y]
  BY DEF Minus
<1>3. Minus(Plus(own, x), x) = own
  <2>1. \A y \in Cells : Minus(Plus(own, x), x)[y] = IF y = x THEN Plus(own, x)[y] - 1 ELSE Plus(own, x)[y]
    BY <1>1 DEF Minus
  <2>2. \A y \in Cells : Minus(Plus(own, x), x)[y] = own[y]
    BY <1>1, <2>1
  <2>3. Minus(Plus(own, x), x) = [y \in Cells |-> Minus(Plus(own, x), x)[y]]
    BY <1>1 DEF Minus
  <2>4. own = [y \in Cells |-> own[y]]
    OBVIOUS
  <2> QED
    BY <2>2, <2>3, <2>4, Zenon
<1> QED
  BY <1>1, <1>2, <1>3

\* Heaps of the same shape: the kinds are the same, and the links, or fewer.
LEMMA SameKinds ==
  ASSUME NEW h \in Heaps, NEW g \in Heaps, LinksSound(h), g.links \subseteq h.links,
         \A x \in Cells : Kind(g, x) = Kind(h, x)
  PROVE  LinksSound(g)
<1>1. IsFiniteSet(g.links)
  BY FS_Subset DEF LinksSound
<1>2. \A l \in g.links : l \in Links /\ l.from \in Cells /\ l.to \in Cells
  BY DEF Heaps, Links
<1> QED
  BY <1>1, <1>2 DEF LinksSound

\* The lists stay sound when they and the kinds stay.
LEMMA SameLists ==
  ASSUME NEW h, NEW g, ListsSound(h), g.objs = h.objs, g.tmp = h.tmp, g.zero = h.zero,
         \A x \in Cells : Kind(g, x) = Kind(h, x)
  PROVE  ListsSound(g)
BY DEF ListsSound, ListsApart, Objs, Tmp, Zero, Used, Kind

\* What a sane heap says of one link.
LEMMA LinkSane ==
  ASSUME NEW h, NEW own, Sane(h, own), NEW l \in h.links
  PROVE  /\ l \in Links /\ l.from \in Cells /\ l.to \in Cells
         /\ Kind(h, l.from) \in {"object", "var"} /\ Kind(h, l.to) # "unused"
         /\ Refs(h, l.to) \in Nat /\ Refs(h, l.to) > own[l.to]
<1>1. l \in Links /\ l.from \in Cells /\ l.to \in Cells
  BY DEF Sane, Heaps, Links
<1>2. Kind(h, l.from) \in {"object", "var"} /\ Kind(h, l.to) # "unused"
  BY DEF Sane, LinksSound
<1>3. Count(h.links, l.to) \in Nat /\ Count(h.links, l.to) # 0
  BY CountNat DEF Sane, LinksSound
<1>4. own[l.to] \in Nat /\ Refs(h, l.to) = own[l.to] + Count(h.links, l.to)
  BY <1>1 DEF Sane, Counts
<1> QED
  BY <1>1, <1>2, <1>3, <1>4

\* A link of an object goes: its reference is now the business of an owner.
LEMMA CutSane ==
  ASSUME NEW h, NEW own, Sane(h, own), NEW l \in h.links, Kind(h, l.from) = "object"
  PROVE  Sane(Cut(h, l), Plus(own, l.to))
<1> DEFINE g == Cut(h, l)
           o == Plus(own, l.to)
<1>1. h \in Heaps /\ own \in [Cells -> Nat] /\ l.to \in Cells /\ l.from \in Cells
  BY LinkSane DEF Sane
<1>2. /\ g \in Heaps /\ g.bad = h.bad /\ g.links = h.links \ {l} /\ g.cell = h.cell
      /\ g.objs = h.objs /\ g.tmp = h.tmp /\ g.zero = h.zero
  BY <1>1, CutHeap
<1>3. /\ o \in [Cells -> Nat]
      /\ \A y \in Cells : o[y] = IF y = l.to THEN own[y] + 1 ELSE own[y]
  BY <1>1, Owners
<1> HIDE DEF g, o
<1>4. \A x \in Cells : Kind(g, x) = Kind(h, x)
  BY <1>2 DEF Kind
<1>5. LinksSound(g)
  BY <1>1, <1>2, <1>4, SameKinds DEF Sane
<1>6. ListsSound(g)
  BY <1>2, <1>4, SameLists DEF Sane
<1>7. CellsSound(g, o)
  <2> SUFFICES ASSUME NEW x \in Cells
               PROVE  /\ Kind(g, x) = "unused" => g.cell[x] = Unused
                      /\ Kind(g, x) = "var" => /\ \E m \in g.links : m.from = x
                                               /\ o[x] > 0 \/ \E m \in g.links : m.to = x
    BY DEF CellsSound
  <2>1. Kind(g, x) = "unused" => g.cell[x] = Unused
    BY <1>2, <1>4 DEF Sane, CellsSound
  <2>2. ASSUME Kind(g, x) = "var"
        PROVE  \E m \in g.links : m.from = x
    <3>1. PICK m \in h.links : m.from = x
      BY <1>4, <2>2 DEF Sane, CellsSound
    <3> QED
      BY <1>2, <1>4, <2>2, <3>1
  <2>3. ASSUME Kind(g, x) = "var"
        PROVE  o[x] > 0 \/ \E m \in g.links : m.to = x
    <3>1. own[x] > 0 \/ \E m \in h.links : m.to = x
      BY <1>4, <2>3 DEF Sane, CellsSound
    <3>2. CASE l.to = x
      BY <1>1, <1>3, <3>2
    <3>3. CASE l.to # x
      BY <1>1, <1>2, <1>3, <3>1, <3>3
    <3> QED
      BY <3>2, <3>3
  <2> QED
    BY <2>1, <2>2, <2>3
<1>8. Counts(g, o, g.links)
  <2> SUFFICES ASSUME NEW x \in Cells PROVE Refs(g, x) = o[x] + Count(g.links, x)
    BY DEF Counts
  <2>1. Refs(g, x) = own[x] + Count(h.links, x)
    BY <1>2 DEF Sane, Counts, Refs
  <2>2. Count(g.links, x) = IF l.to = x THEN Count(h.links, x) - 1 ELSE Count(h.links, x)
    <3>1. IsFiniteSet(h.links)
      BY DEF Sane, LinksSound
    <3> QED
      BY <1>2, <3>1, CountCut
  <2>3. Count(h.links, x) \in Nat /\ own[x] \in Nat
    BY <1>1, CountNat DEF Sane, LinksSound
  <2>4. o[x] = IF x = l.to THEN own[x] + 1 ELSE own[x]
    BY <1>3
  <2> QED
    BY <2>1, <2>2, <2>3, <2>4
<1> QED
  BY <1>2, <1>3, <1>5, <1>6, <1>7, <1>8 DEF Sane, g, o

\* JS_DupValue: an owner more.
LEMMA IncrefSane ==
  ASSUME NEW h, NEW own, Sane(h, own), NEW y \in Cells, Kind(h, y) # "unused"
  PROVE  Sane(Incref(h, y), Plus(own, y))
<1> DEFINE g == Incref(h, y)
           o == Plus(own, y)
<1>1. h \in Heaps /\ own \in [Cells -> Nat] /\ Used(h, y)
  BY DEF Sane, Kind, Used
<1>2. /\ g \in Heaps /\ g.bad = h.bad /\ g.links = h.links
      /\ g.objs = h.objs /\ g.tmp = h.tmp /\ g.zero = h.zero
      /\ \A x \in Cells : /\ g.cell[x].kind = h.cell[x].kind
                          /\ g.cell[x].refs = IF x = y THEN h.cell[x].refs + 1 ELSE h.cell[x].refs
                          /\ x # y => g.cell[x] = h.cell[x]
  BY <1>1, IncrefHeap
<1>3. /\ o \in [Cells -> Nat]
      /\ \A x \in Cells : o[x] = IF x = y THEN own[x] + 1 ELSE own[x]
  BY <1>1, Owners
<1> HIDE DEF g, o
<1>4. \A x \in Cells : Kind(g, x) = Kind(h, x)
  BY <1>2 DEF Kind
<1>5. LinksSound(g)
  BY <1>1, <1>2, <1>4, SameKinds DEF Sane
<1>6. ListsSound(g)
  BY <1>2, <1>4, SameLists DEF Sane
<1>7. CellsSound(g, o)
  <2>1. CellsSound(h, own)
    BY DEF Sane
  <2>2. \A x \in Cells : o[x] > 0 \/ ~(own[x] > 0)
    BY <1>1, <1>3
  <2> QED
    BY <1>2, <1>4, <2>1, <2>2 DEF CellsSound
<1>8. Counts(g, o, g.links)
  <2> SUFFICES ASSUME NEW x \in Cells PROVE Refs(g, x) = o[x] + Count(h.links, x)
    BY <1>2 DEF Counts
  <2>1. Refs(h, x) = own[x] + Count(h.links, x)
    BY DEF Sane, Counts
  <2>2. Count(h.links, x) \in Nat /\ own[x] \in Nat
    BY <1>1, CountNat DEF Sane, LinksSound
  <2> QED
    BY <1>2, <1>3, <2>1, <2>2 DEF Refs
<1> QED
  BY <1>2, <1>3, <1>5, <1>6, <1>7, <1>8 DEF Sane, g, o

\* An owner's reference becomes a link of an object.
LEMMA AddSane ==
  ASSUME NEW h, NEW own, Sane(h, own), NEW n \in Links, own[n.to] > 0,
         Kind(h, n.to) # "unused", Kind(h, n.from) = "object",
         n.weak => n.at \in Cells /\ Kind(h, n.at) = "object" /\ Kind(h, n.to) # "var",
         \A m \in h.links : ~(m.weak = n.weak /\ m.from = n.from /\ m.at = n.at)
  PROVE  Sane([h EXCEPT !.links = @ \cup {n}], Minus(own, n.to))
<1> DEFINE g == [h EXCEPT !.links = @ \cup {n}]
           o == Minus(own, n.to)
<1>1. h \in Heaps /\ own \in [Cells -> Nat] /\ n.to \in Cells /\ n.from \in Cells
  BY DEF Sane, Links
<1>2. /\ g \in Heaps /\ g.bad = h.bad /\ g.links = h.links \cup {n} /\ g.cell = h.cell
      /\ g.objs = h.objs /\ g.tmp = h.tmp /\ g.zero = h.zero
  BY <1>1 DEF Heaps
<1>3. /\ o \in [Cells -> Nat]
      /\ \A y \in Cells : o[y] = IF y = n.to THEN own[y] - 1 ELSE own[y]
  BY <1>1, Owners
<1> HIDE DEF g, o
<1>4. \A x \in Cells : Kind(g, x) = Kind(h, x)
  BY <1>2 DEF Kind
<1>5. n \notin h.links /\ IsFiniteSet(h.links)
  BY DEF Sane, LinksSound
<1>6. IsFiniteSet(g.links)
  BY <1>2, <1>5, CountAdd
<1>7. LinksSound(g)
  <2>1. \A l, m \in g.links : l.weak = m.weak /\ l.from = m.from /\ l.at = m.at => l = m
    BY <1>2 DEF Sane, LinksSound
  <2>2. \A l \in g.links : l.from \in Cells /\ l.to \in Cells
    BY <1>2 DEF Heaps, Links
  <2>3. ASSUME NEW l \in g.links
        PROVE  /\ Kind(g, l.from) \in {"object", "var"}
               /\ Kind(g, l.to) # "unused"
               /\ l.weak \/ Kind(g, l.from) = "var" => Kind(g, l.to) # "var"
               /\ l.weak => Kind(g, l.from) = "object" /\ l.at \in Cells /\ Kind(g, l.at) = "object"
               /\ Kind(g, l.from) = "var" => l.at = 1
    <3>1. CASE l = n
      BY <1>1, <1>4, <3>1
    <3>2. CASE l \in h.links
      BY <1>4, <2>2, <3>2 DEF Sane, LinksSound
    <3> QED
      BY <1>2, <3>1, <3>2
  <2> QED
    BY <1>6, <2>1, <2>3 DEF LinksSound
<1>8. ListsSound(g)
  BY <1>2, <1>4, SameLists DEF Sane
<1>9. CellsSound(g, o)
  <2> SUFFICES ASSUME NEW x \in Cells
               PROVE  /\ Kind(g, x) = "unused" => g.cell[x] = Unused
                      /\ Kind(g, x) = "var" => /\ \E m \in g.links : m.from = x
                                               /\ o[x] > 0 \/ \E m \in g.links : m.to = x
    BY DEF CellsSound
  <2>1. /\ Kind(h, x) = "unused" => h.cell[x] = Unused
        /\ Kind(h, x) = "var" => /\ \E m \in h.links : m.from = x
                                 /\ own[x] > 0 \/ \E m \in h.links : m.to = x
    BY DEF Sane, CellsSound
  <2>2. own[x] > 0 => o[x] > 0 \/ \E m \in g.links : m.to = x
    BY <1>1, <1>2, <1>3
  <2> QED
    BY <1>2, <1>4, <2>1, <2>2
<1>10. Counts(g, o, g.links)
  <2> SUFFICES ASSUME NEW x \in Cells PROVE Refs(g, x) = o[x] + Count(g.links, x)
    BY DEF Counts
  <2>1. Refs(g, x) = own[x] + Count(h.links, x)
    BY <1>2 DEF Sane, Counts, Refs
  <2>2. Count(g.links, x) = IF n.to = x THEN Count(h.links, x) + 1 ELSE Count(h.links, x)
    BY <1>2, <1>5, CountAdd
  <2>3. Count(h.links, x) \in Nat /\ own[x] \in Nat
    BY <1>1, <1>5, CountNat
  <2>4. o[x] = IF x = n.to THEN own[x] - 1 ELSE own[x]
    BY <1>3
  <2> QED
    BY <2>1, <2>2, <2>3, <2>4
<1> QED
  BY <1>2, <1>3, <1>7, <1>8, <1>9, <1>10 DEF Sane, g, o

\* JS_FreeValueRT: an owner less.
LEMMA ReleaseSane ==
  ASSUME NEW h, NEW own, Sane(h, own), NEW y \in Cells, own[y] > 0, Kind(h, y) # "var",
         Kind(h, y) # "unused"
  PROVE  /\ Refs(h, y) > 0
         /\ Sane(JS_FreeValueRT(h, y), Minus(own, y))
<1> DEFINE g == JS_FreeValueRT(h, y)
           o == Minus(own, y)
<1>1. h \in Heaps /\ own \in [Cells -> Nat] /\ ListsApart(h)
  BY DEF Sane, ListsSound
<1>2. \A x \in Cells : Count(h.links, x) \in Nat /\ Refs(h, x) = own[x] + Count(h.links, x)
  BY CountNat DEF Sane, Counts, LinksSound
<1>3. Refs(h, y) > 0
  BY <1>1, <1>2
<1>4. /\ g \in Heaps /\ g.bad = h.bad /\ g.links = h.links
      /\ \A x \in Cells : /\ g.cell[x].kind = h.cell[x].kind
                          /\ g.cell[x].refs = IF x = y THEN h.cell[x].refs - 1 ELSE h.cell[x].refs
                          /\ x # y => g.cell[x] = h.cell[x]
      /\ ListsApart(g)
      /\ IF Refs(h, y) = 1 /\ phase # "remove"
         THEN /\ Objs(g) = Objs(h) \ {y} /\ Tmp(g) = Tmp(h) \ {y}
              /\ Zero(g) = Zero(h) \cup {y}
         ELSE g.objs = h.objs /\ g.tmp = h.tmp /\ g.zero = h.zero
  BY <1>1, <1>3, FreeValueHeap
<1>5. /\ o \in [Cells -> Nat]
      /\ \A x \in Cells : o[x] = IF x = y THEN own[x] - 1 ELSE own[x]
  BY <1>1, Owners
<1> HIDE DEF g, o
<1>6. \A x \in Cells : Kind(g, x) = Kind(h, x)
  BY <1>4 DEF Kind
<1>7. LinksSound(g)
  BY <1>1, <1>4, <1>6, SameKinds DEF Sane
<1>8. ListsSound(g)
  <2>1. {x \in Cells : Used(g, x)} = {x \in Cells : Used(h, x)} /\ y \in {x \in Cells : Used(h, x)}
    BY <1>6 DEF Used, Kind
  <2>2. Objs(h) \cup Tmp(h) \cup Zero(h) = {x \in Cells : Used(h, x)}
    BY DEF Sane, ListsSound
  <2>3. Objs(g) \cup Tmp(g) \cup Zero(g) = Objs(h) \cup Tmp(h) \cup Zero(h)
    <3>1. CASE Refs(h, y) = 1 /\ phase # "remove"
      BY <1>4, <2>1, <2>2, <3>1
    <3>2. CASE ~(Refs(h, y) = 1 /\ phase # "remove")
      BY <1>4, <3>2 DEF Objs, Tmp, Zero
    <3> QED
      BY <3>1, <3>2
  <2> QED
    BY <1>4, <2>1, <2>2, <2>3 DEF ListsSound
<1>9. CellsSound(g, o)
  <2>1. CellsSound(h, own)
    BY DEF Sane
  <2> QED
    BY <1>4, <1>5, <1>6, <2>1 DEF CellsSound
<1>10. Counts(g, o, g.links)
  BY <1>1, <1>2, <1>4, <1>5 DEF Counts, Refs
<1> QED
  BY <1>3, <1>4, <1>5, <1>7, <1>8, <1>9, <1>10 DEF Sane, g, o

\* What a captured variable holds when nothing else refers to it, ...
LastVar(h, y, v) ==
  /\ v \in h.links /\ v.from = y /\ v.to # y /\ v.to \in Cells
  /\ Kind(h, v.to) \notin {"unused", "var"} /\ Refs(h, v.to) > 0
  /\ \A l \in h.links : l.to # y /\ (l.from = y => l = v) /\ (l.weak => l.at # y)

\* ... and what becomes of the heap when that variable goes.
VarGone(h, y, v, g) ==
  /\ g \in Heaps /\ g.bad = h.bad /\ g.links = h.links \ {v}
  /\ g.cell[y] = Unused
  /\ \A z \in Cells : z # y => /\ g.cell[z].kind = h.cell[z].kind /\ g.cell[z].mark = h.cell[z].mark
                               /\ g.cell[z].refs = IF z = v.to THEN h.cell[z].refs - 1 ELSE h.cell[z].refs
                               /\ z # v.to => g.cell[z] = h.cell[z]
  /\ ListsApart(g)
  /\ IF Refs(h, v.to) = 1 /\ phase # "remove"
     THEN /\ Objs(g) = Objs(h) \ {y, v.to} /\ Tmp(g) = Tmp(h) \ {y, v.to}
          /\ Zero(g) = (Zero(h) \cup {v.to}) \ {y}
     ELSE Objs(g) = Objs(h) \ {y} /\ Tmp(g) = Tmp(h) \ {y} /\ Zero(g) = Zero(h) \ {y}

\* A variable that only one owner holds holds one value, and nobody's link
\* leads to it.
LEMMA LastVarHolds ==
  ASSUME NEW h, NEW own, Sane(h, own), NEW y \in Cells, Kind(h, y) = "var", own[y] > 0,
         Refs(h, y) = 1
  PROVE  LastVar(h, y, CHOOSE l \in h.links : l.from = y) /\ own[y] = 1
<1> DEFINE v == CHOOSE l \in h.links : l.from = y
<1>1. h \in Heaps /\ own \in [Cells -> Nat] /\ LinksSound(h)
  BY DEF Sane
<1>2. Count(h.links, y) \in Nat /\ Refs(h, y) = own[y] + Count(h.links, y)
  BY CountNat DEF Sane, Counts, LinksSound
<1>3. Count(h.links, y) = 0 /\ own[y] = 1
  BY <1>1, <1>2
<1>4. \A l \in h.links : l.to # y
  BY <1>1, <1>3, CountNat DEF LinksSound
<1>5. v \in h.links /\ v.from = y
  <2>1. \E l \in h.links : l.from = y
    BY DEF Sane, CellsSound
  <2> QED
    BY <2>1
<1> HIDE DEF v
<1>6. v.to \in Cells /\ v.to # y /\ Kind(h, v.to) \notin {"unused", "var"}
  BY <1>4, <1>5, LinkSane DEF Sane, LinksSound
<1>7. Refs(h, v.to) > 0
  <2>1. Refs(h, v.to) > own[v.to] /\ Refs(h, v.to) \in Nat /\ own[v.to] \in Nat
    BY <1>1, <1>5, <1>6, LinkSane
  <2> QED
    BY <2>1
<1>8. ASSUME NEW l \in h.links, l.from = y PROVE l = v
  <2>1. l.weak \in BOOLEAN /\ v.weak \in BOOLEAN
    BY <1>1, <1>5 DEF Heaps, Links
  <2>2. ~l.weak /\ ~v.weak /\ l.at = 1 /\ v.at = 1
    BY <1>1, <1>5, <1>8 DEF LinksSound
  <2>3. l.weak = v.weak
    BY <2>1, <2>2
  <2> QED
    BY <1>1, <1>5, <1>8, <2>2, <2>3 DEF LinksSound
<1>9. \A l \in h.links : l.weak => l.at # y
  BY <1>1 DEF LinksSound
<1> QED
  BY <1>3, <1>4, <1>5, <1>6, <1>7, <1>8, <1>9 DEF LastVar, v

\* free_var_ref with another reference left only counts; with none left it
\* frees the variable and lets go of its value.
LEMMA VarHeap ==
  ASSUME NEW h \in Heaps, ListsApart(h), NEW y \in Cells, Refs(h, y) > 0
  PROVE  LET g == free_var_ref(h, y)
             v == CHOOSE l \in h.links : l.from = y
         IN  /\ Refs(h, y) # 1 => g = Decref(h, y)
             /\ Refs(h, y) = 1 /\ LastVar(h, y, v) => VarGone(h, y, v, g)
<1> DEFINE d == Decref(h, y)
           v == CHOOSE l \in h.links : l.from = y
           c == Cut(d, v)
           f == JS_FreeValueRT(c, v.to)
           u == Unlink(f, y)
           g == Free(u, y)
<1>1. free_var_ref(h, y) = IF Refs(d, y) = 0 THEN g ELSE d
  BY DEF free_var_ref
<1>2. /\ d \in Heaps /\ d.bad = h.bad /\ d.links = h.links
      /\ d.objs = h.objs /\ d.tmp = h.tmp /\ d.zero = h.zero
      /\ \A z \in Cells : /\ d.cell[z].kind = h.cell[z].kind /\ d.cell[z].mark = h.cell[z].mark
                          /\ d.cell[z].refs = IF z = y THEN h.cell[z].refs - 1 ELSE h.cell[z].refs
                          /\ z # y => d.cell[z] = h.cell[z]
  BY DecrefHeap
<1> HIDE DEF v, d
<1>3. Refs(h, y) \in Nat /\ Refs(d, y) = Refs(h, y) - 1
  BY <1>2 DEF Refs, Heaps, CellType
<1>4. Refs(d, y) = 0 <=> Refs(h, y) = 1
  BY <1>3
<1>5. ASSUME Refs(h, y) = 1, LastVar(h, y, v)
      PROVE  VarGone(h, y, v, g)
  <2>1. /\ c \in Heaps /\ c.bad = d.bad /\ c.links = d.links \ {v} /\ c.cell = d.cell
        /\ c.objs = d.objs /\ c.tmp = d.tmp /\ c.zero = d.zero
    BY <1>2, CutHeap
  <2> HIDE DEF c
  <2>2. ListsApart(c)
    BY <1>2, <2>1 DEF ListsApart, Objs, Tmp, Zero
  <2>3. v.to \in Cells /\ v.to # y /\ Refs(c, v.to) = Refs(h, v.to) /\ Refs(c, v.to) > 0
    BY <1>2, <1>5, <2>1 DEF LastVar, Refs
  <2>4. /\ f \in Heaps /\ f.bad = c.bad /\ f.links = c.links
        /\ \A z \in Cells : /\ f.cell[z].kind = c.cell[z].kind /\ f.cell[z].mark = c.cell[z].mark
                            /\ f.cell[z].refs = IF z = v.to THEN c.cell[z].refs - 1 ELSE c.cell[z].refs
                            /\ z # v.to => f.cell[z] = c.cell[z]
        /\ ListsApart(f)
        /\ IF Refs(c, v.to) = 1 /\ phase # "remove"
           THEN /\ Objs(f) = Objs(c) \ {v.to} /\ Tmp(f) = Tmp(c) \ {v.to}
                /\ Zero(f) = Zero(c) \cup {v.to}
           ELSE f.objs = c.objs /\ f.tmp = c.tmp /\ f.zero = c.zero
    BY <2>1, <2>2, <2>3, FreeValueHeap
  <2> HIDE DEF f
  <2>5. /\ u \in Heaps /\ u.bad = f.bad /\ u.links = f.links /\ u.cell = f.cell
        /\ ListsApart(u)
        /\ Objs(u) = Objs(f) \ {y} /\ Tmp(u) = Tmp(f) \ {y} /\ Zero(u) = Zero(f) \ {y}
    BY <2>4, UnlinkHeap
  <2> HIDE DEF u
  <2>6. /\ g \in Heaps /\ g.bad = u.bad /\ g.links = u.links
        /\ g.objs = u.objs /\ g.tmp = u.tmp /\ g.zero = u.zero
        /\ g.cell[y] = Unused
        /\ \A z \in Cells : z # y => g.cell[z] = u.cell[z]
    BY <2>5, FreeHeap
  <2> HIDE DEF g
  <2>7. Objs(c) = Objs(h) /\ Tmp(c) = Tmp(h) /\ Zero(c) = Zero(h)
    BY <1>2, <2>1 DEF Objs, Tmp, Zero
  <2>8. Objs(g) = Objs(f) \ {y} /\ Tmp(g) = Tmp(f) \ {y} /\ Zero(g) = Zero(f) \ {y}
    BY <2>5, <2>6 DEF Objs, Tmp, Zero
  <2>9. ListsApart(g)
    BY <2>5, <2>6 DEF ListsApart, Objs, Tmp, Zero
  <2>10. IF Refs(h, v.to) = 1 /\ phase # "remove"
         THEN /\ Objs(g) = Objs(h) \ {y, v.to} /\ Tmp(g) = Tmp(h) \ {y, v.to}
              /\ Zero(g) = (Zero(h) \cup {v.to}) \ {y}
         ELSE Objs(g) = Objs(h) \ {y} /\ Tmp(g) = Tmp(h) \ {y} /\ Zero(g) = Zero(h) \ {y}
    <3>1. CASE Refs(h, v.to) = 1 /\ phase # "remove"
      <4>1. /\ Objs(f) = Objs(h) \ {v.to} /\ Tmp(f) = Tmp(h) \ {v.to}
            /\ Zero(f) = Zero(h) \cup {v.to}
        BY <2>3, <2>4, <2>7, <3>1
      <4> QED
        BY <2>8, <3>1, <4>1
    <3>2. CASE ~(Refs(h, v.to) = 1 /\ phase # "remove")
      <4>1. Objs(f) = Objs(h) /\ Tmp(f) = Tmp(h) /\ Zero(f) = Zero(h)
        BY <2>3, <2>4, <2>7, <3>2 DEF Objs, Tmp, Zero
      <4> QED
        BY <2>8, <3>2, <4>1
    <3> QED
      BY <3>1, <3>2
  <2>11. \A z \in Cells : z # y => g.cell[z] = f.cell[z] /\ c.cell[z] = h.cell[z]
    BY <1>2, <2>1, <2>5, <2>6
  <2>12. \A z \in Cells : z # y =>
           /\ g.cell[z].kind = h.cell[z].kind /\ g.cell[z].mark = h.cell[z].mark
           /\ g.cell[z].refs = IF z = v.to THEN h.cell[z].refs - 1 ELSE h.cell[z].refs
           /\ z # v.to => g.cell[z] = h.cell[z]
    BY <2>4, <2>11
  <2>13. g.bad = h.bad /\ g.links = h.links \ {v} /\ g \in Heaps /\ g.cell[y] = Unused
    BY <1>2, <2>1, <2>4, <2>5, <2>6
  <2> QED
    BY <2>9, <2>10, <2>12, <2>13 DEF VarGone
<1> QED
  BY <1>1, <1>4, <1>5 DEF d, v

\* free_var_ref: an owner less, and perhaps the variable with it.
LEMMA VarSane ==
  ASSUME NEW h, NEW own, Sane(h, own), NEW y \in Cells, own[y] > 0, Kind(h, y) = "var"
  PROVE  /\ Refs(h, y) > 0
         /\ Sane(free_var_ref(h, y), Minus(own, y))
<1> DEFINE g == free_var_ref(h, y)
           o == Minus(own, y)
           v == CHOOSE l \in h.links : l.from = y
<1>1. h \in Heaps /\ own \in [Cells -> Nat] /\ ListsApart(h) /\ LinksSound(h)
  BY DEF Sane, ListsSound
<1>2. \A x \in Cells : Count(h.links, x) \in Nat /\ Refs(h, x) = own[x] + Count(h.links, x)
  BY CountNat DEF Sane, Counts, LinksSound
<1>3. Refs(h, y) > 0
  BY <1>1, <1>2
<1>4. /\ o \in [Cells -> Nat]
      /\ \A x \in Cells : o[x] = IF x = y THEN own[x] - 1 ELSE own[x]
  BY <1>1, Owners
<1>5. CASE Refs(h, y) # 1
  <2>1. g = Decref(h, y)
    BY <1>1, <1>3, <1>5, VarHeap
  <2>2. /\ g \in Heaps /\ g.bad = h.bad /\ g.links = h.links
        /\ g.objs = h.objs /\ g.tmp = h.tmp /\ g.zero = h.zero
        /\ \A x \in Cells : /\ g.cell[x].kind = h.cell[x].kind
                            /\ g.cell[x].refs = IF x = y THEN h.cell[x].refs - 1 ELSE h.cell[x].refs
                            /\ x # y => g.cell[x] = h.cell[x]
    BY <1>1, <1>3, <2>1, DecrefHeap
  <2> HIDE DEF g, o
  <2>3. \A x \in Cells : Kind(g, x) = Kind(h, x)
    BY <2>2 DEF Kind
  <2>4. LinksSound(g)
    BY <1>1, <2>2, <2>3, SameKinds
  <2>5. ListsSound(g)
    BY <2>2, <2>3, SameLists DEF Sane
  <2>6. o[y] > 0 \/ \E l \in h.links : l.to = y
    <3>1. o[y] + Count(h.links, y) # 0
      BY <1>1, <1>2, <1>4, <1>5
    <3>2. Count(h.links, y) # 0 \/ o[y] > 0
      BY <1>2, <1>4, <3>1
    <3> QED
      BY <1>1, <3>2, CountNat DEF LinksSound
  <2>7. CellsSound(g, o)
    <3>1. CellsSound(h, own)
      BY DEF Sane
    <3> QED
      BY <1>4, <2>2, <2>3, <2>6, <3>1 DEF CellsSound
  <2>8. Counts(g, o, g.links)
    BY <1>1, <1>2, <1>4, <2>2 DEF Counts, Refs
  <2> QED
    BY <1>3, <1>4, <2>2, <2>4, <2>5, <2>7, <2>8 DEF Sane, g, o
<1>6. CASE Refs(h, y) = 1
  <2>1. LastVar(h, y, v) /\ own[y] = 1
    BY <1>6, LastVarHolds
  <2>2. VarGone(h, y, v, g)
    BY <1>1, <1>3, <1>6, <2>1, VarHeap
  <2> HIDE DEF g, o, v
  <2>3. /\ g \in Heaps /\ g.bad = h.bad /\ g.links = h.links \ {v} /\ ListsApart(g)
        /\ Kind(g, y) = "unused" /\ g.cell[y] = Unused
        /\ \A x \in Cells : x # y => Kind(g, x) = Kind(h, x)
    BY <2>2 DEF VarGone, Kind, Unused
  <2>4. \A l \in g.links : l \in h.links /\ l \in Links /\ l.from \in Cells /\ l.to \in Cells
                           /\ l.from # y /\ l.to # y /\ (l.weak => l.at # y)
    BY <1>1, <2>1, <2>3 DEF LastVar, Heaps, Links
  <2>5. LinksSound(g)
    <3>1. IsFiniteSet(g.links)
      BY <1>1, <2>3, FS_Subset DEF LinksSound
    <3> QED
      BY <1>1, <2>3, <2>4, <3>1 DEF LinksSound
  <2>6. Objs(g) \cup Tmp(g) \cup Zero(g) = (Objs(h) \cup Tmp(h) \cup Zero(h)) \ {y}
    <3>1. v.to \in Objs(h) \cup Tmp(h) \cup Zero(h) /\ v.to # y
      BY <2>1 DEF LastVar, Sane, ListsSound, Used, Kind
    <3>2. CASE Refs(h, v.to) = 1 /\ phase # "remove"
      BY <2>2, <3>1, <3>2 DEF VarGone
    <3>3. CASE ~(Refs(h, v.to) = 1 /\ phase # "remove")
      BY <2>2, <3>1, <3>3 DEF VarGone
    <3> QED
      BY <3>2, <3>3
  <2>7. ListsSound(g)
    <3>1. {x \in Cells : Used(g, x)} = {x \in Cells : Used(h, x)} \ {y}
      BY <2>3 DEF Used, Kind
    <3> QED
      BY <2>3, <2>6, <3>1 DEF ListsSound, Sane
  <2>8. CellsSound(g, o)
    <3> SUFFICES ASSUME NEW x \in Cells
                 PROVE  /\ Kind(g, x) = "unused" => g.cell[x] = Unused
                        /\ Kind(g, x) = "var" => /\ \E m \in g.links : m.from = x
                                                 /\ o[x] > 0 \/ \E m \in g.links : m.to = x
      BY DEF CellsSound
    <3>1. CASE x = y
      BY <2>3, <3>1
    <3>2. CASE x # y
      <4>1. /\ Kind(h, x) = "unused" => h.cell[x] = Unused
            /\ Kind(h, x) = "var" => /\ \E m \in h.links : m.from = x
                                     /\ own[x] > 0 \/ \E m \in h.links : m.to = x
        BY DEF Sane, CellsSound
      <4>2. Kind(h, x) = "unused" => x # v.to
        BY <2>1 DEF LastVar
      <4>3. Kind(h, x) = "unused" => g.cell[x] = h.cell[x]
        BY <2>2, <3>2, <4>2 DEF VarGone
      <4>4. Kind(h, x) = "var" => v.to # x /\ v.from # x
        BY <2>1, <3>2 DEF LastVar
      <4>5. Kind(g, x) = Kind(h, x) /\ o[x] = own[x]
        BY <1>4, <2>3, <3>2
      <4> QED
        BY <2>3, <4>1, <4>3, <4>4, <4>5
    <3> QED
      BY <3>1, <3>2
  <2>9. Counts(g, o, g.links)
    <3> SUFFICES ASSUME NEW x \in Cells PROVE Refs(g, x) = o[x] + Count(g.links, x)
      BY DEF Counts
    <3>1. Count(g.links, x) = IF v.to = x THEN Count(h.links, x) - 1 ELSE Count(h.links, x)
      <4>1. IsFiniteSet(h.links) /\ v \in h.links
        BY <1>1, <2>1 DEF LinksSound, LastVar
      <4> QED
        BY <2>3, <4>1, CountCut
    <3>2. Count(h.links, x) \in Nat /\ Refs(h, x) = own[x] + Count(h.links, x) /\ own[x] \in Nat
      BY <1>1, <1>2
    <3>3. CASE x = y
      <4>1. Refs(g, x) = 0
        BY <2>3, <3>3 DEF Refs, Unused
      <4>2. Count(h.links, x) = 0 /\ v.to # x /\ o[x] = 0
        BY <1>4, <1>6, <2>1, <3>2, <3>3 DEF LastVar
      <4> QED
        BY <3>1, <4>1, <4>2
    <3>4. CASE x # y
      <4>1. Refs(g, x) = IF x = v.to THEN Refs(h, x) - 1 ELSE Refs(h, x)
        BY <2>2, <3>4 DEF VarGone, Refs
      <4>2. o[x] = own[x]
        BY <1>4, <3>4
      <4> QED
        BY <3>1, <3>2, <4>1, <4>2
    <3> QED
      BY <3>3, <3>4
  <2> QED
    BY <1>3, <1>4, <2>3, <2>5, <2>7, <2>8, <2>9 DEF Sane, g, o
<1> QED
  BY <1>5, <1>6

-----------------------------------------------------------------------------
(* What holds between the collections, and what a collection keeps *)

\* Outside of a collection nothing is marked, and what waits to be freed are
\* objects without a reference.
Quiet(h) ==
  /\ Tmp(h) = {}
  /\ \A x \in Cells : h.cell[x].mark = 0 /\ Kind(h, x) # "zombie"
  /\ \A x \in Zero(h) : Kind(h, x) = "object" /\ Refs(h, x) = 0

\* The cells R that a collection keeps: what the host holds is among them,
\* they lead to nothing else, and each variable has its reader among them.
Kept(h, ho, R) ==
  /\ Objs(h) = R
  /\ \A x \in R : h.cell[x].mark = 0 /\ Kind(h, x) # "zombie"
  /\ \A x \in Cells : ho[x] > 0 => x \in R
  /\ \A l \in h.links : l.from \in R => l.to \in R
  /\ \A x \in R : Kind(h, x) = "var" => \E l \in h.links : l.from \in R /\ l.to = x

\* Where the collector has put what it removes.
Removal(h) ==
  /\ \A x \in Zero(h) : Kind(h, x) # "object"
  /\ \A x \in Tmp(h) : Kind(h, x) # "zombie"

\* JS_FreeValueRT leaves a quiet heap quiet.
LEMMA ReleaseQuiet ==
  ASSUME NEW h, NEW own, Sane(h, own), NEW y \in Cells, own[y] > 0, Kind(h, y) # "var",
         Kind(h, y) # "unused", Quiet(h), phase # "remove"
  PROVE  Quiet(JS_FreeValueRT(h, y)) /\ Zero(h) \subseteq Zero(JS_FreeValueRT(h, y))
<1> DEFINE g == JS_FreeValueRT(h, y)
<1>1. h \in Heaps /\ ListsApart(h) /\ Refs(h, y) > 0
  BY ReleaseSane DEF Sane, ListsSound
<1>2. /\ \A x \in Cells : /\ g.cell[x].kind = h.cell[x].kind /\ g.cell[x].mark = h.cell[x].mark
                          /\ g.cell[x].refs = IF x = y THEN h.cell[x].refs - 1 ELSE h.cell[x].refs
      /\ IF Refs(h, y) = 1 /\ phase # "remove"
         THEN /\ Objs(g) = Objs(h) \ {y} /\ Tmp(g) = Tmp(h) \ {y}
              /\ Zero(g) = Zero(h) \cup {y}
         ELSE g.objs = h.objs /\ g.tmp = h.tmp /\ g.zero = h.zero
  BY <1>1, FreeValueHeap
<1> HIDE DEF g
<1>3. Kind(h, y) = "object" /\ y \notin Zero(h) /\ Refs(h, y) \in Nat
  BY <1>1 DEF Quiet, Heaps, CellType, Kinds, Kind, Refs
<1>4. Zero(h) \subseteq Cells
  BY <1>1, FirstList DEF Heaps, Zero, ListsApart
<1>5. CASE Refs(h, y) = 1
  BY <1>2, <1>3, <1>4, <1>5 DEF Quiet, Kind, Refs, g
<1>6. CASE Refs(h, y) # 1
  <2>1. Tmp(g) = Tmp(h) /\ Zero(g) = Zero(h)
    BY <1>2, <1>6 DEF Tmp, Zero
  <2> QED
    BY <1>2, <1>3, <1>4, <2>1 DEF Quiet, Kind, Refs, g
<1> QED
  BY <1>5, <1>6

\* And so does free_var_ref.
LEMMA VarQuiet ==
  ASSUME NEW h, NEW own, Sane(h, own), NEW y \in Cells, own[y] > 0, Kind(h, y) = "var",
         Quiet(h), phase # "remove"
  PROVE  Quiet(free_var_ref(h, y)) /\ Zero(h) \subseteq Zero(free_var_ref(h, y))
<1> DEFINE g == free_var_ref(h, y)
           v == CHOOSE l \in h.links : l.from = y
<1>1. h \in Heaps /\ ListsApart(h) /\ Refs(h, y) > 0
  BY VarSane DEF Sane, ListsSound
<1>2. y \notin Zero(h) /\ Zero(h) \subseteq Cells
  BY <1>1, FirstList DEF Heaps, Zero, ListsApart, Quiet
<1>3. CASE Refs(h, y) # 1
  <2>1. g = Decref(h, y)
    BY <1>1, <1>3, VarHeap
  <2>2. /\ g.objs = h.objs /\ g.tmp = h.tmp /\ g.zero = h.zero
        /\ \A x \in Cells : /\ g.cell[x].kind = h.cell[x].kind /\ g.cell[x].mark = h.cell[x].mark
                            /\ x # y => g.cell[x] = h.cell[x]
    BY <1>1, <2>1, DecrefHeap
  <2> HIDE DEF g
  <2>3. Tmp(g) = Tmp(h) /\ Zero(g) = Zero(h)
    BY <2>2 DEF Tmp, Zero
  <2> QED
    BY <1>2, <2>2, <2>3 DEF Quiet, Kind, Refs, g
<1>4. CASE Refs(h, y) = 1
  <2>1. LastVar(h, y, v)
    BY <1>4, LastVarHolds
  <2>2. VarGone(h, y, v, g)
    BY <1>1, <1>4, <2>1, VarHeap
  <2> HIDE DEF g, v
  <2>3. /\ Kind(h, v.to) = "object" /\ v.to \notin Zero(h) /\ v.to \in Cells /\ v.to # y
        /\ Refs(h, v.to) \in Nat
    BY <1>1, <2>1 DEF LastVar, Quiet, Heaps, CellType, Kinds, Kind, Refs
  <2>4. g.cell[y].mark = 0 /\ Kind(g, y) = "unused"
    BY <2>2 DEF VarGone, Unused, Kind
  <2>5. \A x \in Cells : g.cell[x].mark = 0 /\ Kind(g, x) # "zombie"
    BY <2>2, <2>4 DEF VarGone, Quiet, Kind
  <2>6. \A x \in Zero(h) : x # y /\ x # v.to /\ g.cell[x] = h.cell[x]
    BY <1>2, <2>2, <2>3 DEF VarGone
  <2>7. CASE Refs(h, v.to) = 1
    <3>1. Tmp(g) = {} /\ Zero(g) = Zero(h) \cup {v.to}
      BY <1>2, <2>2, <2>3, <2>7 DEF VarGone, Quiet
    <3>2. Kind(g, v.to) = "object" /\ Refs(g, v.to) = 0
      BY <2>2, <2>3, <2>7 DEF VarGone, Kind, Refs
    <3> QED
      BY <2>5, <2>6, <3>1, <3>2 DEF Quiet, Kind, Refs, g
  <2>8. CASE Refs(h, v.to) # 1
    <3>0. Tmp(g) = Tmp(h) \ {y} /\ Zero(g) = Zero(h) \ {y}
      BY <2>2, <2>8 DEF VarGone
    <3>1. Tmp(g) = {} /\ Zero(g) = Zero(h)
      BY <1>2, <3>0 DEF Quiet
    <3> QED
      BY <2>5, <2>6, <3>1 DEF Quiet, Kind, Refs, g
  <2> QED
    BY <2>7, <2>8
<1> QED
  BY <1>3, <1>4

\* free_property, whatever the property held.
LEMMA PropSane ==
  ASSUME NEW h, NEW own, Sane(h, own), NEW y \in Cells, own[y] > 0, Kind(h, y) # "unused"
  PROVE  LET g == free_property(h, y) IN
         /\ Sane(g, Minus(own, y))
         /\ Quiet(h) /\ phase # "remove" => Quiet(g) /\ Zero(h) \subseteq Zero(g)
<1>1. CASE Kind(h, y) = "var"
  <2>1. free_property(h, y) = free_var_ref(h, y)
    BY <1>1 DEF free_property, Kind
  <2> QED
    BY <1>1, <2>1, VarSane, VarQuiet
<1>2. CASE Kind(h, y) # "var"
  <2>1. free_property(h, y) = JS_FreeValueRT(h, y)
    BY <1>2 DEF free_property, Kind
  <2> QED
    BY <1>2, <2>1, ReleaseSane, ReleaseQuiet
<1> QED
  BY <1>1, <1>2

\* What is kept stays kept when links go that are weak or lead from elsewhere.
LEMMA KeptLess ==
  ASSUME NEW h \in Heaps, NEW g, NEW ho, NEW R, Kept(h, ho, R), LinksSound(h),
         R \subseteq Cells, Objs(g) = R,
         \A x \in R : g.cell[x].mark = h.cell[x].mark /\ Kind(g, x) = Kind(h, x),
         g.links \subseteq h.links,
         \A l \in h.links : l \notin g.links => l.weak \/ l.from \notin R
  PROVE  Kept(g, ho, R)
<1>1. ASSUME NEW x \in R, Kind(g, x) = "var"
      PROVE  \E l \in g.links : l.from \in R /\ l.to = x
  <2>1. PICK l \in h.links : l.from \in R /\ l.to = x
    BY <1>1 DEF Kept
  <2>2. ~l.weak
    BY <1>1, <2>1 DEF LinksSound
  <2> QED
    BY <2>1, <2>2
<1> QED
  BY <1>1 DEF Kept

\* While cycles are removed, letting go of a reference keeps what is kept.
LEMMA PropKept ==
  ASSUME NEW h, NEW own, NEW ho, NEW R, Sane(h, own), NEW y \in Cells, own[y] > 0,
         Kind(h, y) # "unused", phase = "remove", Kept(h, ho, R), Removal(h)
  PROVE  LET g == free_property(h, y) IN
         /\ Kept(g, ho, R) /\ Removal(g)
         /\ Kind(h, y) # "var" => g = JS_FreeValueRT(h, y)
<1> DEFINE g == free_property(h, y)
<1>1. h \in Heaps /\ ListsApart(h) /\ LinksSound(h) /\ R \subseteq Cells
  BY FirstList DEF Sane, ListsSound, Heaps, ListsApart, Objs, Kept
<1>2. Zero(h) \subseteq Cells /\ Tmp(h) \subseteq Cells
  BY <1>1, FirstList DEF Heaps, ListsApart, Zero, Tmp
<1>3. CASE Kind(h, y) = "var" /\ Refs(h, y) = 1
  <2> DEFINE v == CHOOSE l \in h.links : l.from = y
  <2>1. g = free_var_ref(h, y)
    BY <1>3 DEF free_property, Kind
  <2>2. LastVar(h, y, v)
    BY <1>3, LastVarHolds
  <2>3. VarGone(h, y, v, g)
    <3>1. Refs(h, y) > 0
      BY <1>3
    <3> QED
      BY <1>1, <1>3, <2>1, <2>2, <3>1, VarHeap
  <2> HIDE DEF g, v
  <2>4. y \notin R
    BY <1>3, <2>2 DEF Kept, LastVar
  <2>5. Objs(g) = R /\ Tmp(g) = Tmp(h) \ {y} /\ Zero(g) = Zero(h) \ {y}
    <3>1. Objs(g) = Objs(h) \ {y} /\ Tmp(g) = Tmp(h) \ {y} /\ Zero(g) = Zero(h) \ {y}
      BY <2>3 DEF VarGone
    <3> QED
      BY <2>4, <3>1 DEF Kept
  <2>6. \A x \in Cells : x # y => g.cell[x].mark = h.cell[x].mark /\ Kind(g, x) = Kind(h, x)
    BY <2>3 DEF VarGone, Kind
  <2>7. g.links \subseteq h.links /\ \A l \in h.links : l \notin g.links => l.from \notin R
    BY <2>2, <2>3, <2>4 DEF VarGone, LastVar
  <2>8. Kept(g, ho, R)
    BY <1>1, <2>4, <2>5, <2>6, <2>7, KeptLess
  <2>9. Removal(g)
    BY <1>2, <2>5, <2>6 DEF Removal
  <2> QED
    BY <1>3, <2>8, <2>9 DEF g
<1>4. CASE ~(Kind(h, y) = "var" /\ Refs(h, y) = 1)
  <2>1. Refs(h, y) > 0
    BY VarSane, ReleaseSane
  <2>2. /\ g.links = h.links /\ g.objs = h.objs /\ g.tmp = h.tmp /\ g.zero = h.zero
        /\ \A x \in Cells : g.cell[x].kind = h.cell[x].kind /\ g.cell[x].mark = h.cell[x].mark
        /\ Kind(h, y) # "var" => g = JS_FreeValueRT(h, y)
    <3>1. CASE Kind(h, y) = "var"
      <4>1. g = Decref(h, y)
        BY <1>1, <1>4, <2>1, <3>1, VarHeap DEF free_property, Kind
      <4> QED
        BY <1>1, <2>1, <3>1, <4>1, DecrefHeap
    <3>2. CASE Kind(h, y) # "var"
      <4>1. g = JS_FreeValueRT(h, y)
        BY <3>2 DEF free_property, Kind
      <4> QED
        BY <1>1, <2>1, <4>1, FreeValueHeap
    <3> QED
      BY <3>1, <3>2
  <2> HIDE DEF g
  <2>3. Objs(g) = R /\ Tmp(g) = Tmp(h) /\ Zero(g) = Zero(h)
    BY <2>2 DEF Objs, Tmp, Zero, Kept
  <2>4. \A x \in Cells : g.cell[x].mark = h.cell[x].mark /\ Kind(g, x) = Kind(h, x)
    BY <2>2 DEF Kind
  <2>5. Kept(g, ho, R)
    BY <1>1, <2>2, <2>3, <2>4, KeptLess
  <2>6. Removal(g)
    BY <1>2, <2>3, <2>4 DEF Removal
  <2> QED
    BY <2>2, <2>5, <2>6 DEF g
<1> QED
  BY <1>3, <1>4

\* Only a variable can go when a property is freed.
LEMMA PropKinds ==
  ASSUME NEW h, NEW own, Sane(h, own), NEW y \in Cells, own[y] > 0, Kind(h, y) # "unused",
         NEW x \in Cells, Kind(h, x) # "var"
  PROVE  Kind(free_property(h, y), x) = Kind(h, x)
<1> DEFINE g == free_property(h, y)
           v == CHOOSE l \in h.links : l.from = y
<1>1. h \in Heaps /\ ListsApart(h) /\ Refs(h, y) > 0
  BY VarSane, ReleaseSane DEF Sane, ListsSound
<1>2. CASE Kind(h, y) = "var" /\ Refs(h, y) = 1
  <2>1. VarGone(h, y, v, g)
    BY <1>1, <1>2, LastVarHolds, VarHeap DEF free_property, Kind
  <2> HIDE DEF g, v
  <2>2. x # y
    BY <1>2
  <2>3. Kind(g, x) = Kind(h, x)
    BY <2>1, <2>2 DEF VarGone, Kind
  <2> QED
    BY <2>3 DEF g
<1>3. CASE Kind(h, y) = "var" /\ Refs(h, y) # 1
  <2>1. g = Decref(h, y)
    BY <1>1, <1>3, VarHeap DEF free_property, Kind
  <2> QED
    BY <1>1, <2>1, DecrefHeap DEF Kind
<1>4. CASE Kind(h, y) # "var"
  <2>1. g = JS_FreeValueRT(h, y)
    BY <1>4 DEF free_property, Kind
  <2> QED
    BY <1>1, <2>1, FreeValueHeap DEF Kind
<1> QED
  BY <1>2, <1>3, <1>4

-----------------------------------------------------------------------------
(* The invariant *)

Phases == {"run", "free", "decref", "scan", "restore", "remove", "swept"}
Loops  == [cell : Cells \cup {None}, link : Cells \cup {None}, todo : SUBSET Links]

\* The types of the variables.
TypeOK ==
  /\ heap \in Heaps
  /\ phase \in Phases
  /\ loop \in Loops
  /\ host \in [Cells -> Nat]
  /\ reached \in SUBSET Cells

\* In every phase the links and the lists are sound, nothing freed was used,
\* and the host holds objects.
Common(h, ho) ==
  /\ h \in Heaps /\ ho \in [Cells -> Nat] /\ h.bad = FALSE
  /\ LinksSound(h) /\ CellsSound(h, ho) /\ ListsSound(h)
  /\ \A x \in Cells : ho[x] > 0 => Kind(h, x) = "object"

NoZombies(h) == \A x \in Cells : Kind(h, x) # "zombie"

\* The links that are still in the counts while gc_decref runs: those of the
\* cells whose turn is to come, and what is left of the turn under way.
InDecref(h, lp) == {l \in h.links : h.cell[l.from].mark = 0 /\ l.from # lp.cell} \cup lp.todo

\* The links that are in the counts again when a loop over list ls is at lp.
InWalk(h, K, ls, lp) ==
  {l \in h.links : l.from \in K \cup Prior(ls, lp.cell)} \cup (Children(h, lp.cell) \ lp.todo)

DecrefInv(h, lp, ho) ==
  /\ Zero(h) = {}
  /\ lp.cell \in Objs(h) \cup {None}
  /\ lp.cell # None => lp.link = After(h.objs, lp.cell)
  /\ lp.todo \subseteq Children(h, lp.cell)
  /\ \A x \in Objs(h) : h.cell[x].mark = IF x \in Prior(h.objs, lp.cell) THEN 1 ELSE 0
  /\ \A x \in Prior(h.objs, lp.cell) : Refs(h, x) > 0
  /\ \A x \in Tmp(h) : h.cell[x].mark = 1 /\ Refs(h, x) = 0
  /\ NoZombies(h)
  /\ Counts(h, ho, InDecref(h, lp))

ScanInv(h, lp, ho, R) ==
  /\ Zero(h) = {}
  /\ lp.cell \in Objs(h) \cup {None}
  /\ lp.todo \subseteq Children(h, lp.cell)
  /\ \A x \in Objs(h) : Refs(h, x) > 0
  /\ \A x \in Tmp(h) : Refs(h, x) = 0
  /\ \A x \in Prior(h.objs, lp.cell) : h.cell[x].mark = 0
  /\ NoZombies(h)
  /\ Objs(h) \subseteq R
  /\ Counts(h, ho, InWalk(h, {}, h.objs, lp))

RestoreInv(h, lp, ho, R) ==
  /\ Zero(h) = {}
  /\ lp.cell \in Tmp(h) \cup {None}
  /\ lp.todo \subseteq Children(h, lp.cell)
  /\ NoZombies(h)
  /\ Kept(h, ho, R)
  /\ Counts(h, ho, InWalk(h, Objs(h), h.tmp, lp))

\* Reachable as a function of the links and of what the host holds.
Reach(L, ho) ==
  {x \in Cells : \A S \in SUBSET Cells :
     {y \in Cells : ho[y] > 0} \subseteq S /\ (\A l \in L : l.from \in S => l.to \in S) => x \in S}

RunInv ==
  phase = "run" => Counts(heap, host, heap.links) /\ Quiet(heap) /\ Zero(heap) = {}
FreeInv ==
  phase = "free" => Counts(heap, host, heap.links) /\ Quiet(heap) /\ loop.cell \in Zero(heap)
MarkInv ==
  /\ phase = "decref" => DecrefInv(heap, loop, host) /\ reached = Reach(heap.links, host)
  /\ phase = "scan" => ScanInv(heap, loop, host, reached) /\ reached = Reach(heap.links, host)
  /\ phase = "restore" => RestoreInv(heap, loop, host, reached)
RemoveInv ==
  phase = "remove" => Counts(heap, host, heap.links) /\ Kept(heap, host, reached) /\ Removal(heap)
SweptInv ==
  phase = "swept" => /\ Counts(heap, host, heap.links) /\ Quiet(heap) /\ Zero(heap) = {}
                     /\ Objs(heap) = reached

\* The inductive invariant.
IInv == TypeOK /\ Common(heap, host) /\ RunInv /\ FreeInv /\ MarkInv /\ RemoveInv /\ SweptInv

\* Outside of the marking phases the heap is sane.
LEMMA IInvSane ==
  ASSUME IInv, phase \in {"run", "free", "remove", "swept"}
  PROVE  Sane(heap, host)
BY DEF IInv, Common, Sane, RunInv, FreeInv, RemoveInv, SweptInv

\* A sane heap with a host that holds objects has what is common.
LEMMA SaneCommon ==
  ASSUME NEW h, NEW ho, Sane(h, ho), \A x \in Cells : ho[x] > 0 => Kind(h, x) = "object"
  PROVE  Common(h, ho)
BY DEF Sane, Common

-----------------------------------------------------------------------------
(* Script and host *)

\* The state after a call of the script: run on, or free what is left without
\* a reference.
LEMMA Settle ==
  ASSUME TypeOK, NEW h, Sane(h, host'), Quiet(h), Becomes(h),
         \A x \in Cells : host'[x] > 0 => Kind(h, x) = "object"
  PROVE  IInv'
<1>1. /\ heap' = h /\ reached' = reached
      /\ phase' = IF h.zero = <<>> THEN "run" ELSE "free"
      /\ loop' = [Idle EXCEPT !.cell = First(h.zero)]
  BY DEF Becomes
<1>2. h.zero \in Seq(Cells) /\ IsInjective(h.zero) /\ h \in Heaps
  BY DEF Sane, Heaps, ListsSound, ListsApart
<1>3. /\ First(h.zero) \in Zero(h) \cup {None} /\ (First(h.zero) = None <=> h.zero = <<>>)
      /\ (h.zero = <<>> <=> Zero(h) = {}) /\ Zero(h) \subseteq Cells
  BY <1>2, FirstList DEF Zero
<1>4. loop' \in Loops /\ loop'.cell = First(h.zero)
  BY <1>1, <1>3 DEF Idle, Loops
<1>5. TypeOK'
  BY <1>1, <1>2, <1>4 DEF TypeOK, Phases, Sane
<1>6. Common(heap', host')
  BY <1>1, SaneCommon
<1>7. Counts(heap', host', heap'.links)
  BY <1>1 DEF Sane
<1>8. RunInv' /\ FreeInv'
  BY <1>1, <1>3, <1>4, <1>7 DEF RunInv, FreeInv
<1>9. MarkInv' /\ RemoveInv' /\ SweptInv'
  BY <1>1 DEF MarkInv, RemoveInv, SweptInv
<1> QED
  BY <1>5, <1>6, <1>8, <1>9 DEF IInv

\* A call of the script that frees nothing.
LEMMA Carry ==
  ASSUME TypeOK, phase = "run", UNCHANGED <<phase, loop, reached>>, Sane(heap', host'),
         Quiet(heap'), Zero(heap') = {}, \A x \in Cells : host'[x] > 0 => Kind(heap', x) = "object"
  PROVE  IInv'
<1>1. TypeOK'
  BY DEF TypeOK, Sane
<1>2. Common(heap', host')
  BY SaneCommon
<1>3. Counts(heap', host', heap'.links)
  BY DEF Sane
<1>4. RunInv' /\ FreeInv' /\ MarkInv' /\ RemoveInv' /\ SweptInv'
  BY <1>3 DEF RunInv, FreeInv, MarkInv, RemoveInv, SweptInv
<1> QED
  BY <1>1, <1>2, <1>4 DEF IInv

\* What the script finds when it runs.
LEMMA AtRun ==
  ASSUME IInv, phase = "run"
  PROVE  /\ TypeOK /\ Sane(heap, host) /\ Quiet(heap) /\ Zero(heap) = {}
         /\ heap \in Heaps /\ host \in [Cells -> Nat]
         /\ \A x \in Cells : host[x] > 0 => Kind(heap, x) = "object"
BY IInvSane DEF IInv, RunInv, TypeOK, Common

\* JS_FreeValue of a reference the host holds.
LEMMA ReleaseStep ==
  ASSUME IInv, NEW x \in Cells, Release(x)
  PROVE  IInv'
<1>1. phase = "run" /\ host[x] > 0 /\ Becomes(JS_FreeValueRT(heap, x)) /\ host' = Minus(host, x)
  BY DEF Release, Holds, Minus
<1>2. /\ TypeOK /\ Sane(heap, host) /\ Quiet(heap) /\ host \in [Cells -> Nat] /\ heap \in Heaps
      /\ \A y \in Cells : host[y] > 0 => Kind(heap, y) = "object"
  BY <1>1, AtRun
<1>3. Kind(heap, x) # "var" /\ Kind(heap, x) # "unused" /\ phase # "remove"
  BY <1>1, <1>2
<1>4. /\ Sane(JS_FreeValueRT(heap, x), host') /\ Quiet(JS_FreeValueRT(heap, x))
      /\ Refs(heap, x) > 0
  BY <1>1, <1>2, <1>3, ReleaseSane, ReleaseQuiet
<1>5. \A y \in Cells : Kind(JS_FreeValueRT(heap, x), y) = Kind(heap, y)
  BY <1>2, <1>4, FreeValueHeap DEF Kind, Sane, ListsSound
<1>6. \A y \in Cells : host'[y] > 0 => host[y] > 0
  BY <1>1, <1>2, Owners
<1> QED
  BY <1>1, <1>2, <1>4, <1>5, <1>6, Settle

\* A reference more for the host: getProperty.
LEMMA GetPropertyStep ==
  ASSUME IInv, NEW l \in heap.links, GetProperty(l)
  PROVE  IInv'
<1>1. /\ phase = "run" /\ Kind(heap, l.to) = "object" /\ UNCHANGED <<phase, loop, reached>>
      /\ heap' = JS_DupValue(heap, l.to) /\ host' = Plus(host, l.to)
  BY DEF GetProperty, Kind, Plus
<1>2. /\ TypeOK /\ Sane(heap, host) /\ Quiet(heap) /\ host \in [Cells -> Nat] /\ heap \in Heaps
      /\ Zero(heap) = {}
      /\ \A y \in Cells : host[y] > 0 => Kind(heap, y) = "object"
  BY <1>1, AtRun
<1>3. l.to \in Cells
  BY <1>2, LinkSane
<1>4. heap' = Incref(heap, l.to) /\ Used(heap, l.to)
  BY <1>1, <1>3, HeapAssumption DEF JS_DupValue, Used, Kind
<1>5. Sane(heap', host')
  BY <1>1, <1>2, <1>3, <1>4, IncrefSane
<1>6. /\ heap'.zero = heap.zero /\ heap'.tmp = heap.tmp
      /\ \A x \in Cells : Kind(heap', x) = Kind(heap, x) /\ heap'.cell[x].mark = heap.cell[x].mark
  BY <1>2, <1>3, <1>4, IncrefHeap DEF Kind
<1>7. Quiet(heap') /\ Zero(heap') = {}
  BY <1>2, <1>6 DEF Quiet, Zero, Tmp
<1>8. \A y \in Cells : host'[y] > 0 => Kind(heap', y) = "object"
  BY <1>1, <1>2, <1>3, <1>6, Owners
<1> QED
  BY <1>1, <1>2, <1>5, <1>7, <1>8, Carry

\* add_gc_object
LEMMA NewHeap ==
  ASSUME NEW h \in Heaps, ListsSound(h), NEW x \in Cells, Kind(h, x) = "unused",
         NEW k \in {"object", "var"}
  PROVE  LET g == add_gc_object(h, x, k) IN
         /\ g \in Heaps /\ g.bad = h.bad /\ g.links = h.links /\ g.tmp = h.tmp /\ g.zero = h.zero
         /\ g.cell[x] = [kind |-> k, refs |-> 1, mark |-> 0]
         /\ \A y \in Cells : y # x => g.cell[y] = h.cell[y]
         /\ ListsSound(g)
<1> DEFINE c == [kind |-> k, refs |-> 1, mark |-> 0]
           o == Append(h.objs, x)
           g == [h EXCEPT !.cell[x] = c, !.objs = o]
<1>1. add_gc_object(h, x, k) = g
  BY DEF add_gc_object
<1>2. c \in CellType
  BY DEF CellType, Kinds
<1>3. h.objs \in Seq(Cells) /\ IsInjective(h.objs) /\ x \notin Objs(h) /\ x \notin Tmp(h) /\ x \notin Zero(h)
  BY DEF Heaps, ListsSound, ListsApart, Used, Kind
<1>4. o \in Seq(Cells) /\ IsInjective(o) /\ Range(o) = Objs(h) \cup {x}
  BY <1>3, AppendList DEF Objs
<1> HIDE DEF c, o
<1>5. /\ g \in Heaps /\ g.bad = h.bad /\ g.links = h.links /\ g.tmp = h.tmp /\ g.zero = h.zero
      /\ g.cell[x] = c /\ g.objs = o
      /\ \A y \in Cells : y # x => g.cell[y] = h.cell[y]
  BY <1>2, <1>4 DEF Heaps
<1> HIDE DEF g
<1>6. Objs(g) = Objs(h) \cup {x} /\ Tmp(g) = Tmp(h) /\ Zero(g) = Zero(h)
  BY <1>4, <1>5 DEF Objs, Tmp, Zero
<1>7. ListsApart(g)
  BY <1>3, <1>4, <1>5, <1>6 DEF ListsSound, ListsApart
<1>8. Used(g, x)
  BY <1>5 DEF c, Used
<1>9. {y \in Cells : Used(g, y)} = {y \in Cells : Used(h, y)} \cup {x}
  BY <1>5, <1>8 DEF Used
<1>10. ListsSound(g)
  BY <1>6, <1>7, <1>9 DEF ListsSound
<1> QED
  BY <1>1, <1>5, <1>10 DEF c

\* Nothing refers to a free cell.
LEMMA Unreferred ==
  ASSUME NEW h, NEW own, Sane(h, own), NEW x \in Cells, Kind(h, x) = "unused"
  PROVE  /\ \A l \in h.links : l.from # x /\ l.to # x /\ (l.weak => l.at # x)
         /\ Count(h.links, x) = 0 /\ own[x] = 0
<1>1. \A l \in h.links : l.from # x /\ l.to # x /\ (l.weak => l.at # x)
  BY DEF Sane, LinksSound
<1>2. Count(h.links, x) = 0
  BY <1>1, CountNat DEF Sane, LinksSound
<1>3. Refs(h, x) = 0 /\ Refs(h, x) = own[x] + Count(h.links, x) /\ own[x] \in Nat
  BY DEF Sane, CellsSound, Counts, Unused, Refs
<1> QED
  BY <1>1, <1>2, <1>3

\* A new object, with the reference its maker gets.
LEMMA NewSane ==
  ASSUME NEW h, NEW own, Sane(h, own), NEW x \in Cells, Kind(h, x) = "unused"
  PROVE  Sane(add_gc_object(h, x, "object"), Plus(own, x))
<1> DEFINE g == add_gc_object(h, x, "object")
           o == Plus(own, x)
<1>1. h \in Heaps /\ own \in [Cells -> Nat] /\ ListsSound(h) /\ LinksSound(h) /\ CellsSound(h, own)
  BY DEF Sane
<1>2. /\ g \in Heaps /\ g.bad = h.bad /\ g.links = h.links
      /\ g.cell[x] = [kind |-> "object", refs |-> 1, mark |-> 0]
      /\ \A y \in Cells : y # x => g.cell[y] = h.cell[y]
      /\ ListsSound(g)
  BY <1>1, NewHeap
<1>3. /\ o \in [Cells -> Nat]
      /\ \A y \in Cells : o[y] = IF y = x THEN own[y] + 1 ELSE own[y]
  BY <1>1, Owners
<1> HIDE DEF g, o
<1>4. /\ \A l \in h.links : l.from # x /\ l.to # x /\ (l.weak => l.at # x)
      /\ Count(h.links, x) = 0 /\ own[x] = 0
  BY Unreferred
<1>5. Kind(g, x) = "object" /\ Refs(g, x) = 1
  BY <1>2 DEF Kind, Refs
<1>6. \A y \in Cells : y # x => Kind(g, y) = Kind(h, y) /\ Refs(g, y) = Refs(h, y)
  BY <1>2 DEF Kind, Refs
<1>7. \A l \in g.links : l.from \in Cells /\ l.to \in Cells
  BY <1>2 DEF Heaps, Links
<1>8. LinksSound(g)
  BY <1>1, <1>2, <1>4, <1>6, <1>7 DEF LinksSound
<1>9. CellsSound(g, o)
  BY <1>1, <1>2, <1>3, <1>5, <1>6 DEF CellsSound
<1>10. Counts(g, o, g.links)
  <2>1. Counts(h, own, h.links)
    BY DEF Sane
  <2> QED
    BY <1>2, <1>3, <1>4, <1>5, <1>6, <2>1 DEF Counts
<1> QED
  BY <1>2, <1>3, <1>8, <1>9, <1>10 DEF Sane, g, o

\* A new variable that takes over an owner's reference to y.
LEMMA NewVarSane ==
  ASSUME NEW h, NEW own, Sane(h, own), NEW x \in Cells, Kind(h, x) = "unused",
         NEW y \in Cells, own[y] > 0, Kind(h, y) = "object"
  PROVE  Sane([add_gc_object(h, x, "var") EXCEPT !.links = @ \cup {Prop(x, 1, y)}],
              Plus(Minus(own, y), x))
<1> DEFINE a == add_gc_object(h, x, "var")
           n == Prop(x, 1, y)
           g == [a EXCEPT !.links = @ \cup {n}]
           o == Plus(Minus(own, y), x)
<1>1. h \in Heaps /\ own \in [Cells -> Nat] /\ ListsSound(h) /\ LinksSound(h) /\ CellsSound(h, own)
  BY DEF Sane
<1>2. /\ a \in Heaps /\ a.bad = h.bad /\ a.links = h.links
      /\ a.cell[x] = [kind |-> "var", refs |-> 1, mark |-> 0]
      /\ \A z \in Cells : z # x => a.cell[z] = h.cell[z]
      /\ ListsSound(a)
  BY <1>1, NewHeap
<1> HIDE DEF a
<1>3. n \in Links /\ n.from = x /\ n.to = y /\ n.at = 1 /\ n.weak = FALSE
  BY DEF Prop, Links
<1> HIDE DEF n
<1>4. /\ g \in Heaps /\ g.bad = h.bad /\ g.links = h.links \cup {n}
      /\ g.cell = a.cell /\ g.objs = a.objs /\ g.tmp = a.tmp /\ g.zero = a.zero
  BY <1>2, <1>3 DEF Heaps
<1>5. x # y
  OBVIOUS
<1>6. /\ o \in [Cells -> Nat]
      /\ \A z \in Cells : o[z] = IF z = x THEN own[z] + 1 ELSE IF z = y THEN own[z] - 1 ELSE own[z]
  <2>1. /\ Minus(own, y) \in [Cells -> Nat]
        /\ \A z \in Cells : Minus(own, y)[z] = IF z = y THEN own[z] - 1 ELSE own[z]
    BY <1>1, Owners
  <2>2. /\ o \in [Cells -> Nat]
        /\ \A z \in Cells : o[z] = IF z = x THEN Minus(own, y)[z] + 1 ELSE Minus(own, y)[z]
    BY <2>1, Owners
  <2> QED
    BY <1>5, <2>1, <2>2
<1> HIDE DEF g, o
<1>7. /\ \A l \in h.links : l.from # x /\ l.to # x /\ (l.weak => l.at # x)
      /\ Count(h.links, x) = 0 /\ own[x] = 0
  BY Unreferred
<1>8. Kind(g, x) = "var" /\ Refs(g, x) = 1
  BY <1>2, <1>4 DEF Kind, Refs
<1>9. \A z \in Cells : z # x => /\ Kind(g, z) = Kind(h, z) /\ Refs(g, z) = Refs(h, z)
                                /\ g.cell[z] = h.cell[z]
  BY <1>2, <1>4 DEF Kind, Refs
<1>10. IsFiniteSet(h.links) /\ n \notin h.links
  BY <1>1, <1>3, <1>7 DEF LinksSound
<1>11. LinksSound(g)
  <2>1. IsFiniteSet(g.links)
    BY <1>4, <1>10, FS_AddElement
  <2>2. \A l, m \in g.links : l.weak = m.weak /\ l.from = m.from /\ l.at = m.at => l = m
    BY <1>1, <1>3, <1>4, <1>7 DEF LinksSound
  <2>3. \A l \in h.links : l.from \in Cells /\ l.to \in Cells
    BY <1>1 DEF Heaps, Links
  <2>4. ASSUME NEW l \in g.links
        PROVE  /\ Kind(g, l.from) \in {"object", "var"}
               /\ Kind(g, l.to) # "unused"
               /\ l.weak \/ Kind(g, l.from) = "var" => Kind(g, l.to) # "var"
               /\ l.weak => Kind(g, l.from) = "object" /\ l.at \in Cells /\ Kind(g, l.at) = "object"
               /\ Kind(g, l.from) = "var" => l.at = 1
    <3>1. CASE l = n
      BY <1>3, <1>5, <1>8, <1>9, <3>1
    <3>2. CASE l \in h.links
      BY <1>1, <1>7, <1>9, <2>3, <3>2 DEF LinksSound
    <3> QED
      BY <1>4, <3>1, <3>2
  <2> QED
    BY <2>1, <2>2, <2>4 DEF LinksSound
<1>12. CellsSound(g, o)
  <2> SUFFICES ASSUME NEW z \in Cells
               PROVE  /\ Kind(g, z) = "unused" => g.cell[z] = Unused
                      /\ Kind(g, z) = "var" => /\ \E m \in g.links : m.from = z
                                               /\ o[z] > 0 \/ \E m \in g.links : m.to = z
    BY DEF CellsSound
  <2>1. CASE z = x
    BY <1>3, <1>4, <1>6, <1>7, <1>8, <2>1
  <2>2. CASE z # x
    <3>1. Kind(h, z) = "var" => z # y /\ o[z] = own[z]
      BY <1>6, <2>2
    <3> QED
      BY <1>1, <1>4, <1>9, <2>2, <3>1 DEF CellsSound
  <2> QED
    BY <2>1, <2>2
<1>13. Counts(g, o, g.links)
  <2> SUFFICES ASSUME NEW z \in Cells PROVE Refs(g, z) = o[z] + Count(g.links, z)
    BY DEF Counts
  <2>1. Count(g.links, z) = IF z = y THEN Count(h.links, z) + 1 ELSE Count(h.links, z)
    BY <1>3, <1>4, <1>10, CountAdd
  <2>2. Count(h.links, z) \in Nat /\ own[z] \in Nat /\ Refs(h, z) = own[z] + Count(h.links, z)
    BY <1>1, <1>10, CountNat DEF Sane, Counts
  <2>3. CASE z = x
    BY <1>5, <1>6, <1>7, <1>8, <2>1, <2>3
  <2>4. CASE z # x
    BY <1>6, <1>9, <2>1, <2>2, <2>4
  <2> QED
    BY <2>3, <2>4
<1>14. ListsSound(g)
  <2>1. \A z \in Cells : Kind(g, z) = Kind(a, z)
    BY <1>4 DEF Kind
  <2> QED
    BY <1>2, <1>4, <2>1, SameLists
<1> QED
  BY <1>4, <1>6, <1>11, <1>12, <1>13, <1>14 DEF Sane, g, o, n, a

\* js_malloc finds a free cell if there is one.
LEMMA FreshUnused ==
  ASSUME \E x \in Cells : ~Used(heap, x)
  PROVE  Fresh \in Cells /\ Kind(heap, Fresh) = "unused"
BY DEF Fresh, Used, Kind

\* JS_NewObject
LEMMA NewObjectStep ==
  ASSUME IInv, JS_NewObject
  PROVE  IInv'
<1> DEFINE f == Fresh
<1>1. /\ phase = "run" /\ UNCHANGED <<phase, loop, reached>>
      /\ heap' = add_gc_object(heap, f, "object") /\ host' = [host EXCEPT ![f] = 1]
  BY DEF JS_NewObject
<1>2. f \in Cells /\ Kind(heap, f) = "unused"
  BY FreshUnused DEF JS_NewObject
<1> HIDE DEF f
<1>3. /\ TypeOK /\ Sane(heap, host) /\ Quiet(heap) /\ host \in [Cells -> Nat] /\ heap \in Heaps
      /\ Zero(heap) = {}
      /\ \A y \in Cells : host[y] > 0 => Kind(heap, y) = "object"
  BY <1>1, AtRun
<1>4. host[f] = 0
  BY <1>2, <1>3, Unreferred
<1>5. host' = Plus(host, f)
  BY <1>1, <1>2, <1>3, <1>4 DEF Plus
<1>6. Sane(heap', host')
  <2>1. Sane(add_gc_object(heap, f, "object"), Plus(host, f))
    BY <1>2, <1>3, NewSane
  <2> QED
    BY <1>1, <1>5, <2>1
<1>7. /\ heap'.tmp = heap.tmp /\ heap'.zero = heap.zero
      /\ heap'.cell[f] = [kind |-> "object", refs |-> 1, mark |-> 0]
      /\ \A y \in Cells : y # f => heap'.cell[y] = heap.cell[y]
  BY <1>1, <1>2, <1>3, NewHeap DEF Sane
<1>8. Quiet(heap') /\ Zero(heap') = {}
  BY <1>3, <1>7 DEF Quiet, Tmp, Zero, Kind
<1>9. \A y \in Cells : host'[y] > 0 => Kind(heap', y) = "object"
  BY <1>1, <1>2, <1>3, <1>7 DEF Kind
<1> QED
  BY <1>1, <1>3, <1>6, <1>8, <1>9, Carry

\* A heap is as quiet as another with the same kinds, marks and lists.
LEMMA QuietSame ==
  ASSUME NEW h, NEW g, Quiet(h), Zero(h) = {}, g.tmp = h.tmp, g.zero = h.zero,
         \A x \in Cells : Kind(g, x) = Kind(h, x) /\ g.cell[x].mark = h.cell[x].mark
  PROVE  Quiet(g) /\ Zero(g) = {}
BY DEF Quiet, Tmp, Zero

\* The links at the place of n: one at most.
Place(h, n) == {m \in h.links : m.weak = n.weak /\ m.from = n.from /\ m.at = n.at}

\* A link may be stored: an owner has the reference for it.
Storable(h, own, n) ==
  /\ n \in Links /\ own[n.to] > 0
  /\ Kind(h, n.to) # "unused" /\ Kind(h, n.from) = "object"
  /\ n.weak => n.at \in Cells /\ Kind(h, n.at) = "object" /\ Kind(h, n.to) # "var"

\* A place holds one link.
LEMMA OnePlace ==
  ASSUME NEW h, NEW own, Sane(h, own), NEW n, NEW l \in Place(h, n)
  PROVE  Place(h, n) = {l} /\ l \in h.links /\ l.from = n.from /\ l.weak = n.weak
BY DEF Place, Sane, LinksSound

\* The new value is in place, the old one is with its owner.
LEMMA StoreSane ==
  ASSUME NEW h, NEW own, Sane(h, own), NEW n, Storable(h, own, n)
  PROVE  LET d == [h EXCEPT !.links = (@ \ Place(h, n)) \cup {n}] IN
         /\ d.tmp = h.tmp /\ d.zero = h.zero /\ d.cell = h.cell
         /\ Place(h, n) = {} => Sane(d, Minus(own, n.to))
         /\ \A l \in Place(h, n) : Sane(d, Minus(Plus(own, l.to), n.to))
<1> DEFINE d == [h EXCEPT !.links = (@ \ Place(h, n)) \cup {n}]
<1>1. h \in Heaps /\ own \in [Cells -> Nat]
  BY DEF Sane
<1>2. d.tmp = h.tmp /\ d.zero = h.zero /\ d.cell = h.cell
  BY <1>1 DEF Heaps
<1>3. ASSUME Place(h, n) = {} PROVE Sane(d, Minus(own, n.to))
  <2>1. d = [h EXCEPT !.links = @ \cup {n}]
    BY <1>1, <1>3 DEF Heaps
  <2>2. \A m \in h.links : ~(m.weak = n.weak /\ m.from = n.from /\ m.at = n.at)
    BY <1>3 DEF Place
  <2>3. Sane([h EXCEPT !.links = @ \cup {n}], Minus(own, n.to))
    BY <2>2, AddSane DEF Storable
  <2> HIDE DEF d
  <2> QED
    BY <2>1, <2>3
<1>4. ASSUME NEW l \in Place(h, n) PROVE Sane(d, Minus(Plus(own, l.to), n.to))
  <2> DEFINE c == Cut(h, l)
             o == Plus(own, l.to)
  <2>1. Place(h, n) = {l} /\ l \in h.links /\ l.from = n.from
    BY OnePlace
  <2>2. Kind(h, l.from) = "object" /\ l.to \in Cells
    BY <2>1, LinkSane DEF Storable
  <2>3. Sane(c, o)
    BY <2>1, <2>2, CutSane
  <2>4. c.links = h.links \ {l} /\ c.cell = h.cell
    BY <1>1, CutHeap
  <2>5. d = [c EXCEPT !.links = @ \cup {n}]
    BY <1>1, <2>1 DEF Cut, Heaps
  <2>6. o[n.to] > 0
    <3>1. n.to \in Cells /\ own[n.to] > 0
      BY DEF Storable, Links
    <3> QED
      BY <1>1, <2>2, <3>1, Owners
  <2> HIDE DEF c, o, d
  <2>7. \A m \in c.links : ~(m.weak = n.weak /\ m.from = n.from /\ m.at = n.at)
    BY <2>1, <2>4 DEF Place
  <2>8. /\ n \in Links /\ Kind(c, n.to) # "unused" /\ Kind(c, n.from) = "object"
        /\ n.weak => n.at \in Cells /\ Kind(c, n.at) = "object" /\ Kind(c, n.to) # "var"
    BY <2>4 DEF Kind, Storable
  <2>9. Sane([c EXCEPT !.links = @ \cup {n}], Minus(o, n.to))
    BY <2>3, <2>6, <2>7, <2>8, AddSane
  <2> QED
    BY <2>5, <2>9 DEF o
<1> QED
  BY <1>2, <1>3, <1>4

\* And when the old value is freed, the owner has let go of one reference.
LEMMA ReplaceSane ==
  ASSUME NEW h, NEW own, Sane(h, own), NEW n, Storable(h, own, n), Quiet(h), Zero(h) = {},
         phase # "remove"
  PROVE  LET d == [h EXCEPT !.links = (@ \ Place(h, n)) \cup {n}]
             g == IF Place(h, n) = {} THEN d ELSE free_property(d, (CHOOSE l \in Place(h, n) : TRUE).to)
         IN  /\ Sane(g, Minus(own, n.to)) /\ Quiet(g)
             /\ \A z \in Cells : Kind(h, z) # "var" => Kind(g, z) = Kind(h, z)
<1> DEFINE d == [h EXCEPT !.links = (@ \ Place(h, n)) \cup {n}]
           l == CHOOSE m \in Place(h, n) : TRUE
<1>1. h \in Heaps /\ own \in [Cells -> Nat] /\ n.to \in Cells /\ own[n.to] > 0
  BY DEF Sane, Storable, Links
<1>2. /\ d.tmp = h.tmp /\ d.zero = h.zero /\ d.cell = h.cell
      /\ Place(h, n) = {} => Sane(d, Minus(own, n.to))
      /\ \A m \in Place(h, n) : Sane(d, Minus(Plus(own, m.to), n.to))
  BY StoreSane
<1> HIDE DEF d
<1>3. \A z \in Cells : Kind(d, z) = Kind(h, z)
  BY <1>2 DEF Kind
<1>4. Quiet(d)
  BY <1>2, <1>3, QuietSame
<1>5. CASE Place(h, n) = {}
  BY <1>2, <1>3, <1>4, <1>5 DEF d
<1>6. CASE Place(h, n) # {}
  <2>1. l \in Place(h, n)
    BY <1>6
  <2> DEFINE o == Minus(Plus(own, l.to), n.to)
             g == free_property(d, l.to)
  <2>2. l \in h.links
    BY <2>1 DEF Place
  <2> HIDE DEF l
  <2>3. l.to \in Cells /\ Kind(h, l.to) # "unused"
    BY <2>2, LinkSane
  <2>4. Sane(d, o)
    BY <1>2, <2>1
  <2>5. /\ Plus(own, l.to) \in [Cells -> Nat]
        /\ \A z \in Cells : Plus(own, l.to)[z] = IF z = l.to THEN own[z] + 1 ELSE own[z]
    BY <1>1, <2>3, Owners
  <2>6. \A z \in Cells : o[z] = IF z = n.to THEN Plus(own, l.to)[z] - 1 ELSE Plus(own, l.to)[z]
    BY <1>1, <2>5, Owners
  <2>7. o[l.to] > 0
    BY <1>1, <2>3, <2>5, <2>6
  <2>8. Minus(o, l.to) = Minus(own, n.to)
    <3>1. o \in [Cells -> Nat]
      BY <2>4 DEF Sane
    <3>2. \A z \in Cells : Minus(o, l.to)[z] = IF z = l.to THEN o[z] - 1 ELSE o[z]
      BY <2>3, <3>1, Owners
    <3>3. \A z \in Cells : Minus(own, n.to)[z] = IF z = n.to THEN own[z] - 1 ELSE own[z]
      BY <1>1, Owners
    <3>4. \A z \in Cells : Minus(o, l.to)[z] = Minus(own, n.to)[z]
      BY <1>1, <2>3, <2>5, <2>6, <3>2, <3>3
    <3>5. Minus(o, l.to) = [z \in Cells |-> Minus(o, l.to)[z]]
      BY <3>1 DEF Minus
    <3>6. Minus(own, n.to) = [z \in Cells |-> Minus(own, n.to)[z]]
      BY <1>1 DEF Minus
    <3> QED
      BY <3>4, <3>5, <3>6, Zenon
  <2>9. Kind(d, l.to) # "unused"
    BY <1>3, <2>3
  <2> HIDE DEF o
  <2>10. Sane(g, Minus(own, n.to)) /\ Quiet(g)
    BY <1>4, <2>3, <2>4, <2>7, <2>8, <2>9, PropSane
  <2>11. \A z \in Cells : Kind(h, z) # "var" => Kind(g, z) = Kind(h, z)
    BY <1>3, <2>3, <2>4, <2>7, <2>9, PropKinds
  <2> QED
    BY <1>6, <2>10, <2>11 DEF d, l
<1> QED
  BY <1>5, <1>6

\* A place is emptied.
LEMMA ClearSane ==
  ASSUME NEW h, NEW own, Sane(h, own), NEW l \in h.links, Kind(h, l.from) = "object", Quiet(h),
         phase # "remove"
  PROVE  LET g == free_property(Cut(h, l), l.to) IN
         /\ Sane(g, own) /\ Quiet(g) /\ Zero(h) \subseteq Zero(g)
         /\ \A z \in Cells : Kind(h, z) # "var" => Kind(g, z) = Kind(h, z)
<1> DEFINE d == Cut(h, l)
           o == Plus(own, l.to)
           g == free_property(d, l.to)
<1>1. h \in Heaps /\ own \in [Cells -> Nat] /\ l.to \in Cells /\ Kind(h, l.to) # "unused"
  BY LinkSane DEF Sane
<1>2. Sane(d, o)
  BY CutSane
<1>3. d.cell = h.cell /\ d.tmp = h.tmp /\ d.zero = h.zero
  BY <1>1, CutHeap
<1>4. o[l.to] > 0 /\ Minus(o, l.to) = own
  BY <1>1, Owners
<1> HIDE DEF d, o
<1>5. \A z \in Cells : Kind(d, z) = Kind(h, z)
  BY <1>3 DEF Kind
<1>6. Quiet(d) /\ Zero(d) = Zero(h)
  BY <1>3 DEF Quiet, Tmp, Zero, Kind, Refs
<1>7. Kind(d, l.to) # "unused"
  BY <1>1, <1>5
<1>8. Sane(g, own) /\ Quiet(g) /\ Zero(d) \subseteq Zero(g)
  BY <1>1, <1>2, <1>4, <1>6, <1>7, PropSane
<1>9. \A z \in Cells : Kind(h, z) # "var" => Kind(g, z) = Kind(h, z)
  BY <1>1, <1>2, <1>4, <1>5, <1>7, PropKinds
<1> QED
  BY <1>6, <1>8, <1>9 DEF d

\* set_value on a slot of an object.
LEMMA SetSlotSane ==
  ASSUME NEW h, NEW own, Sane(h, own), NEW x \in Cells, NEW s \in Slots, NEW y \in Cells \cup {None},
         Kind(h, x) = "object", Quiet(h), Zero(h) = {}, phase # "remove",
         y # None => own[y] > 0 /\ Kind(h, y) # "unused"
  PROVE  LET g == SetSlot(h, x, s, y) IN
         /\ Sane(g, IF y = None THEN own ELSE Minus(own, y)) /\ Quiet(g)
         /\ \A z \in Cells : Kind(h, z) # "var" => Kind(g, z) = Kind(h, z)
<1> DEFINE old == Slot(h, x, s)
           n == Prop(x, s, y)
<1>1. h \in Heaps
  BY DEF Sane
<1>2. old = Place(h, n)
  <2>1. n.weak = FALSE /\ n.from = x /\ n.at = s
    BY DEF Prop
  <2>2. \A l \in h.links : l.weak \in BOOLEAN
    BY <1>1 DEF Heaps, Links
  <2>3. \A l \in h.links : ~l.weak <=> l.weak = n.weak
    BY <2>1, <2>2
  <2> HIDE DEF n
  <2> QED
    BY <2>1, <2>3, Zenon DEF Slot, Place
<1>3. CASE y # None
  <2>1. y \in Cells /\ n \in Links /\ n.weak = FALSE /\ n.from = x /\ n.to = y
    BY <1>3 DEF Prop, Links, Slots
  <2> DEFINE d == [h EXCEPT !.links = (@ \ Place(h, n)) \cup {n}]
             g == IF Place(h, n) = {} THEN d ELSE free_property(d, (CHOOSE l \in Place(h, n) : TRUE).to)
  <2>2. SetSlot(h, x, s, y) = g
    BY <1>2, <1>3 DEF SetSlot
  <2>3. Storable(h, own, n)
    BY <1>3, <2>1 DEF Storable
  <2> HIDE DEF n
  <2>4. /\ Sane(g, Minus(own, n.to)) /\ Quiet(g)
        /\ \A z \in Cells : Kind(h, z) # "var" => Kind(g, z) = Kind(h, z)
    BY <2>3, ReplaceSane
  <2> QED
    BY <1>3, <2>1, <2>2, <2>4
<1>4. CASE y = None /\ old = {}
  <2>1. SetSlot(h, x, s, y) = [h EXCEPT !.links = (@ \ old) \cup {}]
    BY <1>4 DEF SetSlot
  <2>2. [h EXCEPT !.links = (@ \ old) \cup {}] = h
    BY <1>1, <1>4 DEF Heaps
  <2>3. SetSlot(h, x, s, y) = h
    BY <2>1, <2>2
  <2> QED
    BY <1>4, <2>3
<1>5. CASE y = None /\ old # {}
  <2> DEFINE l == CHOOSE m \in old : TRUE
             g == free_property(Cut(h, l), l.to)
  <2>1. l \in Place(h, n)
    BY <1>2, <1>5
  <2>2. old = {l} /\ l \in h.links /\ l.from = x
    <3>1. n.from = x
      BY DEF Prop
    <3> HIDE DEF n, l
    <3> QED
      BY <1>2, <2>1, <3>1, OnePlace
  <2>3. SetSlot(h, x, s, y) = free_property([h EXCEPT !.links = (@ \ old) \cup {}], l.to)
    BY <1>5 DEF SetSlot
  <2> HIDE DEF l
  <2>4. [h EXCEPT !.links = (@ \ old) \cup {}] = Cut(h, l)
    BY <1>1, <2>2 DEF Cut, Heaps
  <2>5. SetSlot(h, x, s, y) = g
    BY <2>3, <2>4
  <2>6. /\ Sane(g, own) /\ Quiet(g)
        /\ \A z \in Cells : Kind(h, z) # "var" => Kind(g, z) = Kind(h, z)
    BY <2>2, ClearSane
  <2> QED
    BY <1>5, <2>5, <2>6
<1> QED
  BY <1>3, <1>4, <1>5

\* JS_DupValue in a quiet heap.
LEMMA DupQuiet ==
  ASSUME NEW h, NEW own, Sane(h, own), NEW y \in Cells, Kind(h, y) # "unused", Quiet(h), Zero(h) = {}
  PROVE  LET g == JS_DupValue(h, y) IN
         /\ g = Incref(h, y) /\ Sane(g, Plus(own, y)) /\ Quiet(g) /\ Zero(g) = {}
         /\ g.links = h.links /\ g.tmp = h.tmp /\ g.zero = h.zero
         /\ \A z \in Cells : Kind(g, z) = Kind(h, z) /\ g.cell[z].mark = h.cell[z].mark
<1> DEFINE g == JS_DupValue(h, y)
<1>1. h \in Heaps /\ Used(h, y)
  BY DEF Sane, Used, Kind
<1>2. g = Incref(h, y)
  BY HeapAssumption DEF JS_DupValue
<1>3. Sane(g, Plus(own, y))
  BY <1>2, IncrefSane
<1>4. /\ g.links = h.links /\ g.tmp = h.tmp /\ g.zero = h.zero
      /\ \A z \in Cells : Kind(g, z) = Kind(h, z) /\ g.cell[z].mark = h.cell[z].mark
  BY <1>1, <1>2, IncrefHeap DEF Kind
<1> HIDE DEF g
<1>5. Quiet(g) /\ Zero(g) = {}
  BY <1>4, QuietSame
<1> QED
  BY <1>2, <1>3, <1>4, <1>5 DEF g

\* setProperty, setPropertyStr and the set of an array.
LEMMA SetPropertyStep ==
  ASSUME IInv, NEW x \in Cells, NEW s \in Slots, NEW y \in Cells \cup {None}, NEW keeps \in BOOLEAN,
         SetProperty(x, s, y, keeps)
  PROVE  IInv'
<1> DEFINE h == IF keeps THEN heap ELSE JS_DupValue(heap, y)
           g == SetSlot(h, x, s, y)
<1>1. /\ phase = "run" /\ host[x] > 0 /\ (y # None => host[y] > 0) /\ (keeps => y # None)
      /\ Becomes(g)
      /\ host' = IF keeps THEN Minus(host, y) ELSE host
  BY DEF SetProperty, Holds, Minus
<1>2. /\ TypeOK /\ Sane(heap, host) /\ Quiet(heap) /\ host \in [Cells -> Nat] /\ heap \in Heaps
      /\ Zero(heap) = {}
      /\ \A z \in Cells : host[z] > 0 => Kind(heap, z) = "object"
  BY <1>1, AtRun
<1>3. PICK own : /\ own \in [Cells -> Nat]
                 /\ Sane(h, own) /\ Quiet(h) /\ Zero(h) = {}
                 /\ \A z \in Cells : Kind(h, z) = Kind(heap, z)
                 /\ y # None => own[y] > 0
                 /\ host' = IF y = None THEN own ELSE Minus(own, y)
  <2>1. CASE keeps
    <3>1. h = heap /\ host' = IF y = None THEN host ELSE Minus(host, y)
      BY <1>1, <2>1
    <3> HIDE DEF h
    <3> QED
      BY <1>1, <1>2, <3>1
  <2>2. CASE ~keeps /\ y = None
    <3>1. h = heap /\ host' = IF y = None THEN host ELSE Minus(host, y)
      BY <1>1, <2>2 DEF JS_DupValue
    <3> HIDE DEF h
    <3> QED
      BY <1>1, <1>2, <3>1
  <2>3. CASE ~keeps /\ y # None
    <3>1. h = JS_DupValue(heap, y) /\ host' = host /\ y \in Cells
      BY <1>1, <2>3
    <3>2. Kind(heap, y) # "unused"
      BY <1>1, <1>2, <2>3, <3>1
    <3> HIDE DEF h
    <3>3. /\ Sane(h, Plus(host, y)) /\ Quiet(h) /\ Zero(h) = {}
          /\ \A z \in Cells : Kind(h, z) = Kind(heap, z)
      BY <1>2, <3>1, <3>2, DupQuiet
    <3>4. Plus(host, y) \in [Cells -> Nat] /\ Plus(host, y)[y] > 0 /\ Minus(Plus(host, y), y) = host
      BY <1>2, <3>1, Owners
    <3> QED
      BY <2>3, <3>1, <3>3, <3>4
  <2> QED
    BY <2>1, <2>2, <2>3
<1> HIDE DEF h
<1>4. Kind(h, x) = "object" /\ (y # None => Kind(h, y) # "unused") /\ phase # "remove"
  BY <1>1, <1>2, <1>3
<1>5. /\ Sane(g, host') /\ Quiet(g)
      /\ \A z \in Cells : Kind(h, z) # "var" => Kind(g, z) = Kind(h, z)
  BY <1>3, <1>4, SetSlotSane
<1>6. \A z \in Cells : host'[z] > 0 => host[z] > 0
  BY <1>1, <1>2, Owners
<1> HIDE DEF g
<1>7. \A z \in Cells : host'[z] > 0 => Kind(g, z) = "object"
  BY <1>2, <1>3, <1>5, <1>6
<1> QED
  BY <1>1, <1>2, <1>5, <1>7, Settle

\* A closure captures a variable.
LEMMA CaptureStep ==
  ASSUME IInv, NEW x \in Cells, NEW y \in Cells, NEW s \in Slots, Capture(x, s, y)
  PROVE  IInv'
<1> DEFINE f == Fresh
           h == JS_DupValue(heap, y)
           a == add_gc_object(h, f, "var")
           g == [a EXCEPT !.links = @ \cup {Prop(f, 1, y)}]
<1>1. /\ phase = "run" /\ host[x] > 0 /\ host[y] > 0 /\ Slot(heap, x, s) = {}
      /\ heap' = [a EXCEPT !.links = @ \cup {Prop(f, 1, y), Prop(x, s, f)}]
      /\ UNCHANGED <<phase, loop, host, reached>>
  BY DEF Capture, Holds
<1>2. f \in Cells /\ Kind(heap, f) = "unused"
  BY FreshUnused DEF Capture
<1> HIDE DEF f
<1>3. /\ TypeOK /\ Sane(heap, host) /\ Quiet(heap) /\ host \in [Cells -> Nat] /\ heap \in Heaps
      /\ Zero(heap) = {}
      /\ \A z \in Cells : host[z] > 0 => Kind(heap, z) = "object"
  BY <1>1, AtRun
<1>4. /\ Kind(heap, x) = "object" /\ Kind(heap, y) = "object" /\ x # f /\ y # f
  BY <1>1, <1>2, <1>3
<1>5. /\ Sane(h, Plus(host, y)) /\ Quiet(h) /\ Zero(h) = {}
      /\ h.links = heap.links /\ h.tmp = heap.tmp /\ h.zero = heap.zero
      /\ \A z \in Cells : Kind(h, z) = Kind(heap, z) /\ h.cell[z].mark = heap.cell[z].mark
  BY <1>3, <1>4, DupQuiet
<1> HIDE DEF h
<1>6. Plus(host, y) \in [Cells -> Nat] /\ Plus(host, y)[y] > 0 /\ Minus(Plus(host, y), y) = host
  BY <1>3, Owners
<1>7. Sane(g, Plus(host, f))
  BY <1>2, <1>4, <1>5, <1>6, NewVarSane
<1>8. /\ a \in Heaps /\ a.links = h.links /\ a.tmp = h.tmp /\ a.zero = h.zero
      /\ a.cell[f] = [kind |-> "var", refs |-> 1, mark |-> 0]
      /\ \A z \in Cells : z # f => a.cell[z] = h.cell[z]
  BY <1>2, <1>5, NewHeap DEF Sane
<1> HIDE DEF a
<1>9. /\ g.cell = a.cell /\ g.tmp = a.tmp /\ g.zero = a.zero /\ g.links = heap.links \cup {Prop(f, 1, y)}
  BY <1>5, <1>8 DEF Heaps
<1> DEFINE n == Prop(x, s, f)
<1>10. heap' = [g EXCEPT !.links = @ \cup {n}]
  BY <1>1, <1>8 DEF Heaps
<1>11. n \in Links /\ n.weak = FALSE /\ n.from = x /\ n.at = s /\ n.to = f
  BY <1>2 DEF Prop, Links, Slots
<1>12. Prop(f, 1, y).from = f
  BY DEF Prop
<1> HIDE DEF g, n
<1>13. Kind(g, f) = "var" /\ Kind(g, x) = "object"
  BY <1>4, <1>5, <1>8, <1>9 DEF Kind
<1>14. \A m \in g.links : ~(m.weak = n.weak /\ m.from = n.from /\ m.at = n.at)
  BY <1>1, <1>4, <1>9, <1>11, <1>12 DEF Slot
<1>15. Plus(host, f)[f] > 0 /\ Minus(Plus(host, f), f) = host
  BY <1>2, <1>3, Owners
<1>16. Sane(heap', host)
  BY <1>7, <1>10, <1>11, <1>13, <1>14, <1>15, AddSane
<1>17. /\ heap'.tmp = heap.tmp /\ heap'.zero = heap.zero /\ heap'.cell = a.cell
  <2>1. g \in Heaps
    BY <1>7 DEF Sane
  <2> QED
    BY <1>5, <1>8, <1>9, <1>10, <2>1 DEF Heaps
<1>18. \A z \in Cells : /\ heap'.cell[z].mark = 0 /\ Kind(heap', z) # "zombie"
                        /\ z # f => Kind(heap', z) = Kind(heap, z)
  BY <1>3, <1>5, <1>8, <1>17 DEF Kind, Quiet
<1>19. Quiet(heap') /\ Zero(heap') = {}
  BY <1>3, <1>17, <1>18 DEF Quiet, Zero, Tmp
<1>20. \A z \in Cells : host'[z] > 0 => Kind(heap', z) = "object"
  BY <1>1, <1>2, <1>3, <1>18
<1> QED
  BY <1>1, <1>3, <1>16, <1>19, <1>20, Carry

\* Another closure captures it.
LEMMA ShareStep ==
  ASSUME IInv, NEW l \in heap.links, NEW z \in Cells, NEW t \in Slots, Share(l, z, t)
  PROVE  IInv'
<1> DEFINE v == l.to
           h == JS_DupValue(heap, v)
           n == Prop(z, t, v)
<1>1. /\ phase = "run" /\ host[z] > 0 /\ Kind(heap, v) = "var" /\ Slot(heap, z, t) = {}
      /\ heap' = [h EXCEPT !.links = @ \cup {n}]
      /\ UNCHANGED <<phase, loop, host, reached>>
  BY DEF Share, Holds, Kind
<1>2. /\ TypeOK /\ Sane(heap, host) /\ Quiet(heap) /\ host \in [Cells -> Nat] /\ heap \in Heaps
      /\ Zero(heap) = {}
      /\ \A y \in Cells : host[y] > 0 => Kind(heap, y) = "object"
  BY <1>1, AtRun
<1>3. v \in Cells
  BY <1>2, LinkSane
<1> HIDE DEF v
<1>4. /\ Sane(h, Plus(host, v)) /\ Quiet(h) /\ Zero(h) = {}
      /\ h.links = heap.links
      /\ \A y \in Cells : Kind(h, y) = Kind(heap, y) /\ h.cell[y].mark = heap.cell[y].mark
  BY <1>1, <1>2, <1>3, DupQuiet
<1> HIDE DEF h
<1>5. n \in Links /\ n.weak = FALSE /\ n.from = z /\ n.at = t /\ n.to = v
  BY <1>3 DEF Prop, Links, Slots
<1> HIDE DEF n
<1>6. \A m \in h.links : ~(m.weak = n.weak /\ m.from = n.from /\ m.at = n.at)
  BY <1>1, <1>4, <1>5 DEF Slot
<1>7. Kind(h, n.from) = "object" /\ Kind(h, n.to) # "unused"
  BY <1>1, <1>2, <1>3, <1>4, <1>5
<1>8. Plus(host, v)[v] > 0 /\ Minus(Plus(host, v), v) = host
  BY <1>2, <1>3, Owners
<1>9. Sane(heap', host)
  BY <1>1, <1>4, <1>5, <1>6, <1>7, <1>8, AddSane
<1>10. heap'.tmp = h.tmp /\ heap'.zero = h.zero /\ heap'.cell = h.cell
  BY <1>1, <1>4 DEF Sane, Heaps
<1>11. \A y \in Cells : Kind(heap', y) = Kind(h, y) /\ heap'.cell[y].mark = h.cell[y].mark
  BY <1>10 DEF Kind
<1>12. Quiet(heap') /\ Zero(heap') = {}
  BY <1>4, <1>10, <1>11, QuietSame
<1>13. \A y \in Cells : host'[y] > 0 => Kind(heap', y) = "object"
  BY <1>1, <1>2, <1>4, <1>11
<1> QED
  BY <1>1, <1>2, <1>9, <1>12, <1>13, Carry

\* js_map_set
LEMMA WeakSetStep ==
  ASSUME IInv, NEW m \in Cells, NEW k \in Cells, NEW y \in Cells, WeakSet(m, k, y)
  PROVE  IInv'
<1> DEFINE old == {l \in WeakRefs(heap, k) : l.from = m}
           l == CHOOSE r \in old : TRUE
           h == IF old = {} THEN heap ELSE JS_FreeValueRT(Cut(heap, l), l.to)
           d == JS_DupValue(h, y)
           n == Record(m, k, y)
           g == [d EXCEPT !.links = @ \cup {n}]
<1>1. /\ phase = "run" /\ host[m] > 0 /\ host[k] > 0 /\ host[y] > 0
      /\ Becomes(g) /\ host' = host
  BY DEF WeakSet, Holds
<1>2. /\ TypeOK /\ Sane(heap, host) /\ Quiet(heap) /\ host \in [Cells -> Nat] /\ heap \in Heaps
      /\ \A z \in Cells : host[z] > 0 => Kind(heap, z) = "object"
  BY <1>1, AtRun
<1>3. Kind(heap, m) = "object" /\ Kind(heap, k) = "object" /\ Kind(heap, y) = "object"
  BY <1>1, <1>2
<1>4. n \in Links /\ n.weak = TRUE /\ n.from = m /\ n.at = k /\ n.to = y
  BY DEF Record, Links, Cells
<1>5. old = Place(heap, n)
  <2>1. \A r \in heap.links : r.weak <=> r.weak = n.weak
    BY <1>2, <1>4 DEF Heaps, Links
  <2>2. \A r : r \in old <=> r \in Place(heap, n)
    BY <1>4, <2>1, Zenon DEF WeakRefs, Place
  <2> QED
    BY <2>2, Zenon
<1> HIDE DEF n, old
<1>6. /\ Sane(h, host) /\ Quiet(h)
      /\ h.links = heap.links \ old
      /\ \A z \in Cells : Kind(heap, z) # "var" => Kind(h, z) = Kind(heap, z)
  <2>1. CASE old = {}
    BY <1>2, <2>1
  <2>2. CASE old # {}
    <3>1. l \in old
      BY <2>2
    <3> HIDE DEF l
    <3>2. l \in heap.links /\ l.weak /\ old = {l}
      BY <1>2, <1>4, <1>5, <3>1, OnePlace
    <3>3. Kind(heap, l.from) = "object" /\ Kind(heap, l.to) # "var"
      BY <1>2, <3>2 DEF Sane, LinksSound
    <3>4. h = free_property(Cut(heap, l), l.to)
      BY <1>2, <2>2, <3>2, <3>3, CutHeap DEF free_property, Kind
    <3>5. /\ Sane(h, host) /\ Quiet(h)
          /\ \A z \in Cells : Kind(heap, z) # "var" => Kind(h, z) = Kind(heap, z)
      BY <1>1, <1>2, <3>2, <3>3, <3>4, ClearSane
    <3>6. h.links = heap.links \ {l}
      <4>1. /\ Sane(Cut(heap, l), Plus(host, l.to)) /\ Cut(heap, l) \in Heaps
            /\ Cut(heap, l).links = heap.links \ {l}
            /\ l.to \in Cells
        BY <1>2, <3>2, <3>3, CutSane, CutHeap DEF Heaps, Links
      <4>2. Plus(host, l.to)[l.to] > 0
        BY <1>2, <4>1, Owners
      <4>3. Kind(Cut(heap, l), l.to) # "var" /\ Kind(Cut(heap, l), l.to) # "unused"
        BY <1>2, <3>2, <3>3, CutHeap DEF Kind, Sane, LinksSound
      <4>4. Refs(Cut(heap, l), l.to) > 0
        BY <4>1, <4>2, <4>3, ReleaseSane
      <4>5. ListsApart(Cut(heap, l))
        BY <4>1 DEF Sane, ListsSound
      <4>6. JS_FreeValueRT(Cut(heap, l), l.to).links = Cut(heap, l).links
        BY <4>1, <4>4, <4>5, FreeValueHeap
      <4> QED
        BY <2>2, <4>1, <4>6
    <3> QED
      BY <3>2, <3>5, <3>6
  <2> QED
    BY <2>1, <2>2
<1> HIDE DEF h
<1>7. Kind(h, m) = "object" /\ Kind(h, k) = "object" /\ Kind(h, y) = "object"
  BY <1>3, <1>6
<1>8. /\ d = Incref(h, y) /\ Sane(d, Plus(host, y)) /\ d.links = h.links
      /\ d.tmp = h.tmp /\ d.zero = h.zero
      /\ \A z \in Cells : /\ Kind(d, z) = Kind(h, z) /\ d.cell[z].mark = h.cell[z].mark
                          /\ z # y => Refs(d, z) = Refs(h, z)
  <2>1. d = Incref(h, y)
    BY HeapAssumption DEF JS_DupValue
  <2>2. h \in Heaps /\ Used(h, y)
    BY <1>6, <1>7 DEF Sane, Used, Kind
  <2>3. Sane(d, Plus(host, y))
    BY <1>6, <1>7, <2>1, IncrefSane
  <2> QED
    BY <2>1, <2>2, <2>3, IncrefHeap DEF Kind, Refs
<1>9. y \notin Zero(h)
  <2>1. Count(h.links, y) \in Nat /\ Refs(h, y) = host[y] + Count(h.links, y)
    BY <1>6, CountNat DEF Sane, Counts, LinksSound
  <2>2. Refs(h, y) > 0
    BY <1>1, <1>2, <2>1
  <2> QED
    BY <1>6, <2>2 DEF Quiet
<1> HIDE DEF d
<1>10. Sane(g, host)
  <2>1. Plus(host, y)[y] > 0 /\ Minus(Plus(host, y), y) = host
    BY <1>2, Owners
  <2>2. \A r \in d.links : ~(r.weak = n.weak /\ r.from = n.from /\ r.at = n.at)
    BY <1>5, <1>6, <1>8 DEF Place
  <2>3. /\ Plus(host, y)[n.to] > 0 /\ Kind(d, n.to) # "unused" /\ Kind(d, n.from) = "object"
        /\ n.weak => n.at \in Cells /\ Kind(d, n.at) = "object" /\ Kind(d, n.to) # "var"
    BY <1>4, <1>7, <1>8, <2>1
  <2>4. Sane(g, Minus(Plus(host, y), n.to))
    BY <1>4, <1>8, <2>2, <2>3, AddSane
  <2> QED
    BY <1>4, <2>1, <2>4
<1>11. g.tmp = d.tmp /\ g.zero = d.zero /\ g.cell = d.cell
  BY <1>8 DEF Sane, Heaps
<1> HIDE DEF g
<1>12. \A z \in Cells : /\ Kind(g, z) = Kind(h, z) /\ g.cell[z].mark = h.cell[z].mark
                        /\ z # y => Refs(g, z) = Refs(h, z)
  <2>1. \A z \in Cells : Kind(g, z) = Kind(d, z) /\ Refs(g, z) = Refs(d, z)
    BY <1>11 DEF Kind, Refs
  <2> QED
    BY <1>8, <1>11, <2>1
<1>13. Quiet(g)
  <2>1. Tmp(g) = Tmp(h) /\ Zero(g) = Zero(h)
    BY <1>8, <1>11 DEF Tmp, Zero
  <2>2. Zero(h) \subseteq Cells
    BY <1>6 DEF Sane, Heaps, Zero, Range
  <2> QED
    BY <1>6, <1>9, <1>12, <2>1, <2>2 DEF Quiet
<1>14. \A z \in Cells : host'[z] > 0 => Kind(g, z) = "object"
  BY <1>1, <1>2, <1>6, <1>12
<1> QED
  BY <1>1, <1>2, <1>10, <1>13, <1>14, Settle

\* js_map_delete
LEMMA WeakDeleteStep ==
  ASSUME IInv, NEW l \in heap.links, WeakDelete(l)
  PROVE  IInv'
<1> DEFINE g == JS_FreeValueRT(Cut(heap, l), l.to)
<1>1. phase = "run" /\ l.weak /\ Becomes(g) /\ host' = host
  BY DEF WeakDelete
<1>2. /\ TypeOK /\ Sane(heap, host) /\ Quiet(heap) /\ heap \in Heaps
      /\ \A z \in Cells : host[z] > 0 => Kind(heap, z) = "object"
  BY <1>1, AtRun
<1>3. Kind(heap, l.from) = "object" /\ Kind(heap, l.to) # "var"
  BY <1>1, <1>2 DEF Sane, LinksSound
<1>4. g = free_property(Cut(heap, l), l.to)
  BY <1>2, <1>3, CutHeap DEF free_property, Kind
<1>5. /\ Sane(g, host) /\ Quiet(g)
      /\ \A z \in Cells : Kind(heap, z) # "var" => Kind(g, z) = Kind(heap, z)
  BY <1>1, <1>2, <1>3, <1>4, ClearSane
<1> HIDE DEF g
<1>6. \A z \in Cells : host'[z] > 0 => Kind(g, z) = "object"
  BY <1>1, <1>2, <1>5
<1> QED
  BY <1>1, <1>2, <1>5, <1>6, Settle

-----------------------------------------------------------------------------
(* Freeing an object *)

\* The first state.
LEMMA InitStep ==
  ASSUME Init
  PROVE  IInv
<1>1. /\ heap.cell = [x \in Cells |-> Unused] /\ heap.links = {} /\ heap.bad = FALSE
      /\ heap.objs = <<>> /\ heap.tmp = <<>> /\ heap.zero = <<>>
      /\ phase = "run" /\ loop = Idle /\ host = [x \in Cells |-> 0] /\ reached = {}
  BY DEF Init
<1>2. \A x \in Cells : Kind(heap, x) = "unused" /\ heap.cell[x] = Unused /\ Refs(heap, x) = 0
                       /\ heap.cell[x].mark = 0
  BY <1>1 DEF Kind, Refs, Unused
<1>3. TypeOK
  BY <1>1 DEF Init, TypeOK, Heaps, CellType, Kinds, Unused, Phases, Loops, Idle
<1>4. Objs(heap) = {} /\ Tmp(heap) = {} /\ Zero(heap) = {} /\ IsInjective(<<>>)
  BY <1>1 DEF Objs, Tmp, Zero, Range, IsInjective
<1>5. LinksSound(heap)
  BY <1>1, FS_EmptySet DEF LinksSound
<1>6. CellsSound(heap, host)
  BY <1>2 DEF CellsSound
<1>7. ListsSound(heap)
  BY <1>1, <1>2, <1>4 DEF ListsSound, ListsApart, Used, Kind
<1>8. Common(heap, host)
  BY <1>1, <1>3, <1>5, <1>6, <1>7 DEF Common, TypeOK
<1>9. Counts(heap, host, heap.links)
  <2>1. \A x \in Cells : Count(heap.links, x) = 0
    BY <1>1, CountNat, FS_EmptySet
  <2> QED
    BY <1>1, <1>2, <2>1 DEF Counts
<1>10. Quiet(heap)
  BY <1>2, <1>4 DEF Quiet
<1> QED
  BY <1>1, <1>3, <1>4, <1>8, <1>9, <1>10 DEF IInv, RunInv, FreeInv, MarkInv, RemoveInv, SweptInv

\* A step of free_object frees what one link of an object leads to: a link of
\* x itself, or a weak one.
LEMMA LetGoLink ==
  ASSUME Sane(heap, host), NEW x \in Cells, Kind(heap, x) = "object", LetGo(x)
  PROVE  \E l \in heap.links : /\ Kind(heap, l.from) = "object"
                               /\ l.weak \/ l.from = x
                               /\ heap' = free_property(Cut(heap, l), l.to)
<1>1. heap \in Heaps /\ heap.bad = FALSE
  BY DEF Sane
<1>2. ASSUME NEW l \in heap.links, l.weak
      PROVE  /\ Kind(heap, l.from) = "object" /\ Used(heap, l.from) /\ Used(heap, l.at)
             /\ JS_FreeValueRT(Cut(heap, l), l.to) = free_property(Cut(heap, l), l.to)
  <2>1. Kind(heap, l.from) = "object" /\ Kind(heap, l.at) = "object" /\ Kind(heap, l.to) # "var"
    BY <1>2 DEF Sane, LinksSound
  <2>2. Cut(heap, l).cell = heap.cell
    BY <1>1, CutHeap
  <2> QED
    BY <2>1, <2>2 DEF free_property, Kind, Used
<1>3. ASSUME NEW l, NEW y, Used(heap, y)
      PROVE  [Cut(heap, l) EXCEPT !.bad = @ \/ ~Used(heap, y)] = Cut(heap, l)
  <2>1. Cut(heap, l) \in Heaps /\ Cut(heap, l).bad = FALSE
    BY <1>1, CutHeap
  <2>2. (Cut(heap, l).bad \/ ~Used(heap, y)) = FALSE
    BY <1>3, <2>1
  <2> HIDE DEF Cut
  <2> QED
    BY <2>1, <2>2 DEF Heaps
<1>4. CASE \E l \in {m \in Children(heap, x) : ~m.weak} : heap' = free_property(Cut(heap, l), l.to)
  BY <1>4 DEF Children
<1>5. CASE \E l \in WeakRefs(heap, x) : heap' = reset_weak_ref(heap, l)
  <2>1. PICK l \in WeakRefs(heap, x) : heap' = reset_weak_ref(heap, l)
    BY <1>5
  <2>2. l \in heap.links /\ l.weak
    BY DEF WeakRefs
  <2>3. heap' = free_property(Cut(heap, l), l.to)
    BY <1>2, <1>3, <2>1, <2>2 DEF reset_weak_ref
  <2> QED
    BY <1>2, <2>2, <2>3
<1>6. CASE \E l \in {m \in Children(heap, x) : m.weak} : heap' = js_map_finalizer(heap, l)
  <2>1. PICK l \in {m \in Children(heap, x) : m.weak} : heap' = js_map_finalizer(heap, l)
    BY <1>6
  <2>2. l \in heap.links /\ l.weak
    BY DEF Children
  <2>3. heap' = free_property(Cut(heap, l), l.to)
    BY <1>2, <1>3, <2>1, <2>2 DEF js_map_finalizer
  <2> QED
    BY <1>2, <2>2, <2>3
<1> QED
  BY <1>4, <1>5, <1>6 DEF LetGo

\* An object without links and without a reference is freed.
LEMMA FinishSane ==
  ASSUME Sane(heap, host), NEW x \in Cells, Kind(heap, x) \in {"object", "zombie"}, HoldsNothing(x), Refs(heap, x) = 0
  PROVE  LET g == Free(Unlink(heap, x), x) IN
         /\ Sane(g, host) /\ g.links = heap.links
         /\ Objs(g) = Objs(heap) \ {x} /\ Tmp(g) = Tmp(heap) \ {x} /\ Zero(g) = Zero(heap) \ {x}
         /\ g.cell[x] = Unused
         /\ \A y \in Cells : y # x => g.cell[y] = heap.cell[y]
         /\ host[x] = 0 /\ \A l \in heap.links : l.to # x /\ l.from # x
<1> DEFINE u == Unlink(heap, x)
           g == Free(u, x)
<1>1. heap \in Heaps /\ ListsApart(heap) /\ host \in [Cells -> Nat]
  BY DEF Sane, ListsSound
<1>2. /\ u \in Heaps /\ u.bad = heap.bad /\ u.links = heap.links /\ u.cell = heap.cell
      /\ ListsApart(u)
      /\ Objs(u) = Objs(heap) \ {x} /\ Tmp(u) = Tmp(heap) \ {x} /\ Zero(u) = Zero(heap) \ {x}
  BY <1>1, UnlinkHeap
<1> HIDE DEF u
<1>3. /\ g \in Heaps /\ g.bad = heap.bad /\ g.links = heap.links
      /\ g.objs = u.objs /\ g.tmp = u.tmp /\ g.zero = u.zero
      /\ g.cell[x] = Unused
      /\ \A y \in Cells : y # x => g.cell[y] = heap.cell[y]
  BY <1>2, FreeHeap
<1> HIDE DEF g
<1>4. /\ Objs(g) = Objs(heap) \ {x} /\ Tmp(g) = Tmp(heap) \ {x} /\ Zero(g) = Zero(heap) \ {x}
      /\ ListsApart(g)
  BY <1>2, <1>3 DEF Objs, Tmp, Zero, ListsApart
<1>5. /\ \A l \in heap.links : l.from # x /\ (l.weak => l.at # x)
      /\ IsFiniteSet(heap.links)
  BY DEF HoldsNothing, Children, WeakRefs, Sane, LinksSound
<1>6. Count(heap.links, x) = 0 /\ host[x] = 0
  <2>1. Count(heap.links, x) \in Nat /\ host[x] \in Nat /\ Refs(heap, x) = host[x] + Count(heap.links, x)
    BY <1>1, <1>5, CountNat DEF Sane, Counts
  <2> QED
    BY <2>1
<1>7. \A l \in heap.links : l.to # x
  BY <1>5, <1>6, CountNat
<1>8. LinksSound(g)
  <2>1. \A l \in heap.links : l.from \in Cells /\ l.to \in Cells
    BY <1>1 DEF Heaps, Links
  <2>2. \A y \in Cells : y # x => Kind(g, y) = Kind(heap, y)
    BY <1>3 DEF Kind
  <2>3. LinksSound(heap)
    BY DEF Sane
  <2> QED
    BY <1>3, <1>5, <1>7, <2>1, <2>2, <2>3 DEF LinksSound
<1>9. CellsSound(g, host)
  <2>1. CellsSound(heap, host)
    BY DEF Sane
  <2>2. Kind(g, x) = "unused"
    BY <1>3 DEF Kind, Unused
  <2>3. \A y \in Cells : y # x => Kind(g, y) = Kind(heap, y)
    BY <1>3 DEF Kind
  <2> QED
    BY <1>3, <2>1, <2>2, <2>3 DEF CellsSound
<1>10. ListsSound(g)
  <2>1. Objs(heap) \cup Tmp(heap) \cup Zero(heap) = {y \in Cells : Used(heap, y)}
    BY DEF Sane, ListsSound
  <2>2. \A y \in Cells : Used(g, y) <=> y # x /\ Used(heap, y)
    BY <1>3 DEF Used, Unused
  <2>3. Objs(g) \cup Tmp(g) \cup Zero(g) = {y \in Cells : Used(g, y)}
    BY <1>4, <2>1, <2>2
  <2> QED
    BY <1>4, <2>3 DEF ListsSound
<1>11. Counts(g, host, g.links)
  <2>1. Refs(g, x) = 0
    BY <1>3 DEF Refs, Unused
  <2>2. \A y \in Cells : y # x => Refs(g, y) = Refs(heap, y)
    BY <1>3 DEF Refs
  <2>3. Counts(heap, host, heap.links)
    BY DEF Sane
  <2> QED
    BY <1>3, <1>6, <2>1, <2>2, <2>3 DEF Counts
<1>12. Sane(g, host)
  BY <1>1, <1>3, <1>8, <1>9, <1>10, <1>11 DEF Sane
<1> QED
  BY <1>3, <1>4, <1>5, <1>6, <1>7, <1>12 DEF g, u

\* free_zero_refcount
LEMMA FreeNextStep ==
  ASSUME IInv, FreeNext
  PROVE  IInv'
<1> DEFINE x == loop.cell
<1>1. phase = "free" /\ host' = host
  BY DEF FreeNext
<1>2. /\ TypeOK /\ Sane(heap, host) /\ Quiet(heap) /\ heap \in Heaps /\ x \in Zero(heap)
      /\ \A z \in Cells : host[z] > 0 => Kind(heap, z) = "object"
  BY <1>1, IInvSane DEF IInv, FreeInv, Common
<1>3. x \in Cells /\ Kind(heap, x) = "object" /\ Refs(heap, x) = 0
  <2>1. Zero(heap) \subseteq Cells
    BY <1>2, FirstList DEF Sane, Heaps, ListsSound, ListsApart, Zero
  <2> QED
    BY <1>2, <2>1 DEF Quiet
<1>4. CASE LetGo(x) /\ UNCHANGED <<phase, loop, reached>>
  <2>1. PICK l \in heap.links : /\ Kind(heap, l.from) = "object"
                                /\ heap' = free_property(Cut(heap, l), l.to)
    BY <1>2, <1>3, <1>4, LetGoLink
  <2>2. phase # "remove"
    BY <1>1
  <2>3. /\ Sane(heap', host) /\ Quiet(heap') /\ Zero(heap) \subseteq Zero(heap')
        /\ \A z \in Cells : Kind(heap, z) # "var" => Kind(heap', z) = Kind(heap, z)
    BY <1>2, <2>1, <2>2, ClearSane
  <2>4. \A z \in Cells : host'[z] > 0 => Kind(heap', z) = "object"
    BY <1>1, <1>2, <2>3
  <2>5. TypeOK'
    BY <1>1, <1>2, <1>4, <2>3 DEF TypeOK, Sane
  <2>6. Common(heap', host')
    BY <1>1, <2>3, <2>4, SaneCommon
  <2>7. Counts(heap', host', heap'.links)
    BY <1>1, <2>3 DEF Sane
  <2>8. FreeInv'
    BY <1>2, <1>4, <2>3, <2>7 DEF FreeInv
  <2>9. RunInv' /\ MarkInv' /\ RemoveInv' /\ SweptInv'
    BY <1>1, <1>4 DEF RunInv, MarkInv, RemoveInv, SweptInv
  <2> QED
    BY <2>5, <2>6, <2>8, <2>9 DEF IInv
<1>5. CASE HoldsNothing(x) /\ Becomes(free_object(heap, x))
  <2> DEFINE g == Free(Unlink(heap, x), x)
  <2>1. free_object(heap, x) = g
    BY <1>1 DEF free_object
  <2>2. /\ Sane(g, host)
        /\ Tmp(g) = Tmp(heap) \ {x} /\ Zero(g) = Zero(heap) \ {x}
        /\ g.cell[x] = Unused
        /\ \A y \in Cells : y # x => g.cell[y] = heap.cell[y]
        /\ host[x] = 0
    BY <1>2, <1>3, <1>5, FinishSane
  <2> HIDE DEF g
  <2>3. Quiet(g)
    <3>1. Zero(heap) \subseteq Cells
      BY <1>2, FirstList DEF Sane, Heaps, ListsSound, ListsApart, Zero
    <3>2. g.cell[x].mark = 0 /\ Kind(g, x) = "unused"
      BY <2>2 DEF Kind, Unused
    <3> QED
      BY <1>2, <2>2, <3>1, <3>2 DEF Quiet, Kind, Refs
  <2>4. \A z \in Cells : host'[z] > 0 => Kind(g, z) = "object"
    BY <1>1, <1>2, <2>2 DEF Kind
  <2> QED
    BY <1>1, <1>2, <1>5, <2>1, <2>2, <2>3, <2>4, Settle
<1> QED
  BY <1>4, <1>5 DEF FreeNext

-----------------------------------------------------------------------------
(* The marking loops *)

\* A cell goes to the end of tmp_obj_list.
LEMMA ToTmpHeap ==
  ASSUME NEW h \in Heaps, ListsApart(h), NEW x \in Objs(h)
  PROVE  LET g == ToTmp(h, x) IN
         /\ g \in Heaps /\ g.bad = h.bad /\ g.links = h.links /\ g.cell = h.cell
         /\ ListsApart(g)
         /\ Objs(g) = Objs(h) \ {x} /\ Tmp(g) = Tmp(h) \cup {x} /\ Zero(g) = Zero(h) \ {x}
         /\ g.objs = Without(h.objs, x)
<1> DEFINE u == Unlink(h, x)
           g == ToTmp(h, x)
<1>1. x \in Cells
  BY FirstList DEF Heaps, ListsApart, Objs
<1>2. /\ u \in Heaps /\ u.bad = h.bad /\ u.links = h.links /\ u.cell = h.cell
      /\ ListsApart(u)
      /\ Objs(u) = Objs(h) \ {x} /\ Tmp(u) = Tmp(h) \ {x} /\ Zero(u) = Zero(h) \ {x}
      /\ u.objs = Without(h.objs, x)
  BY <1>1, UnlinkHeap
<1>3. g = [u EXCEPT !.tmp = Append(@, x)]
  BY DEF ToTmp
<1> HIDE DEF u
<1>4. u.tmp \in Seq(Cells) /\ IsInjective(u.tmp) /\ x \in Cells \ Range(u.tmp)
  BY <1>1, <1>2 DEF Heaps, ListsApart, Tmp
<1>5. /\ Append(u.tmp, x) \in Seq(Cells) /\ IsInjective(Append(u.tmp, x))
      /\ Range(Append(u.tmp, x)) = Range(u.tmp) \cup {x}
  BY <1>4, AppendList
<1>6. /\ g \in Heaps /\ g.bad = u.bad /\ g.links = u.links /\ g.cell = u.cell
      /\ g.objs = u.objs /\ g.zero = u.zero /\ g.tmp = Append(u.tmp, x)
  BY <1>2, <1>3, <1>5 DEF Heaps
<1> HIDE DEF g
<1>7. Objs(g) = Objs(u) /\ Zero(g) = Zero(u) /\ Tmp(g) = Tmp(u) \cup {x} /\ IsInjective(g.tmp)
  BY <1>5, <1>6 DEF Objs, Zero, Tmp
<1>8. Tmp(g) = Tmp(h) \cup {x}
  BY <1>2, <1>7
<1>9. x \notin Objs(u) /\ x \notin Zero(u)
  BY <1>2
<1>10. ListsApart(g)
  BY <1>2, <1>6, <1>7, <1>9 DEF ListsApart
<1> QED
  BY <1>2, <1>6, <1>7, <1>8, <1>10 DEF g, u

\* A cell goes back to the end of gc_obj_list.
LEMMA ToObjsHeap ==
  ASSUME NEW h \in Heaps, ListsApart(h), NEW x \in Tmp(h)
  PROVE  LET g == ToObjs(h, x) IN
         /\ g \in Heaps /\ g.bad = h.bad /\ g.links = h.links
         /\ ListsApart(g)
         /\ Objs(g) = Objs(h) \cup {x} /\ Tmp(g) = Tmp(h) \ {x} /\ Zero(g) = Zero(h)
         /\ \A c \in Objs(h) : Prior(g.objs, c) = Prior(h.objs, c)
         /\ \A y \in Cells : /\ g.cell[y].kind = h.cell[y].kind /\ g.cell[y].refs = h.cell[y].refs
                             /\ g.cell[y].mark = IF y = x THEN 0 ELSE h.cell[y].mark
                             /\ y # x => g.cell[y] = h.cell[y]
<1> DEFINE u == Unlink(h, x)
           g == ToObjs(h, x)
<1>1. x \in Cells
  BY FirstList DEF Heaps, ListsApart, Tmp
<1>2. /\ u \in Heaps /\ u.bad = h.bad /\ u.links = h.links /\ u.cell = h.cell
      /\ ListsApart(u)
      /\ Objs(u) = Objs(h) \ {x} /\ Tmp(u) = Tmp(h) \ {x} /\ Zero(u) = Zero(h) \ {x}
      /\ u.objs = Without(h.objs, x)
  BY <1>1, UnlinkHeap
<1>3. x \notin Objs(h) /\ x \notin Zero(h)
  BY DEF ListsApart
<1>4. u.objs = h.objs
  BY <1>2, <1>3 DEF Without, Objs
<1>5. g = [u EXCEPT !.objs = Append(@, x), !.cell[x].mark = 0]
  BY DEF ToObjs
<1> HIDE DEF u
<1>6. h.objs \in Seq(Cells) /\ IsInjective(h.objs) /\ x \in Cells \ Range(h.objs)
  BY <1>1, <1>3 DEF Heaps, ListsApart, Objs
<1>7. /\ Append(h.objs, x) \in Seq(Cells) /\ IsInjective(Append(h.objs, x))
      /\ Range(Append(h.objs, x)) = Range(h.objs) \cup {x}
      /\ \A c \in Range(h.objs) : Prior(Append(h.objs, x), c) = Prior(h.objs, c)
  BY <1>6, AppendList
<1>8. /\ g.bad = u.bad /\ g.links = u.links
      /\ g.objs = Append(h.objs, x) /\ g.zero = u.zero /\ g.tmp = u.tmp
  BY <1>2, <1>4, <1>5 DEF Heaps
<1>9. g.cell = [u.cell EXCEPT ![x].mark = 0]
  BY <1>2, <1>5 DEF Heaps
<1>10. g \in Heaps
  <2>1. u.cell \in [Cells -> CellType]
    BY <1>2 DEF Heaps
  <2>2. g.cell \in [Cells -> CellType]
    BY <1>1, <1>9, <2>1 DEF CellType
  <2>3. g = [cell |-> g.cell, links |-> u.links, objs |-> Append(h.objs, x), tmp |-> u.tmp,
             zero |-> u.zero, bad |-> u.bad]
    BY <1>2, <1>4, <1>5, <1>9 DEF Heaps
  <2> DEFINE f == g.cell
  <2>4. f \in [Cells -> CellType] /\ u.links \in SUBSET Links /\ u.tmp \in Seq(Cells)
        /\ u.zero \in Seq(Cells) /\ u.bad \in BOOLEAN
    BY <1>2, <2>2 DEF Heaps
  <2>5. g = [cell |-> f, links |-> u.links, objs |-> Append(h.objs, x), tmp |-> u.tmp,
             zero |-> u.zero, bad |-> u.bad]
    BY <2>3
  <2> HIDE DEF g, f
  <2> QED
    BY <1>7, <2>4, <2>5 DEF Heaps
<1>11. \A y \in Cells : /\ g.cell[y].kind = h.cell[y].kind /\ g.cell[y].refs = h.cell[y].refs
                        /\ g.cell[y].mark = IF y = x THEN 0 ELSE h.cell[y].mark
                        /\ y # x => g.cell[y] = h.cell[y]
  <2>1. h.cell \in [Cells -> CellType]
    BY DEF Heaps
  <2> HIDE DEF g
  <2> QED
    BY <1>1, <1>2, <1>9, <2>1 DEF CellType
<1> HIDE DEF g
<1>12. /\ Objs(g) = Objs(h) \cup {x} /\ Zero(g) = Zero(u) /\ Tmp(g) = Tmp(u) /\ IsInjective(g.objs)
       /\ \A c \in Objs(h) : Prior(g.objs, c) = Prior(h.objs, c)
  BY <1>7, <1>8 DEF Objs, Zero, Tmp
<1>13. Zero(g) = Zero(h) /\ Tmp(g) = Tmp(h) \ {x}
  BY <1>2, <1>3, <1>12
<1>14. ListsApart(g)
  <2>1. IsInjective(g.tmp) /\ IsInjective(g.zero)
    BY <1>2, <1>8 DEF ListsApart
  <2> QED
    BY <1>3, <1>12, <1>13, <2>1 DEF ListsApart
<1> QED
  BY <1>2, <1>8, <1>10, <1>11, <1>12, <1>13, <1>14 DEF g

\* Counting and moving cells between the lists leaves what is common.
LEMMA MarkCommon ==
  ASSUME NEW h, NEW g \in Heaps, NEW ho, Common(h, ho), g.bad = h.bad, g.links = h.links,
         \A x \in Cells : Kind(g, x) = Kind(h, x),
         \A x \in Cells : Kind(h, x) = "unused" => g.cell[x] = h.cell[x],
         ListsApart(g),
         Objs(g) \cup Tmp(g) \cup Zero(g) = Objs(h) \cup Tmp(h) \cup Zero(h)
  PROVE  Common(g, ho)
<1>1. h \in Heaps /\ LinksSound(h) /\ CellsSound(h, ho) /\ ListsSound(h)
  BY DEF Common
<1>2. LinksSound(g)
  BY <1>1, SameKinds
<1>3. CellsSound(g, ho)
  BY <1>1 DEF CellsSound
<1>4. ListsSound(g)
  <2>1. {x \in Cells : Used(g, x)} = {x \in Cells : Used(h, x)}
    BY DEF Used, Kind
  <2> QED
    BY <1>1, <2>1 DEF ListsSound
<1> QED
  BY <1>2, <1>3, <1>4 DEF Common

\* A turn of a loop.
LEMMA TurnLoop ==
  ASSUME NEW h \in Heaps, NEW l \in Seq(Cells), IsInjective(l), NEW c \in Range(l) \cup {None}
  PROVE  LET t == Turn(h, l, c) IN
         t \in Loops /\ t.cell = c /\ t.todo = Children(h, c) /\ (c # None => t.link = After(l, c))
<1>1. Range(l) \subseteq Cells
  BY FirstList
<1>2. CASE c = None
  <2>1. Children(h, c) = {}
    BY <1>2, HeapAssumption DEF Children, Heaps, Links
  <2> QED
    BY <1>2, <2>1 DEF Turn, Idle, Loops
<1>3. CASE c # None
  <2>1. After(l, c) \in Cells \cup {None} /\ c \in Cells
    BY <1>1, <1>3, AfterList
  <2>2. Children(h, c) \subseteq Links
    BY DEF Children, Heaps
  <2> QED
    BY <1>3, <2>1, <2>2 DEF Turn, Loops
<1> QED
  BY <1>2, <1>3

\* The cell of a turn with a child to mark.
LEMMA TurnChild ==
  ASSUME Common(heap, host), loop.todo \subseteq Children(heap, loop.cell), NEW l \in loop.todo
  PROVE  /\ l \in heap.links /\ l \in Links /\ l.from = loop.cell /\ l.to \in Cells
         /\ loop.cell \in Cells /\ loop.cell # None
         /\ Used(heap, l.to) /\ l.to \in Objs(heap) \cup Tmp(heap) \cup Zero(heap)
<1>1. l \in heap.links /\ l.from = loop.cell
  BY DEF Children
<1>2. l \in Links /\ l.from \in Cells /\ l.to \in Cells
  BY <1>1 DEF Common, Heaps, Links
<1>3. Used(heap, l.to)
  BY <1>1 DEF Common, LinksSound, Used, Kind
<1>4. l.to \in Objs(heap) \cup Tmp(heap) \cup Zero(heap)
  BY <1>2, <1>3 DEF Common, ListsSound
<1> QED
  BY <1>1, <1>2, <1>3, <1>4, HeapAssumption

\* Steps of the marking loops put the invariant together.
LEMMA MarkAll ==
  ASSUME IInv, phase' \in {"decref", "scan", "restore"}, host' = host, Common(heap', host),
         loop' \in Loops, reached' \in SUBSET Cells, MarkInv'
  PROVE  IInv'
<1>1. TypeOK'
  BY DEF IInv, TypeOK, Common, Phases
<1>2. Common(heap', host')
  OBVIOUS
<1>3. RunInv' /\ FreeInv' /\ RemoveInv' /\ SweptInv'
  BY DEF RunInv, FreeInv, RemoveInv, SweptInv
<1> QED
  BY <1>1, <1>2, <1>3 DEF IInv

\* A collection starts.
LEMMA StartGCStep ==
  ASSUME IInv, StartGC
  PROVE  IInv'
<1> DEFINE c == First(heap.objs)
<1>1. /\ phase = "run" /\ phase' = "decref" /\ heap' = heap /\ host' = host
      /\ loop' = Turn(heap, heap.objs, c) /\ reached' = Reachable
  BY DEF StartGC
<1>2. /\ Common(heap, host) /\ Quiet(heap) /\ Zero(heap) = {} /\ Counts(heap, host, heap.links)
      /\ heap \in Heaps /\ TypeOK
  BY <1>1 DEF IInv, RunInv, Common
<1>3. heap.objs \in Seq(Cells) /\ IsInjective(heap.objs)
  BY <1>2 DEF Heaps, Common, ListsSound, ListsApart
<1>4. c \in Objs(heap) \cup {None} /\ Prior(heap.objs, c) = {} /\ Objs(heap) \subseteq Cells
  BY <1>3, FirstList DEF Objs
<1> HIDE DEF c
<1>5. /\ loop' \in Loops /\ loop'.cell = c /\ loop'.todo = Children(heap, c)
      /\ c # None => loop'.link = After(heap.objs, c)
  BY <1>1, <1>2, <1>3, <1>4, TurnLoop DEF Objs
<1>6. reached' = Reach(heap.links, host) /\ reached' \in SUBSET Cells
  BY <1>1 DEF Reachable, Reach, Closed, Holds
<1>7. InDecref(heap, loop') = heap.links
  <2>1. \A l \in heap.links : l.from \in Cells
    BY <1>2 DEF Heaps, Links
  <2>2. \A l \in heap.links : heap.cell[l.from].mark = 0
    BY <1>2, <2>1 DEF Quiet
  <2> QED
    BY <1>5, <2>2 DEF InDecref, Children
<1>8. DecrefInv(heap, loop', host)
  <2>1. \A x \in Objs(heap) : heap.cell[x].mark = 0
    BY <1>2, <1>4 DEF Quiet
  <2> QED
    BY <1>2, <1>4, <1>5, <1>7, <2>1 DEF DecrefInv, Quiet, NoZombies
<1>9. MarkInv'
  BY <1>1, <1>6, <1>8 DEF MarkInv
<1> QED
  BY <1>1, <1>2, <1>5, <1>6, <1>9, MarkAll

\* The links that are in the counts while gc_decref runs.
LEMMA DecrefLinks ==
  ASSUME Common(heap, host), DecrefInv(heap, loop, host), NEW l \in loop.todo
  PROVE  /\ InDecref(heap, loop) \subseteq heap.links /\ IsFiniteSet(InDecref(heap, loop))
         /\ l \in InDecref(heap, loop)
         /\ InDecref(heap, loop) \ {l}
              = {m \in heap.links : heap.cell[m.from].mark = 0 /\ m.from # loop.cell} \cup (loop.todo \ {l})
         /\ Refs(heap, l.to) > 0
<1>1. loop.todo \subseteq Children(heap, loop.cell)
  BY DEF DecrefInv
<1>2. InDecref(heap, loop) \subseteq heap.links /\ l \in InDecref(heap, loop)
  BY <1>1 DEF InDecref, Children
<1>3. IsFiniteSet(InDecref(heap, loop))
  BY <1>2, FS_Subset DEF Common, LinksSound
<1>4. l.from = loop.cell /\ l.to \in Cells
  BY <1>1, TurnChild
<1>5. Count(InDecref(heap, loop), l.to) \in Nat /\ Count(InDecref(heap, loop), l.to) # 0
  BY <1>2, <1>3, CountNat
<1>6. Refs(heap, l.to) = host[l.to] + Count(InDecref(heap, loop), l.to) /\ host[l.to] \in Nat
  BY <1>4 DEF DecrefInv, Counts, Common
<1>7. Refs(heap, l.to) > 0
  BY <1>5, <1>6
<1>8. \A m \in heap.links : m.from # loop.cell => m # l
  BY <1>4
<1>9. InDecref(heap, loop) \ {l}
              = {m \in heap.links : heap.cell[m.from].mark = 0 /\ m.from # loop.cell} \cup (loop.todo \ {l})
  BY <1>8 DEF InDecref
<1> QED
  BY <1>2, <1>3, <1>7, <1>9

\* A count goes down, and nothing moves: the child has a reference left, or
\* its own turn is to come.
LEMMA DecrefOnly ==
  ASSUME Common(heap, host), DecrefInv(heap, loop, host), NEW l \in loop.todo, NEW lp,
         lp = [loop EXCEPT !.todo = @ \ {l}], loop \in Loops
  PROVE  LET d == Decref(heap, l.to) IN
         /\ Common(d, host)
         /\ Refs(d, l.to) # 0 \/ d.cell[l.to].mark # 1 => DecrefInv(d, lp, host)
         /\ Counts(d, host, InDecref(d, lp))
         /\ Refs(d, l.to) = Refs(heap, l.to) - 1
         /\ l.to \in Objs(heap)
<1> DEFINE d == Decref(heap, l.to)
           y == l.to
           S == InDecref(heap, loop)
<1>1. heap \in Heaps /\ ListsApart(heap) /\ loop.todo \subseteq Children(heap, loop.cell)
  BY DEF Common, ListsSound, DecrefInv
<1>2. /\ l \in heap.links /\ y \in Cells /\ loop.cell \in Cells /\ loop.cell # None
      /\ y \in Objs(heap) \cup Tmp(heap) \cup Zero(heap)
  BY <1>1, TurnChild
<1>3. /\ Refs(heap, y) > 0 /\ S \subseteq heap.links /\ IsFiniteSet(S) /\ l \in S
      /\ S \ {l} = {m \in heap.links : heap.cell[m.from].mark = 0 /\ m.from # loop.cell} \cup (loop.todo \ {l})
  BY DecrefLinks
<1>4. /\ d \in Heaps /\ d.bad = heap.bad /\ d.links = heap.links
      /\ d.objs = heap.objs /\ d.tmp = heap.tmp /\ d.zero = heap.zero
      /\ \A x \in Cells : /\ d.cell[x].kind = heap.cell[x].kind /\ d.cell[x].mark = heap.cell[x].mark
                          /\ d.cell[x].refs = IF x = y THEN heap.cell[x].refs - 1 ELSE heap.cell[x].refs
                          /\ x # y => d.cell[x] = heap.cell[x]
  BY <1>1, <1>2, <1>3, DecrefHeap
<1>5. y \notin Tmp(heap) /\ y \in Objs(heap)
  <2>1. \A x \in Tmp(heap) : Refs(heap, x) = 0
    BY DEF DecrefInv
  <2> QED
    BY <1>2, <1>3, <2>1 DEF DecrefInv
<1> HIDE DEF d
<1>6. lp.cell = loop.cell /\ lp.link = loop.link /\ lp.todo = loop.todo \ {l}
  BY DEF Loops
<1>7. Objs(d) = Objs(heap) /\ Tmp(d) = Tmp(heap) /\ Zero(d) = Zero(heap) /\ ListsApart(d)
  BY <1>1, <1>4 DEF Objs, Tmp, Zero, ListsApart
<1>8. Common(d, host)
  <2>1. \A x \in Cells : Kind(d, x) = Kind(heap, x)
    BY <1>4 DEF Kind
  <2>2. Kind(heap, y) # "unused"
    BY <1>2 DEF Common, LinksSound
  <2>3. \A x \in Cells : Kind(heap, x) = "unused" => d.cell[x] = heap.cell[x]
    BY <1>4, <2>2
  <2> QED
    BY <1>4, <1>7, <2>1, <2>3, MarkCommon
<1>9. InDecref(d, lp) = S \ {l}
  <2>1. \A m \in heap.links : m.from \in Cells
    BY <1>1 DEF Heaps, Links
  <2>2. \A m \in heap.links : d.cell[m.from].mark = heap.cell[m.from].mark
    BY <1>4, <2>1
  <2> QED
    BY <1>3, <1>4, <1>6, <2>2 DEF InDecref
<1>10. Counts(d, host, InDecref(d, lp))
  <2>1. \A x \in Cells : Count(S \ {l}, x) = IF y = x THEN Count(S, x) - 1 ELSE Count(S, x)
    BY <1>3, CountCut
  <2>2. \A x \in Cells : Count(S, x) \in Nat
    BY <1>3, CountNat
  <2>3. \A x \in Cells : Refs(heap, x) = host[x] + Count(S, x) /\ host[x] \in Nat
    BY DEF DecrefInv, Counts, Common
  <2>4. \A x \in Cells : Refs(d, x) = IF x = y THEN Refs(heap, x) - 1 ELSE Refs(heap, x)
    BY <1>4 DEF Refs
  <2> HIDE DEF S, y
  <2>5. ASSUME NEW x \in Cells PROVE Refs(d, x) = host[x] + Count(S \ {l}, x)
    <3> DEFINE k == Count(S, x)
               j == Count(S \ {l}, x)
    <3>1. j = (IF y = x THEN k - 1 ELSE k) /\ k \in Nat
      BY <2>1, <2>2
    <3>2. Refs(heap, x) = host[x] + k /\ host[x] \in Nat
      BY <2>3
    <3>3. Refs(d, x) = IF x = y THEN Refs(heap, x) - 1 ELSE Refs(heap, x)
      BY <2>4
    <3> HIDE DEF k, j
    <3> QED
      BY <3>1, <3>2, <3>3 DEF j
  <2> QED
    BY <1>9, <2>5 DEF Counts
<1>11. ASSUME Refs(d, y) # 0 \/ d.cell[y].mark # 1 PROVE DecrefInv(d, lp, host)
  <2>1. Objs(heap) \subseteq Cells /\ Tmp(heap) \subseteq Cells
    BY <1>1, FirstList DEF Heaps, ListsApart, Objs, Tmp
  <2>2. Zero(d) = {} /\ lp.cell \in Objs(d) \cup {None} /\ lp.link = After(d.objs, lp.cell)
    BY <1>2, <1>4, <1>6, <1>7 DEF DecrefInv
  <2>3. lp.todo \subseteq Children(d, lp.cell)
    BY <1>1, <1>4, <1>6 DEF Children
  <2>4. \A x \in Objs(d) : d.cell[x].mark = IF x \in Prior(d.objs, lp.cell) THEN 1 ELSE 0
    BY <1>4, <1>6, <1>7, <2>1 DEF DecrefInv
  <2>5. Prior(d.objs, lp.cell) \subseteq Objs(d)
    BY <1>2, <1>4, <1>6, <1>7 DEF Prior, Objs
  <2>6. ASSUME NEW x \in Prior(d.objs, lp.cell) PROVE Refs(d, x) > 0
    <3>1. x \in Prior(heap.objs, loop.cell) /\ x \in Cells
      BY <1>4, <1>6, <1>7, <2>1, <2>5
    <3>2. Refs(heap, x) > 0
      BY <3>1 DEF DecrefInv
    <3>3. CASE x # y
      BY <1>4, <3>1, <3>2, <3>3 DEF Refs
    <3>4. CASE x = y
      <4>1. d.cell[y].mark = 1
        BY <2>4, <2>5, <2>6, <3>4
      <4>2. Refs(d, y) \in Nat
        BY <1>2, <1>4 DEF Heaps, CellType, Refs
      <4> QED
        BY <1>11, <3>4, <4>1, <4>2
    <3> QED
      BY <3>3, <3>4
  <2>7. \A x \in Tmp(d) : d.cell[x].mark = 1 /\ Refs(d, x) = 0
    <3>1. \A x \in Tmp(heap) : x \in Cells /\ x # y
      BY <1>5, <2>1
    <3> QED
      BY <1>4, <1>7, <3>1 DEF DecrefInv, Refs
  <2>8. NoZombies(d)
    BY <1>4 DEF DecrefInv, NoZombies, Kind
  <2> QED
    BY <1>10, <2>2, <2>3, <2>4, <2>6, <2>7, <2>8 DEF DecrefInv
<1>12. Refs(d, y) = Refs(heap, y) - 1
  BY <1>2, <1>4 DEF Refs
<1> QED
  BY <1>5, <1>8, <1>10, <1>11, <1>12 DEF d

\* gc_decref_child
LEMMA DecrefChildStep ==
  ASSUME IInv, \E l \in loop.todo : MarkChild("decref", l, gc_decref_child(heap, l.to))
  PROVE  IInv'
<1>1. phase = "decref" /\ UNCHANGED <<phase, host, reached>>
  BY DEF MarkChild
<1>2. PICK l \in loop.todo : /\ heap' = gc_decref_child(heap, l.to)
                             /\ loop' = [loop EXCEPT !.todo = @ \ {l}]
  BY DEF MarkChild
<1>3. /\ Common(heap, host) /\ DecrefInv(heap, loop, host) /\ loop \in Loops
      /\ reached = Reach(heap.links, host) /\ reached \in SUBSET Cells
  BY <1>1 DEF IInv, MarkInv, TypeOK
<1> DEFINE d == Decref(heap, l.to)
           y == l.to
           c == loop.cell
<1>4. /\ Common(d, host)
      /\ Refs(d, y) # 0 \/ d.cell[y].mark # 1 => DecrefInv(d, loop', host)
      /\ Counts(d, host, InDecref(d, loop'))
      /\ Refs(d, y) = Refs(heap, y) - 1
      /\ y \in Objs(heap)
  BY <1>2, <1>3, DecrefOnly
<1>5. /\ loop'.cell = c /\ loop'.link = loop.link /\ loop'.todo = loop.todo \ {l}
      /\ loop' \in Loops
  BY <1>2, <1>3 DEF Loops
<1>6. /\ heap \in Heaps /\ ListsApart(heap) /\ loop.todo \subseteq Children(heap, c)
      /\ Objs(heap) \subseteq Cells /\ Tmp(heap) \subseteq Cells
  <2>1. heap \in Heaps /\ ListsApart(heap) /\ loop.todo \subseteq Children(heap, c)
    BY <1>3 DEF Common, ListsSound, DecrefInv
  <2> QED
    BY <2>1, FirstList DEF Heaps, ListsApart, Objs, Tmp
<1>7. Refs(heap, y) > 0
  BY <1>3, DecrefLinks
<1>8. y \in Cells /\ c # None /\ c \in Objs(heap)
  BY <1>3, <1>6, TurnChild DEF DecrefInv
<1>9. /\ d \in Heaps /\ d.bad = heap.bad /\ d.links = heap.links
      /\ d.objs = heap.objs /\ d.tmp = heap.tmp /\ d.zero = heap.zero
      /\ \A x \in Cells : /\ d.cell[x].kind = heap.cell[x].kind /\ d.cell[x].mark = heap.cell[x].mark
                          /\ x # y => d.cell[x] = heap.cell[x]
  BY <1>6, <1>7, <1>8, DecrefHeap
<1>10. heap' = IF Refs(d, y) = 0 /\ d.cell[y].mark = 1 THEN ToTmp(d, y) ELSE d
  BY <1>2 DEF gc_decref_child
<1> HIDE DEF d
<1>11. CASE ~(Refs(d, y) = 0 /\ d.cell[y].mark = 1)
  <2>1. heap' = d
    BY <1>10, <1>11
  <2>2. DecrefInv(heap', loop', host) /\ Common(heap', host)
    BY <1>4, <1>11, <2>1
  <2>3. MarkInv'
    BY <1>1, <1>3, <1>9, <2>1, <2>2 DEF MarkInv
  <2> QED
    BY <1>1, <1>3, <1>5, <2>2, <2>3, MarkAll
<1>12. CASE Refs(d, y) = 0 /\ d.cell[y].mark = 1
  <2> DEFINE g == ToTmp(d, y)
  <2>1. heap' = g
    BY <1>10, <1>12
  <2>2. Objs(d) = Objs(heap) /\ Tmp(d) = Tmp(heap) /\ Zero(d) = Zero(heap) /\ ListsApart(d)
    BY <1>6, <1>9 DEF Objs, Tmp, Zero, ListsApart
  <2>3. /\ g \in Heaps /\ g.bad = d.bad /\ g.links = d.links /\ g.cell = d.cell
        /\ ListsApart(g)
        /\ Objs(g) = Objs(d) \ {y} /\ Tmp(g) = Tmp(d) \cup {y} /\ Zero(g) = Zero(d) \ {y}
        /\ g.objs = Without(d.objs, y)
    BY <1>4, <1>9, <2>2, ToTmpHeap
  <2> HIDE DEF g
  <2>4. Common(g, host)
    <3>1. \A x \in Cells : Kind(g, x) = Kind(d, x) /\ g.cell[x] = d.cell[x]
      BY <2>3 DEF Kind
    <3>2. y \notin Zero(d)
      BY <1>3, <2>2 DEF DecrefInv
    <3>3. Objs(g) \cup Tmp(g) \cup Zero(g) = Objs(d) \cup Tmp(d) \cup Zero(d)
      BY <1>4, <2>2, <2>3, <3>2
    <3> QED
      BY <1>4, <2>3, <3>1, <3>3, MarkCommon
  <2>5. y \in Prior(heap.objs, c)
    BY <1>3, <1>4, <1>8, <1>9, <1>12 DEF DecrefInv
  <2>6. heap.objs \in Seq(Cells) /\ IsInjective(heap.objs) /\ y \in Range(heap.objs) /\ c \in Range(heap.objs)
    BY <1>4, <1>6, <1>8 DEF Heaps, ListsApart, Objs
  <2>7. y # c /\ Prior(heap.objs, c) \subseteq Objs(heap)
    BY <2>5, <2>6, AfterList DEF Objs
  <2>8. /\ Prior(g.objs, c) = Prior(heap.objs, c) \ {y}
        /\ After(g.objs, c) = After(heap.objs, c)
    BY <1>9, <2>3, <2>5, <2>6, <2>7, WithoutPrior
  <2>9. InDecref(g, loop') = InDecref(d, loop')
    BY <2>3 DEF InDecref
  <2>10. Counts(g, host, InDecref(g, loop'))
    BY <1>4, <2>3, <2>9 DEF Counts, Refs
  <2>11. DecrefInv(g, loop', host)
    <3>1. Zero(g) = {} /\ c \in Objs(g) /\ loop'.link = After(g.objs, c)
      BY <1>3, <1>5, <1>8, <2>2, <2>3, <2>7, <2>8 DEF DecrefInv
    <3>2. loop'.todo \subseteq Children(g, c)
      BY <1>5, <1>6, <1>9, <2>3 DEF Children
    <3>3. \A x \in Objs(g) : g.cell[x].mark = IF x \in Prior(g.objs, c) THEN 1 ELSE 0
      BY <1>3, <1>6, <1>9, <2>2, <2>3, <2>8 DEF DecrefInv
    <3>4. \A x \in Prior(g.objs, c) : Refs(g, x) > 0
      BY <1>3, <1>6, <1>9, <2>3, <2>7, <2>8 DEF DecrefInv, Refs
    <3>5. \A x \in Tmp(g) : g.cell[x].mark = 1 /\ Refs(g, x) = 0
      <4>1. \A x \in Tmp(heap) : x # y
        BY <1>4, <1>6 DEF ListsApart
      <4>2. \A x \in Tmp(heap) : g.cell[x].mark = 1 /\ Refs(g, x) = 0
        BY <1>3, <1>6, <1>9, <2>3, <4>1 DEF DecrefInv, Refs
      <4> QED
        BY <1>12, <2>2, <2>3, <4>2 DEF Refs
    <3>6. NoZombies(g)
      BY <1>3, <1>9, <2>3 DEF DecrefInv, NoZombies, Kind
    <3> QED
      BY <1>5, <2>10, <3>1, <3>2, <3>3, <3>4, <3>5, <3>6 DEF DecrefInv
  <2>12. MarkInv'
    BY <1>1, <1>3, <1>9, <2>1, <2>3, <2>11 DEF MarkInv
  <2> QED
    BY <1>1, <1>3, <1>5, <2>1, <2>4, <2>12, MarkAll
<1> QED
  BY <1>11, <1>12

\* A cell is marked.
LEMMA MarkHeap ==
  ASSUME NEW h \in Heaps, NEW x \in Cells, NEW b \in {0, 1}
  PROVE  LET g == [h EXCEPT !.cell[x].mark = b] IN
         /\ g \in Heaps /\ g.bad = h.bad /\ g.links = h.links
         /\ g.objs = h.objs /\ g.tmp = h.tmp /\ g.zero = h.zero
         /\ \A y \in Cells : /\ g.cell[y].kind = h.cell[y].kind /\ g.cell[y].refs = h.cell[y].refs
                             /\ g.cell[y].mark = IF y = x THEN b ELSE h.cell[y].mark
                             /\ y # x => g.cell[y] = h.cell[y]
<1> DEFINE f == [h.cell EXCEPT ![x].mark = b]
           g == [h EXCEPT !.cell[x].mark = b]
<1>1. h.cell \in [Cells -> CellType]
  BY DEF Heaps
<1>2. f \in [Cells -> CellType]
  BY <1>1 DEF CellType
<1>3. g = [h EXCEPT !.cell = f]
  BY DEF Heaps
<1>4. \A y \in Cells : /\ f[y].kind = h.cell[y].kind /\ f[y].refs = h.cell[y].refs
                       /\ f[y].mark = IF y = x THEN b ELSE h.cell[y].mark
                       /\ y # x => f[y] = h.cell[y]
  BY <1>1 DEF CellType
<1> HIDE DEF f
<1>5. /\ [h EXCEPT !.cell = f] \in Heaps
      /\ [h EXCEPT !.cell = f].cell = f
      /\ [h EXCEPT !.cell = f].bad = h.bad /\ [h EXCEPT !.cell = f].links = h.links
      /\ [h EXCEPT !.cell = f].objs = h.objs /\ [h EXCEPT !.cell = f].tmp = h.tmp
      /\ [h EXCEPT !.cell = f].zero = h.zero
  BY <1>2 DEF Heaps
<1> HIDE DEF g
<1>6. /\ g \in Heaps /\ g.cell = f /\ g.bad = h.bad /\ g.links = h.links
      /\ g.objs = h.objs /\ g.tmp = h.tmp /\ g.zero = h.zero
  BY <1>3, <1>5
<1> QED
  BY <1>4, <1>6 DEF g

\* gc_decref at the end of a turn.
LEMMA GcDecrefStep ==
  ASSUME IInv, GcDecref
  PROVE  IInv'
<1> DEFINE c == loop.cell
           n == loop.link
           d == [heap EXCEPT !.cell[c].mark = 1]
           g == IF Refs(d, c) = 0 THEN ToTmp(d, c) ELSE d
<1>1. /\ phase = "decref" /\ UNCHANGED <<phase, host, reached>>
      /\ c # None /\ loop.todo = {} /\ heap' = g /\ loop' = Turn(g, g.objs, n)
  BY DEF GcDecref, EndTurn
<1>2. /\ Common(heap, host) /\ DecrefInv(heap, loop, host) /\ loop \in Loops
      /\ reached = Reach(heap.links, host) /\ reached \in SUBSET Cells
  BY <1>1 DEF IInv, MarkInv, TypeOK
<1>3. heap \in Heaps /\ ListsApart(heap) /\ heap.objs \in Seq(Cells) /\ IsInjective(heap.objs)
  BY <1>2 DEF Common, ListsSound, ListsApart, Heaps
<1>4. c \in Objs(heap) /\ c \in Cells /\ n = After(heap.objs, c) /\ Zero(heap) = {}
  BY <1>1, <1>2 DEF DecrefInv, Loops
<1>5. Objs(heap) \subseteq Cells /\ Tmp(heap) \subseteq Cells
  BY <1>3, FirstList DEF Heaps, ListsApart, Objs, Tmp
<1>6. /\ n \in Objs(heap) \cup {None} /\ n # c /\ c \notin Prior(heap.objs, c)
      /\ Prior(heap.objs, c) \subseteq Objs(heap)
      /\ Prior(heap.objs, n) = Prior(heap.objs, c) \cup {c}
  BY <1>3, <1>4, AfterList DEF Objs
<1>7. /\ d \in Heaps /\ d.bad = heap.bad /\ d.links = heap.links
      /\ d.objs = heap.objs /\ d.tmp = heap.tmp /\ d.zero = heap.zero
      /\ \A x \in Cells : /\ d.cell[x].kind = heap.cell[x].kind /\ d.cell[x].refs = heap.cell[x].refs
                          /\ d.cell[x].mark = IF x = c THEN 1 ELSE heap.cell[x].mark
                          /\ x # c => d.cell[x] = heap.cell[x]
  BY <1>3, <1>4, MarkHeap
<1> HIDE DEF d
<1>8. Objs(d) = Objs(heap) /\ Tmp(d) = Tmp(heap) /\ Zero(d) = Zero(heap) /\ ListsApart(d)
  BY <1>3, <1>7 DEF Objs, Tmp, Zero, ListsApart
<1>9. /\ g \in Heaps /\ g.bad = heap.bad /\ g.links = heap.links /\ g.cell = d.cell /\ ListsApart(g)
      /\ Zero(g) = {} /\ Objs(g) \cup Tmp(g) = Objs(heap) \cup Tmp(heap)
      /\ Prior(g.objs, n) \subseteq Objs(g)
      /\ n \in Objs(g) \cup {None}
      /\ IF Refs(heap, c) = 0
         THEN Objs(g) = Objs(heap) \ {c} /\ Tmp(g) = Tmp(heap) \cup {c} /\ Prior(g.objs, n) = Prior(heap.objs, c)
         ELSE Objs(g) = Objs(heap) /\ Tmp(g) = Tmp(heap) /\ Prior(g.objs, n) = Prior(heap.objs, c) \cup {c}
  <2>1. Refs(d, c) = Refs(heap, c)
    BY <1>4, <1>7 DEF Refs
  <2>2. CASE Refs(heap, c) = 0
    <3>1. g = ToTmp(d, c)
      BY <2>1, <2>2
    <3>2. /\ g \in Heaps /\ g.bad = d.bad /\ g.links = d.links /\ g.cell = d.cell /\ ListsApart(g)
          /\ Objs(g) = Objs(d) \ {c} /\ Tmp(g) = Tmp(d) \cup {c} /\ Zero(g) = Zero(d) \ {c}
          /\ g.objs = Without(d.objs, c)
      BY <1>4, <1>7, <1>8, <3>1, ToTmpHeap
    <3> HIDE DEF g
    <3>3. Prior(g.objs, n) = Prior(heap.objs, c)
      <4>1. CASE n = None
        <5>1. Prior(heap.objs, n) = Objs(heap) /\ Prior(g.objs, n) = Objs(g)
          BY <4>1 DEF Prior, Objs
        <5> QED
          BY <1>6, <1>8, <3>2, <5>1
      <4>2. CASE n # None
        <5>1. Prior(Without(heap.objs, c), n) = Prior(heap.objs, n) \ {c}
          BY <1>3, <1>4, <1>6, <4>2, WithoutPrior DEF Objs
        <5> QED
          BY <1>6, <1>7, <3>2, <5>1
      <4> QED
        BY <4>1, <4>2
    <3> QED
      BY <1>4, <1>6, <1>7, <1>8, <2>2, <3>2, <3>3
  <2>3. CASE Refs(heap, c) # 0
    <3>1. g = d
      BY <2>1, <2>3
    <3> HIDE DEF g
    <3> QED
      BY <1>4, <1>6, <1>7, <1>8, <2>3, <3>1
  <2> QED
    BY <2>2, <2>3
<1> HIDE DEF g
<1>10. g.objs \in Seq(Cells) /\ IsInjective(g.objs)
  BY <1>9 DEF Heaps, ListsApart
<1>11. /\ loop' \in Loops /\ loop'.cell = n /\ loop'.todo = Children(g, n)
       /\ n # None => loop'.link = After(g.objs, n)
  BY <1>1, <1>9, <1>10, TurnLoop DEF Objs
<1> HIDE DEF n
<1>12. Common(g, host)
  <2>1. \A x \in Cells : Kind(g, x) = Kind(heap, x)
    BY <1>7, <1>9 DEF Kind
  <2>2. Kind(heap, c) # "unused"
    BY <1>2, <1>4 DEF Common, ListsSound, Used, Kind
  <2>3. \A x \in Cells : Kind(heap, x) = "unused" => g.cell[x] = heap.cell[x]
    BY <1>7, <1>9, <2>2
  <2>4. Objs(g) \cup Tmp(g) \cup Zero(g) = Objs(heap) \cup Tmp(heap) \cup Zero(heap)
    BY <1>4, <1>9
  <2> QED
    BY <1>2, <1>9, <2>1, <2>3, <2>4, MarkCommon
<1>13. \A x \in Objs(g) : g.cell[x].mark = IF x \in Prior(g.objs, n) THEN 1 ELSE 0
  <2>1. \A x \in Objs(heap) : heap.cell[x].mark = IF x \in Prior(heap.objs, c) THEN 1 ELSE 0
    BY <1>2 DEF DecrefInv
  <2>2. \A x \in Objs(heap) : g.cell[x].mark = IF x = c THEN 1 ELSE heap.cell[x].mark
    BY <1>5, <1>7, <1>9
  <2>3. CASE Refs(heap, c) = 0
    BY <1>9, <2>1, <2>2, <2>3
  <2>4. CASE Refs(heap, c) # 0
    BY <1>9, <2>1, <2>2, <2>4
  <2> QED
    BY <2>3, <2>4
<1>14. InDecref(g, loop') = InDecref(heap, loop)
  <2>1. \A l \in heap.links : l.from \in Cells
    BY <1>3 DEF Heaps, Links
  <2>2. n # None => g.cell[n].mark = 0
    <3>1. n # None => n \in Objs(g) /\ n \notin Prior(g.objs, n)
      BY <1>9, <1>10, AfterList DEF Objs
    <3> QED
      BY <1>13, <3>1
  <2>3. InDecref(g, loop') = {l \in heap.links : g.cell[l.from].mark = 0}
    BY <1>9, <1>11, <2>1, <2>2, HeapAssumption DEF InDecref, Children
  <2>4. \A l \in heap.links : g.cell[l.from].mark = 0 <=> heap.cell[l.from].mark = 0 /\ l.from # c
    BY <1>7, <1>9, <2>1
  <2>5. InDecref(heap, loop) = {l \in heap.links : heap.cell[l.from].mark = 0 /\ l.from # c}
    BY <1>1 DEF InDecref
  <2> QED
    BY <2>3, <2>4, <2>5
<1>15. \A x \in Cells : Refs(g, x) = Refs(heap, x)
  BY <1>7, <1>9 DEF Refs
<1>16. \A x \in Prior(g.objs, n) : Refs(g, x) > 0
  <2>1. Refs(heap, c) \in Nat
    BY <1>3, <1>4 DEF Heaps, CellType, Refs
  <2>2. \A x \in Prior(heap.objs, c) : Refs(heap, x) > 0
    BY <1>2 DEF DecrefInv
  <2>3. CASE Refs(heap, c) = 0
    BY <1>5, <1>6, <1>9, <1>15, <2>2, <2>3
  <2>4. CASE Refs(heap, c) # 0
    BY <1>4, <1>5, <1>6, <1>9, <1>15, <2>1, <2>2, <2>4
  <2> QED
    BY <2>3, <2>4
<1>17. \A x \in Tmp(g) : g.cell[x].mark = 1 /\ Refs(g, x) = 0
  <2>1. \A x \in Tmp(heap) : heap.cell[x].mark = 1 /\ Refs(heap, x) = 0
    BY <1>2 DEF DecrefInv
  <2>2. \A x \in Tmp(heap) : g.cell[x].mark = 1 /\ Refs(g, x) = 0
    BY <1>5, <1>7, <1>9, <1>15, <2>1
  <2>3. CASE Refs(heap, c) = 0
    BY <1>4, <1>7, <1>9, <1>15, <2>2, <2>3
  <2>4. CASE Refs(heap, c) # 0
    BY <1>9, <2>2, <2>4
  <2> QED
    BY <2>3, <2>4
<1>18. DecrefInv(g, loop', host)
  <2>1. NoZombies(g)
    BY <1>2, <1>7, <1>9 DEF DecrefInv, NoZombies, Kind
  <2>2. Counts(g, host, InDecref(g, loop'))
    BY <1>2, <1>14, <1>15 DEF DecrefInv, Counts
  <2> QED
    BY <1>9, <1>11, <1>13, <1>16, <1>17, <2>1, <2>2 DEF DecrefInv
<1>19. MarkInv'
  BY <1>1, <1>2, <1>9, <1>18 DEF MarkInv
<1> QED
  BY <1>1, <1>2, <1>11, <1>12, <1>19, MarkAll

\* gc_decref is over: the counts are what the host holds.
LEMMA ToScanStep ==
  ASSUME IInv, phase = "decref", loop.cell = None, phase' = "scan",
         loop' = Turn(heap, heap.objs, First(heap.objs)), UNCHANGED <<heap, host, reached>>
  PROVE  IInv'
<1> DEFINE c == First(heap.objs)
<1>1. /\ Common(heap, host) /\ DecrefInv(heap, loop, host) /\ loop \in Loops
      /\ reached = Reach(heap.links, host) /\ reached \in SUBSET Cells
  BY DEF IInv, MarkInv, TypeOK
<1>2. heap \in Heaps /\ heap.objs \in Seq(Cells) /\ IsInjective(heap.objs) /\ host \in [Cells -> Nat]
  BY <1>1 DEF Common, ListsSound, ListsApart, Heaps
<1>3. c \in Objs(heap) \cup {None} /\ Prior(heap.objs, c) = {} /\ Objs(heap) \subseteq Cells
  BY <1>2, FirstList DEF Objs
<1> HIDE DEF c
<1>4. loop' \in Loops /\ loop'.cell = c /\ loop'.todo = Children(heap, c)
  BY <1>2, <1>3, TurnLoop DEF Objs, c
<1>5. \A l \in heap.links : l.from \in Cells
  BY <1>2 DEF Heaps, Links
<1>6. loop.todo = {}
  BY <1>1, <1>5, HeapAssumption DEF DecrefInv, Children
<1>7. Prior(heap.objs, loop.cell) = Objs(heap)
  BY DEF Prior, Objs
<1>8. \A x \in Objs(heap) : heap.cell[x].mark = 1 /\ Refs(heap, x) > 0
  BY <1>1, <1>7 DEF DecrefInv
<1>9. InDecref(heap, loop) = {}
  <2>1. ASSUME NEW l \in heap.links PROVE heap.cell[l.from].mark = 1
    <3>1. Used(heap, l.from) /\ l.from \in Cells
      BY <1>1, <1>5 DEF Common, LinksSound, Used, Kind
    <3>2. l.from \in Objs(heap) \cup Tmp(heap)
      BY <1>1, <3>1 DEF Common, ListsSound, DecrefInv
    <3> QED
      BY <1>1, <1>8, <3>2 DEF DecrefInv
  <2> QED
    BY <1>6, <2>1 DEF InDecref
<1>10. \A x \in Cells : Refs(heap, x) = host[x]
  <2>1. \A x \in Cells : Count({}, x) = 0
    BY CountNat, FS_EmptySet
  <2> QED
    BY <1>1, <1>2, <1>9, <2>1 DEF DecrefInv, Counts
<1>11. Objs(heap) \subseteq reached
  BY <1>1, <1>3, <1>8, <1>10 DEF Reach
<1>12. InWalk(heap, {}, heap.objs, loop') = {}
  BY <1>3, <1>4 DEF InWalk
<1>13. Counts(heap, host, InWalk(heap, {}, heap.objs, loop'))
  BY <1>1, <1>9, <1>12 DEF DecrefInv
<1>14. ScanInv(heap, loop', host, reached)
  BY <1>1, <1>3, <1>4, <1>8, <1>11, <1>13 DEF ScanInv, DecrefInv
<1>15. MarkInv'
  BY <1>1, <1>14 DEF MarkInv
<1> QED
  BY <1>1, <1>4, <1>15, MarkAll

\* The counts of g are those of h, with one more for y.
Counted(h, g, y) == \A x \in Cells : Refs(g, x) = IF x = y THEN Refs(h, x) + 1 ELSE Refs(h, x)

\* One more link is in the counts.
LEMMA CountsAdd ==
  ASSUME NEW h, NEW g, NEW ho \in [Cells -> Nat], NEW S, IsFiniteSet(S), NEW l, l \notin S,
         Counts(h, ho, S), Counted(h, g, l.to)
  PROVE  Counts(g, ho, S \cup {l})
<1>1. ASSUME NEW x \in Cells PROVE Refs(g, x) = ho[x] + Count(S \cup {l}, x)
  <2> DEFINE k == Count(S, x)
             j == Count(S \cup {l}, x)
  <2>1. j = (IF l.to = x THEN k + 1 ELSE k) /\ k \in Nat
    BY CountAdd, CountNat
  <2>2. Refs(h, x) = ho[x] + k /\ ho[x] \in Nat
    BY <1>1 DEF Counts
  <2>3. Refs(g, x) = IF x = l.to THEN Refs(h, x) + 1 ELSE Refs(h, x)
    BY DEF Counted
  <2> HIDE DEF k, j
  <2> QED
    BY <2>1, <2>2, <2>3 DEF j
<1> QED
  BY <1>1 DEF Counts

\* A child of a walk is counted: the links in the counts are one more.
LEMMA WalkChild ==
  ASSUME Common(heap, host), loop \in Loops, loop.todo \subseteq Children(heap, loop.cell), NEW l \in loop.todo,
         NEW ls \in Seq(Cells), IsInjective(ls), loop.cell \in Range(ls) \cup {None},
         NEW K, loop.cell \notin K, Counts(heap, host, InWalk(heap, K, ls, loop)),
         NEW g, g.links = heap.links, NEW ks, Prior(ks, loop.cell) = Prior(ls, loop.cell),
         NEW lp, lp.cell = loop.cell, lp.todo = loop.todo \ {l},
         Counted(heap, g, l.to)
  PROVE  /\ Counts(g, host, InWalk(g, K, ks, lp))
         /\ lp.todo \subseteq Children(g, lp.cell)
<1> DEFINE S == InWalk(heap, K, ls, loop)
           c == loop.cell
<1>1. l \in heap.links /\ l.from = c /\ c # None
  BY TurnChild
<1>2. c \in Range(ls) /\ c \notin Prior(ls, c)
  BY <1>1, AfterList
<1>3. S \subseteq heap.links /\ l \notin S
  BY <1>1, <1>2 DEF InWalk, Children
<1>4. IsFiniteSet(S)
  BY <1>3, FS_Subset DEF Common, LinksSound
<1>5. lp.cell = c /\ lp.todo = loop.todo \ {l}
  OBVIOUS
<1>6. lp.todo \subseteq Children(g, lp.cell)
  BY <1>5 DEF Children
<1>7. InWalk(g, K, ks, lp) = S \cup {l}
  BY <1>1, <1>5 DEF InWalk, Children
<1>8. host \in [Cells -> Nat] /\ Counts(heap, host, S)
  BY DEF Common
<1> HIDE DEF S
<1>9. Counts(g, host, S \cup {l})
  BY <1>3, <1>4, <1>8, CountsAdd
<1> QED
  BY <1>6, <1>7, <1>9

\* lq is the turn after lp in a walk over ls; the same links are in the counts.
WalkOn(h, g, K, ls, lp, lq) ==
  /\ InWalk(g, K, ls, lq) = InWalk(h, K, ls, lp)
  /\ lq \in Loops /\ lq.cell \in Range(ls) \cup {None} /\ lq.todo \subseteq Children(g, lq.cell)
  /\ Prior(ls, lq.cell) = Prior(ls, lp.cell) \cup {lp.cell}

\* The end of a turn changes nothing that is counted.
LEMMA WalkTurn ==
  ASSUME NEW h \in Heaps, NEW g \in Heaps, NEW ls \in Seq(Cells), IsInjective(ls), NEW K, NEW lp,
         g.links = h.links, lp.cell \in Range(ls), lp.todo \subseteq {}
  PROVE  WalkOn(h, g, K, ls, lp, Turn(g, ls, After(ls, lp.cell)))
<1> DEFINE n == After(ls, lp.cell)
           lq == Turn(g, ls, n)
<1>1. n \in Range(ls) \cup {None} /\ Prior(ls, n) = Prior(ls, lp.cell) \cup {lp.cell}
  BY AfterList
<1> HIDE DEF n
<1>2. lq \in Loops /\ lq.cell = n /\ lq.todo = Children(g, n)
  BY <1>1, TurnLoop
<1> HIDE DEF lq
<1>3. InWalk(g, K, ls, lq) = InWalk(h, K, ls, lp)
  BY <1>1, <1>2 DEF InWalk, Children
<1>4. WalkOn(h, g, K, ls, lp, lq)
  BY <1>1, <1>2, <1>3 DEF WalkOn
<1> QED
  BY <1>4 DEF lq, n

\* What the host reaches is closed.
LEMMA ReachClosed ==
  ASSUME NEW L, NEW ho, NEW l \in L, l.from \in Reach(L, ho), l.to \in Cells
  PROVE  l.to \in Reach(L, ho)
BY DEF Reach

\* gc_scan_incref_child
LEMMA ScanChildStep ==
  ASSUME IInv, \E l \in loop.todo : MarkChild("scan", l, gc_scan_incref_child(heap, l.to))
  PROVE  IInv'
<1>1. phase = "scan" /\ UNCHANGED <<phase, host, reached>>
  BY DEF MarkChild
<1>2. PICK l \in loop.todo : /\ heap' = gc_scan_incref_child(heap, l.to)
                             /\ loop' = [loop EXCEPT !.todo = @ \ {l}]
  BY DEF MarkChild
<1>3. /\ Common(heap, host) /\ ScanInv(heap, loop, host, reached) /\ loop \in Loops
      /\ reached = Reach(heap.links, host) /\ reached \in SUBSET Cells
  BY <1>1 DEF IInv, MarkInv, TypeOK
<1> DEFINE y == l.to
           c == loop.cell
           d == Incref(heap, y)
           g == gc_scan_incref_child(heap, y)
<1>4. /\ heap \in Heaps /\ ListsApart(heap) /\ loop.todo \subseteq Children(heap, c)
      /\ heap.objs \in Seq(Cells) /\ IsInjective(heap.objs)
  BY <1>3 DEF Common, ListsSound, ListsApart, ScanInv, Heaps
<1>5. Objs(heap) \subseteq Cells /\ Tmp(heap) \subseteq Cells /\ Zero(heap) = {}
  BY <1>3, <1>4, FirstList DEF Heaps, ListsApart, Objs, Tmp, ScanInv
<1>6. /\ l \in heap.links /\ l.from = c /\ y \in Cells /\ c # None /\ c \in Objs(heap)
      /\ Used(heap, y) /\ y \in Objs(heap) \cup Tmp(heap)
  BY <1>3, <1>4, <1>5, TurnChild DEF ScanInv
<1>7. /\ d \in Heaps /\ d.bad = heap.bad /\ d.links = heap.links
      /\ d.objs = heap.objs /\ d.tmp = heap.tmp /\ d.zero = heap.zero
      /\ \A x \in Cells : /\ d.cell[x].kind = heap.cell[x].kind /\ d.cell[x].mark = heap.cell[x].mark
                          /\ d.cell[x].refs = IF x = y THEN heap.cell[x].refs + 1 ELSE heap.cell[x].refs
                          /\ x # y => d.cell[x] = heap.cell[x]
  BY <1>4, <1>6, IncrefHeap
<1>8. Refs(heap, y) \in Nat /\ Refs(d, y) = Refs(heap, y) + 1
  BY <1>4, <1>6, <1>7 DEF Heaps, CellType, Refs
<1>9. g = IF Refs(d, y) = 1 THEN ToObjs(d, y) ELSE d
  BY DEF gc_scan_incref_child
<1> HIDE DEF d, g
<1>10. Objs(d) = Objs(heap) /\ Tmp(d) = Tmp(heap) /\ Zero(d) = Zero(heap) /\ ListsApart(d)
  BY <1>4, <1>7 DEF Objs, Tmp, Zero, ListsApart
<1>11. y \in Tmp(heap) <=> Refs(heap, y) = 0
  <2>1. y \in Objs(heap) => Refs(heap, y) > 0
    BY <1>3 DEF ScanInv
  <2>2. y \in Tmp(heap) => Refs(heap, y) = 0
    BY <1>3 DEF ScanInv
  <2> QED
    BY <1>6, <1>8, <2>1, <2>2
<1>12. /\ g \in Heaps /\ g.bad = heap.bad /\ g.links = heap.links /\ ListsApart(g)
       /\ Zero(g) = {} /\ Objs(g) = Objs(heap) \cup {y} /\ Tmp(g) = Tmp(heap) \ {y}
       /\ Prior(g.objs, c) = Prior(heap.objs, c)
       /\ \A x \in Cells : /\ g.cell[x].kind = heap.cell[x].kind
                           /\ g.cell[x].refs = IF x = y THEN heap.cell[x].refs + 1 ELSE heap.cell[x].refs
                           /\ g.cell[x].mark \in {0, heap.cell[x].mark}
                           /\ x # y => g.cell[x] = heap.cell[x]
  <2>1. CASE Refs(heap, y) = 0
    <3>1. g = ToObjs(d, y) /\ y \in Tmp(d)
      BY <1>8, <1>9, <1>10, <1>11, <2>1
    <3>2. /\ g \in Heaps /\ g.bad = d.bad /\ g.links = d.links
          /\ ListsApart(g)
          /\ Objs(g) = Objs(d) \cup {y} /\ Tmp(g) = Tmp(d) \ {y} /\ Zero(g) = Zero(d)
          /\ \A z \in Objs(d) : Prior(g.objs, z) = Prior(d.objs, z)
          /\ \A x \in Cells : /\ g.cell[x].kind = d.cell[x].kind /\ g.cell[x].refs = d.cell[x].refs
                              /\ g.cell[x].mark = IF x = y THEN 0 ELSE d.cell[x].mark
                              /\ x # y => g.cell[x] = d.cell[x]
      BY <1>7, <1>10, <3>1, ToObjsHeap
    <3>3. Prior(g.objs, c) = Prior(heap.objs, c)
      BY <1>6, <1>7, <1>10, <3>2
    <3>4. /\ g.links = heap.links /\ g.bad = heap.bad
          /\ Objs(g) = Objs(heap) \cup {y} /\ Tmp(g) = Tmp(heap) \ {y} /\ Zero(g) = {}
      BY <1>5, <1>7, <1>10, <3>2
    <3>5. \A x \in Cells : /\ g.cell[x].kind = heap.cell[x].kind
                           /\ g.cell[x].refs = IF x = y THEN heap.cell[x].refs + 1 ELSE heap.cell[x].refs
                           /\ g.cell[x].mark \in {0, heap.cell[x].mark}
                           /\ x # y => g.cell[x] = heap.cell[x]
      BY <1>7, <3>2
    <3> QED
      BY <3>2, <3>3, <3>4, <3>5
  <2>2. CASE Refs(heap, y) # 0
    <3>1. g = d
      BY <1>8, <1>9, <2>2
    <3>2. Objs(g) = Objs(heap) \cup {y} /\ Tmp(g) = Tmp(heap) \ {y} /\ Zero(g) = {}
      BY <1>5, <1>6, <1>10, <1>11, <2>2, <3>1
    <3> QED
      BY <1>7, <1>10, <3>1, <3>2
  <2> QED
    BY <2>1, <2>2
<1>13. \A x \in Cells : Refs(g, x) = IF x = y THEN Refs(heap, x) + 1 ELSE Refs(heap, x)
  BY <1>12 DEF Refs
<1>14. Common(g, host)
  <2>1. \A x \in Cells : Kind(g, x) = Kind(heap, x)
    BY <1>12 DEF Kind
  <2>2. \A x \in Cells : Kind(heap, x) = "unused" => g.cell[x] = heap.cell[x]
    BY <1>6, <1>12 DEF Used, Kind
  <2>3. Objs(g) \cup Tmp(g) \cup Zero(g) = Objs(heap) \cup Tmp(heap) \cup Zero(heap)
    BY <1>5, <1>6, <1>12
  <2> QED
    BY <1>3, <1>12, <2>1, <2>2, <2>3, MarkCommon
<1>15. /\ Counts(g, host, InWalk(g, {}, g.objs, loop'))
       /\ loop' \in Loops /\ loop'.cell = c /\ loop'.todo \subseteq Children(g, loop'.cell)
  <2>1. c \in Range(heap.objs) \cup {None} /\ Counts(heap, host, InWalk(heap, {}, heap.objs, loop))
    BY <1>3, <1>6 DEF Objs, ScanInv
  <2>2. loop.cell \notin {} /\ g.links = heap.links /\ Prior(g.objs, loop.cell) = Prior(heap.objs, loop.cell)
    BY <1>12
  <2>3. Counted(heap, g, l.to)
    BY <1>13 DEF Counted
  <2>4. loop' \in Loops /\ loop'.cell = loop.cell /\ loop'.todo = loop.todo \ {l}
    BY <1>2, <1>3 DEF Loops
  <2> QED
    BY <1>3, <1>4, <2>1, <2>2, <2>3, <2>4, WalkChild
<1>16. ScanInv(g, loop', host, reached)
  <2>1. loop'.cell \in Objs(g)
    BY <1>6, <1>12, <1>15
  <2>2. \A x \in Objs(g) : Refs(g, x) > 0
    <3>1. \A x \in Objs(heap) : Refs(heap, x) > 0 /\ Refs(heap, x) \in Nat
      BY <1>3, <1>4, <1>5 DEF ScanInv, Heaps, CellType, Refs
    <3> QED
      BY <1>5, <1>6, <1>8, <1>12, <1>13, <3>1
  <2>3. \A x \in Tmp(g) : Refs(g, x) = 0
    BY <1>3, <1>5, <1>12, <1>13 DEF ScanInv
  <2>4. \A x \in Prior(g.objs, loop'.cell) : g.cell[x].mark = 0
    <3>1. Prior(heap.objs, c) \subseteq Cells
      BY <1>5, <1>6 DEF Prior, Objs
    <3> QED
      BY <1>3, <1>12, <1>15, <3>1 DEF ScanInv
  <2>5. NoZombies(g)
    BY <1>3, <1>12 DEF ScanInv, NoZombies, Kind
  <2>6. Objs(g) \subseteq reached
    <3>1. Objs(heap) \subseteq reached
      BY <1>3 DEF ScanInv
    <3>2. y \in reached
      BY <1>3, <1>6, <3>1, ReachClosed
    <3> QED
      BY <1>12, <3>1, <3>2
  <2> QED
    BY <1>12, <1>15, <2>1, <2>2, <2>3, <2>4, <2>5, <2>6 DEF ScanInv
<1>17. MarkInv'
  BY <1>1, <1>2, <1>3, <1>12, <1>16 DEF MarkInv, g
<1> QED
  BY <1>1, <1>2, <1>3, <1>14, <1>15, <1>17, MarkAll DEF g

\* gc_scan at the end of a turn.
LEMMA GcScanStep ==
  ASSUME IInv, GcScan
  PROVE  IInv'
<1> DEFINE c == loop.cell
           g == [heap EXCEPT !.cell[c].mark = 0]
<1>1. /\ phase = "scan" /\ UNCHANGED <<phase, host, reached>>
      /\ c # None /\ loop.todo = {} /\ heap' = g /\ loop' = Turn(g, g.objs, After(g.objs, c))
  BY DEF GcScan, EndTurn
<1>2. /\ Common(heap, host) /\ ScanInv(heap, loop, host, reached) /\ loop \in Loops
      /\ reached = Reach(heap.links, host) /\ reached \in SUBSET Cells
  BY <1>1 DEF IInv, MarkInv, TypeOK
<1>3. heap \in Heaps /\ ListsApart(heap) /\ heap.objs \in Seq(Cells) /\ IsInjective(heap.objs)
  BY <1>2 DEF Common, ListsSound, ListsApart, Heaps
<1>4. c \in Objs(heap) /\ c \in Cells
  BY <1>1, <1>2 DEF ScanInv, Loops
<1>5. Objs(heap) \subseteq Cells /\ Tmp(heap) \subseteq Cells
  BY <1>3, FirstList DEF Heaps, ListsApart, Objs, Tmp
<1>6. /\ g \in Heaps /\ g.bad = heap.bad /\ g.links = heap.links
      /\ g.objs = heap.objs /\ g.tmp = heap.tmp /\ g.zero = heap.zero
      /\ \A x \in Cells : /\ g.cell[x].kind = heap.cell[x].kind /\ g.cell[x].refs = heap.cell[x].refs
                          /\ g.cell[x].mark = IF x = c THEN 0 ELSE heap.cell[x].mark
                          /\ x # c => g.cell[x] = heap.cell[x]
  BY <1>3, <1>4, MarkHeap
<1> HIDE DEF g
<1>7. Objs(g) = Objs(heap) /\ Tmp(g) = Tmp(heap) /\ Zero(g) = Zero(heap) /\ ListsApart(g)
  BY <1>3, <1>6 DEF Objs, Tmp, Zero, ListsApart
<1>8. /\ InWalk(g, {}, heap.objs, loop') = InWalk(heap, {}, heap.objs, loop)
      /\ loop' \in Loops /\ loop'.cell \in Objs(heap) \cup {None} /\ loop'.todo \subseteq Children(g, loop'.cell)
      /\ Prior(heap.objs, loop'.cell) = Prior(heap.objs, c) \cup {c}
  <2>1. c \in Range(heap.objs) /\ loop' = Turn(g, heap.objs, After(heap.objs, c))
    BY <1>1, <1>4, <1>6 DEF Objs
  <2>2. g \in Heaps /\ g.links = heap.links /\ loop.todo \subseteq {} /\ loop.cell \in Range(heap.objs)
    BY <1>1, <1>6, <2>1
  <2>3. WalkOn(heap, g, {}, heap.objs, loop, Turn(g, heap.objs, After(heap.objs, loop.cell)))
    BY <1>3, <2>2, WalkTurn
  <2> QED
    BY <2>1, <2>3 DEF Objs, WalkOn
<1>9. \A x \in Cells : Refs(g, x) = Refs(heap, x) /\ Kind(g, x) = Kind(heap, x)
  BY <1>6 DEF Refs, Kind
<1>10. Common(g, host)
  <2>1. Kind(heap, c) # "unused"
    BY <1>2, <1>4 DEF Common, ListsSound, Used, Kind
  <2>2. \A x \in Cells : Kind(heap, x) = "unused" => g.cell[x] = heap.cell[x]
    BY <1>6, <2>1
  <2> QED
    BY <1>2, <1>6, <1>7, <1>9, <2>2, MarkCommon
<1>11. ScanInv(g, loop', host, reached)
  <2>1. Prior(heap.objs, c) \subseteq Cells
    BY <1>5 DEF Prior, Objs
  <2>2. \A x \in Prior(heap.objs, c) : heap.cell[x].mark = 0
    BY <1>2 DEF ScanInv
  <2>3. \A x \in Prior(g.objs, loop'.cell) : g.cell[x].mark = 0
    BY <1>4, <1>6, <1>8, <2>1, <2>2
  <2>4. (\A x \in Objs(g) : Refs(g, x) > 0) /\ (\A x \in Tmp(g) : Refs(g, x) = 0)
    BY <1>2, <1>5, <1>7, <1>9 DEF ScanInv
  <2>5. Counts(g, host, InWalk(g, {}, g.objs, loop'))
    BY <1>2, <1>6, <1>8, <1>9 DEF ScanInv, Counts
  <2>6. NoZombies(g) /\ Zero(g) = {} /\ Objs(g) \subseteq reached
    BY <1>2, <1>7, <1>9 DEF ScanInv, NoZombies
  <2> QED
    BY <1>7, <1>8, <2>3, <2>4, <2>5, <2>6 DEF ScanInv
<1>12. MarkInv'
  BY <1>1, <1>2, <1>6, <1>11 DEF MarkInv
<1> QED
  BY <1>1, <1>2, <1>8, <1>10, <1>12, MarkAll

\* gc_scan has kept what the host reaches: it has kept what a link of a kept
\* cell leads to, and what the host holds.
LEMMA ToRestoreStep ==
  ASSUME IInv, phase = "scan", loop.cell = None, phase' = "restore",
         loop' = Turn(heap, heap.tmp, First(heap.tmp)), UNCHANGED <<heap, host, reached>>
  PROVE  IInv'
<1> DEFINE c == First(heap.tmp)
           S == InWalk(heap, {}, heap.objs, loop)
<1>1. /\ Common(heap, host) /\ ScanInv(heap, loop, host, reached) /\ loop \in Loops
      /\ reached = Reach(heap.links, host) /\ reached \in SUBSET Cells
  BY DEF IInv, MarkInv, TypeOK
<1>2. /\ heap \in Heaps /\ heap.objs \in Seq(Cells) /\ IsInjective(heap.objs) /\ host \in [Cells -> Nat]
      /\ heap.tmp \in Seq(Cells) /\ IsInjective(heap.tmp)
  BY <1>1 DEF Common, ListsSound, ListsApart, Heaps
<1>3. /\ c \in Tmp(heap) \cup {None} /\ Prior(heap.tmp, c) = {}
      /\ Objs(heap) \subseteq Cells /\ Tmp(heap) \subseteq Cells
  BY <1>2, FirstList DEF Objs, Tmp
<1> HIDE DEF c
<1>4. loop' \in Loops /\ loop'.cell = c /\ loop'.todo = Children(heap, c)
  BY <1>2, <1>3, TurnLoop DEF Tmp, c
<1>5. \A l \in heap.links : l.from \in Cells /\ l.to \in Cells
  BY <1>2 DEF Heaps, Links
<1>6. Prior(heap.objs, loop.cell) = Objs(heap) /\ Children(heap, loop.cell) = {}
  BY <1>5, HeapAssumption DEF Prior, Objs, Children
<1>7. S = {l \in heap.links : l.from \in Objs(heap)}
  BY <1>6 DEF InWalk
<1>8. Counts(heap, host, S)
  BY <1>1 DEF ScanInv
<1>9. IsFiniteSet(S)
  BY <1>1, <1>7, FS_Subset DEF Common, LinksSound
<1> HIDE DEF S
<1>10. \A x \in Cells : /\ Refs(heap, x) = host[x] + Count(S, x) /\ Count(S, x) \in Nat /\ host[x] \in Nat
                        /\ Count(S, x) = 0 <=> \A l \in S : l.to # x
  <2>1. \A x \in Cells : Count(S, x) \in Nat /\ (Count(S, x) = 0 <=> \A l \in S : l.to # x)
    BY <1>9, CountNat
  <2> QED
    BY <1>2, <1>8, <2>1 DEF Counts
<1>11. \A x \in Cells : Kind(heap, x) # "unused" /\ Refs(heap, x) > 0 => x \in Objs(heap)
  <2>1. \A x \in Cells : Kind(heap, x) # "unused" => x \in Objs(heap) \cup Tmp(heap)
    BY <1>1 DEF Common, ListsSound, ScanInv, Used, Kind
  <2>2. \A x \in Tmp(heap) : Refs(heap, x) = 0
    BY <1>1 DEF ScanInv
  <2> QED
    BY <2>1, <2>2
<1>12. \A x \in Cells : host[x] > 0 => x \in Objs(heap)
  <2>1. \A x \in Cells : host[x] > 0 => Kind(heap, x) = "object"
    BY <1>1 DEF Common
  <2>2. \A x \in Cells : host[x] > 0 => Refs(heap, x) > 0
    BY <1>10
  <2> QED
    BY <1>11, <2>1, <2>2
<1>13. \A l \in heap.links : l.from \in Objs(heap) => l.to \in Objs(heap)
  <2> SUFFICES ASSUME NEW l \in heap.links, l.from \in Objs(heap) PROVE l.to \in Objs(heap)
    OBVIOUS
  <2>1. l \in S /\ l.to \in Cells
    BY <1>5, <1>7
  <2>2. Count(S, l.to) # 0
    BY <1>10, <2>1
  <2>3. Refs(heap, l.to) > 0
    <3>1. Refs(heap, l.to) = host[l.to] + Count(S, l.to) /\ Count(S, l.to) \in Nat /\ host[l.to] \in Nat
      BY <1>10, <2>1
    <3> QED
      BY <2>2, <3>1
  <2>4. Kind(heap, l.to) # "unused"
    BY <1>1 DEF Common, LinksSound
  <2> QED
    BY <1>11, <2>1, <2>3, <2>4
<1>14. Objs(heap) = reached
  <2>1. Objs(heap) \subseteq reached
    BY <1>1 DEF ScanInv
  <2>2. {y \in Cells : host[y] > 0} \subseteq Objs(heap) /\ Objs(heap) \in SUBSET Cells
    BY <1>3, <1>12
  <2>3. reached \subseteq Objs(heap)
    BY <1>1, <1>13, <2>2 DEF Reach
  <2> QED
    BY <2>1, <2>3
<1>15. Kept(heap, host, reached)
  <2>1. \A x \in Objs(heap) : heap.cell[x].mark = 0 /\ Kind(heap, x) # "zombie"
    BY <1>1, <1>3, <1>6 DEF ScanInv, NoZombies
  <2>2. ASSUME NEW x \in Objs(heap), Kind(heap, x) = "var"
        PROVE  \E l \in heap.links : l.from \in Objs(heap) /\ l.to = x
    <3>1. x \in Cells /\ Refs(heap, x) > 0
      BY <1>1, <1>3 DEF ScanInv
    <3>2. ~(host[x] > 0)
      BY <1>1, <2>2, <3>1 DEF Common
    <3>3. Count(S, x) # 0
      <4>1. Refs(heap, x) = host[x] + Count(S, x) /\ Count(S, x) \in Nat /\ host[x] \in Nat
        BY <1>10, <3>1
      <4> QED
        BY <3>1, <3>2, <4>1
    <3>4. PICK l \in S : l.to = x
      BY <1>10, <3>1, <3>3
    <3> QED
      BY <1>7, <3>4
  <2> QED
    BY <1>12, <1>13, <1>14, <2>1, <2>2 DEF Kept
<1>16. InWalk(heap, Objs(heap), heap.tmp, loop') = S
  BY <1>3, <1>4, <1>7 DEF InWalk
<1>17. RestoreInv(heap, loop', host, reached)
  BY <1>1, <1>3, <1>4, <1>8, <1>15, <1>16 DEF RestoreInv, ScanInv
<1>18. MarkInv'
  BY <1>17 DEF MarkInv
<1> QED
  BY <1>1, <1>4, <1>18, MarkAll

\* gc_scan, second loop: the counts of what is to be removed.
LEMMA RestoreChildStep ==
  ASSUME IInv, \E l \in loop.todo : MarkChild("restore", l, Incref(heap, l.to))
  PROVE  IInv'
<1>1. phase = "restore" /\ UNCHANGED <<phase, host, reached>>
  BY DEF MarkChild
<1>2. PICK l \in loop.todo : /\ heap' = Incref(heap, l.to)
                             /\ loop' = [loop EXCEPT !.todo = @ \ {l}]
  BY DEF MarkChild
<1>3. /\ Common(heap, host) /\ RestoreInv(heap, loop, host, reached) /\ loop \in Loops
      /\ reached \in SUBSET Cells
  BY <1>1 DEF IInv, MarkInv, TypeOK
<1> DEFINE y == l.to
           c == loop.cell
           g == Incref(heap, y)
<1>4. /\ heap \in Heaps /\ ListsApart(heap) /\ loop.todo \subseteq Children(heap, c)
      /\ heap.tmp \in Seq(Cells) /\ IsInjective(heap.tmp)
  BY <1>3 DEF Common, ListsSound, ListsApart, RestoreInv, Heaps
<1>5. /\ l \in heap.links /\ y \in Cells /\ c # None /\ c \in Tmp(heap) /\ Used(heap, y)
      /\ c \notin Objs(heap)
  BY <1>3, <1>4, TurnChild DEF RestoreInv, ListsApart
<1>6. /\ g \in Heaps /\ g.bad = heap.bad /\ g.links = heap.links
      /\ g.objs = heap.objs /\ g.tmp = heap.tmp /\ g.zero = heap.zero
      /\ \A x \in Cells : /\ g.cell[x].kind = heap.cell[x].kind /\ g.cell[x].mark = heap.cell[x].mark
                          /\ g.cell[x].refs = IF x = y THEN heap.cell[x].refs + 1 ELSE heap.cell[x].refs
                          /\ x # y => g.cell[x] = heap.cell[x]
  BY <1>4, <1>5, IncrefHeap
<1> HIDE DEF g
<1>7. Objs(g) = Objs(heap) /\ Tmp(g) = Tmp(heap) /\ Zero(g) = Zero(heap) /\ ListsApart(g)
  BY <1>4, <1>6 DEF Objs, Tmp, Zero, ListsApart
<1>8. \A x \in Cells : Kind(g, x) = Kind(heap, x)
  BY <1>6 DEF Kind
<1>9. Common(g, host)
  <2>1. \A x \in Cells : Kind(heap, x) = "unused" => g.cell[x] = heap.cell[x]
    BY <1>5, <1>6 DEF Used, Kind
  <2> QED
    BY <1>3, <1>6, <1>7, <1>8, <2>1, MarkCommon
<1>10. loop' \in Loops /\ loop'.cell = loop.cell /\ loop'.todo = loop.todo \ {l}
  BY <1>2, <1>3 DEF Loops
<1>11. Counts(g, host, InWalk(g, Objs(heap), g.tmp, loop')) /\ loop'.todo \subseteq Children(g, loop'.cell)
  <2>1. c \in Range(heap.tmp) \cup {None} /\ Counts(heap, host, InWalk(heap, Objs(heap), heap.tmp, loop))
    BY <1>3, <1>5 DEF Tmp, RestoreInv
  <2>2. g.links = heap.links /\ Prior(g.tmp, loop.cell) = Prior(heap.tmp, loop.cell) /\ loop.cell \notin Objs(heap)
    BY <1>5, <1>6
  <2>3. Counted(heap, g, l.to)
    BY <1>6 DEF Counted, Refs
  <2> QED
    BY <1>3, <1>4, <1>10, <2>1, <2>2, <2>3, WalkChild
<1>12. Kept(g, host, reached)
  BY <1>3, <1>6, <1>7, <1>8 DEF RestoreInv, Kept
<1>13. RestoreInv(g, loop', host, reached)
  BY <1>3, <1>7, <1>8, <1>10, <1>11, <1>12 DEF RestoreInv, NoZombies
<1>14. MarkInv'
  BY <1>1, <1>2, <1>13 DEF MarkInv, g
<1> QED
  BY <1>1, <1>2, <1>3, <1>9, <1>10, <1>14, MarkAll DEF g

\* gc_scan, second loop, at the end of a turn.
LEMMA GcRestoreStep ==
  ASSUME IInv, GcRestore
  PROVE  IInv'
<1> DEFINE c == loop.cell
<1>1. /\ phase = "restore" /\ UNCHANGED <<phase, host, reached>>
      /\ c # None /\ loop.todo = {} /\ heap' = heap /\ loop' = Turn(heap, heap.tmp, After(heap.tmp, c))
  BY DEF GcRestore, EndTurn
<1>2. /\ Common(heap, host) /\ RestoreInv(heap, loop, host, reached)
      /\ reached \in SUBSET Cells
  BY <1>1 DEF IInv, MarkInv, TypeOK
<1>3. heap \in Heaps /\ heap.tmp \in Seq(Cells) /\ IsInjective(heap.tmp)
  BY <1>2 DEF Common, ListsSound, ListsApart, Heaps
<1>4. c \in Range(heap.tmp)
  BY <1>1, <1>2 DEF RestoreInv, Tmp
<1>5. /\ InWalk(heap, Objs(heap), heap.tmp, loop') = InWalk(heap, Objs(heap), heap.tmp, loop)
      /\ loop' \in Loops /\ loop'.cell \in Tmp(heap) \cup {None} /\ loop'.todo \subseteq Children(heap, loop'.cell)
  <2>1. loop.todo \subseteq {} /\ loop.cell \in Range(heap.tmp)
    BY <1>1, <1>4
  <2>2. WalkOn(heap, heap, Objs(heap), heap.tmp, loop, Turn(heap, heap.tmp, After(heap.tmp, loop.cell)))
    BY <1>3, <2>1, WalkTurn
  <2> QED
    BY <1>1, <2>2 DEF Tmp, WalkOn
<1>6. RestoreInv(heap, loop', host, reached)
  BY <1>2, <1>5 DEF RestoreInv
<1>7. MarkInv'
  BY <1>1, <1>6 DEF MarkInv
<1> QED
  BY <1>1, <1>2, <1>5, <1>7, MarkAll

\* All counts are restored.
LEMMA ToRemoveStep ==
  ASSUME IInv, phase = "restore", loop.cell = None, phase' = "remove",
         UNCHANGED <<loop, heap, host, reached>>
  PROVE  IInv'
<1>1. Common(heap, host) /\ RestoreInv(heap, loop, host, reached) /\ TypeOK
  BY DEF IInv, MarkInv
<1>2. \A l \in heap.links : l.from \in Cells
  BY <1>1 DEF Common, Heaps, Links
<1>3. Prior(heap.tmp, loop.cell) = Tmp(heap)
  BY DEF Prior, Tmp
<1>4. \A l \in heap.links : l.from \in Objs(heap) \cup Tmp(heap)
  BY <1>1, <1>2 DEF Common, LinksSound, ListsSound, RestoreInv, Used, Kind
<1>5. InWalk(heap, Objs(heap), heap.tmp, loop) = heap.links
  BY <1>3, <1>4 DEF InWalk, Children
<1>6. Counts(heap, host, heap.links) /\ Kept(heap, host, reached)
  BY <1>1, <1>5 DEF RestoreInv
<1>7. Removal(heap)
  <2>1. Tmp(heap) \subseteq Cells
    BY <1>1, FirstList DEF Common, Heaps, ListsSound, ListsApart, Tmp
  <2> QED
    BY <1>1, <2>1 DEF RestoreInv, Removal, NoZombies
<1>8. RemoveInv'
  BY <1>6, <1>7 DEF RemoveInv
<1>9. TypeOK'
  BY <1>1 DEF TypeOK, Phases
<1>10. Common(heap', host')
  BY <1>1
<1>11. RunInv' /\ FreeInv' /\ MarkInv' /\ SweptInv'
  BY DEF RunInv, FreeInv, MarkInv, SweptInv
<1> QED
  BY <1>8, <1>9, <1>10, <1>11 DEF IInv

\* From one loop to the next.
LEMMA NextLoopStep ==
  ASSUME IInv, NextLoop
  PROVE  IInv'
BY ToScanStep, ToRestoreStep, ToRemoveStep DEF NextLoop

-----------------------------------------------------------------------------
(* gc_free_cycles *)

\* The invariant while cycles are removed.
LEMMA Removing ==
  ASSUME TypeOK, phase = "remove", UNCHANGED <<phase, loop, host, reached>>, Sane(heap', host),
         \A x \in Cells : host[x] > 0 => Kind(heap', x) = "object",
         Kept(heap', host, reached), Removal(heap')
  PROVE  IInv'
<1>1. TypeOK'
  BY DEF TypeOK, Sane
<1>2. Common(heap', host')
  BY SaneCommon
<1>3. Counts(heap', host', heap'.links)
  BY DEF Sane
<1>4. RunInv' /\ FreeInv' /\ MarkInv' /\ SweptInv'
  BY DEF RunInv, FreeInv, MarkInv, SweptInv
<1>5. RemoveInv'
  BY <1>3 DEF RemoveInv
<1> QED
  BY <1>1, <1>2, <1>4, <1>5 DEF IInv

\* What gc_free_cycles finds.
LEMMA AtRemove ==
  ASSUME IInv, phase = "remove"
  PROVE  /\ TypeOK /\ Sane(heap, host) /\ Kept(heap, host, reached) /\ Removal(heap)
         /\ heap \in Heaps /\ host \in [Cells -> Nat] /\ ListsApart(heap) /\ LinksSound(heap)
         /\ Objs(heap) = reached /\ reached \subseteq Cells
         /\ Zero(heap) \subseteq Cells /\ Tmp(heap) \subseteq Cells
         /\ \A x \in Cells : host[x] > 0 => Kind(heap, x) = "object"
<1>1. /\ TypeOK /\ Sane(heap, host) /\ Kept(heap, host, reached) /\ Removal(heap)
      /\ \A x \in Cells : host[x] > 0 => Kind(heap, x) = "object"
  BY IInvSane DEF IInv, RemoveInv, Common
<1>2. heap \in Heaps /\ host \in [Cells -> Nat] /\ ListsApart(heap) /\ LinksSound(heap)
  BY <1>1 DEF Sane, ListsSound
<1>3. Objs(heap) \subseteq Cells /\ Zero(heap) \subseteq Cells /\ Tmp(heap) \subseteq Cells
  BY <1>2, FirstList DEF Heaps, ListsApart, Objs, Zero, Tmp
<1> QED
  BY <1>1, <1>2, <1>3 DEF Kept

\* An object that is removed lets go of what it holds.
LEMMA RemoveLetGo ==
  ASSUME IInv, phase = "remove", UNCHANGED <<phase, loop, host, reached>>, NEW x \in Tmp(heap),
         Kind(heap, x) = "object", LetGo(x)
  PROVE  IInv'
<1>1. /\ TypeOK /\ Sane(heap, host) /\ Kept(heap, host, reached) /\ Removal(heap)
      /\ heap \in Heaps /\ host \in [Cells -> Nat] /\ ListsApart(heap) /\ LinksSound(heap)
      /\ Objs(heap) = reached /\ reached \subseteq Cells
      /\ Zero(heap) \subseteq Cells /\ Tmp(heap) \subseteq Cells
      /\ \A y \in Cells : host[y] > 0 => Kind(heap, y) = "object"
  BY AtRemove
<1>2. x \in Cells /\ x \notin reached
  BY <1>1 DEF ListsApart
<1>3. PICK l \in heap.links : /\ Kind(heap, l.from) = "object"
                              /\ l.weak \/ l.from = x
                              /\ heap' = free_property(Cut(heap, l), l.to)
  BY <1>1, <1>2, LetGoLink
<1> DEFINE d == Cut(heap, l)
           o == Plus(host, l.to)
           y == l.to
<1>4. y \in Cells /\ Kind(heap, y) # "unused"
  BY <1>1, LinkSane
<1>5. Sane(d, o)
  BY <1>1, <1>3, CutSane
<1>6. d.links = heap.links \ {l} /\ d.cell = heap.cell /\ d.objs = heap.objs /\ d.tmp = heap.tmp /\ d.zero = heap.zero
  BY <1>1, CutHeap
<1>7. o[y] > 0 /\ Minus(o, y) = host
  BY <1>1, <1>4, Owners
<1> HIDE DEF d, o
<1>8. \A z \in Cells : Kind(d, z) = Kind(heap, z)
  BY <1>6 DEF Kind
<1>9. Removal(d)
  BY <1>1, <1>6, <1>8 DEF Removal, Zero, Tmp
<1>10. Kept(d, host, reached)
  <2>1. Objs(d) = reached /\ d.links \subseteq heap.links
    BY <1>1, <1>6 DEF Objs
  <2>2. \A m \in heap.links : m \notin d.links => m.weak \/ m.from \notin reached
    BY <1>2, <1>3, <1>6
  <2>3. \A z \in reached : d.cell[z].mark = heap.cell[z].mark /\ Kind(d, z) = Kind(heap, z)
    BY <1>1, <1>6, <1>8
  <2> QED
    BY <1>1, <2>1, <2>2, <2>3, KeptLess
<1>11. Kind(d, y) # "unused"
  BY <1>4, <1>8
<1>12. Kept(heap', host, reached) /\ Removal(heap')
  BY <1>3, <1>4, <1>5, <1>7, <1>9, <1>10, <1>11, PropKept DEF d
<1>13. Sane(heap', host)
  BY <1>3, <1>4, <1>5, <1>7, <1>11, PropSane DEF d
<1>14. \A z \in Cells : host[z] > 0 => Kind(heap', z) = "object"
  <2>1. \A z \in Cells : Kind(d, z) # "var" => Kind(free_property(d, y), z) = Kind(d, z)
    BY <1>4, <1>5, <1>7, <1>11, PropKinds
  <2>2. heap' = free_property(d, y)
    BY <1>3 DEF d
  <2> QED
    BY <1>1, <1>8, <2>1, <2>2
<1> QED
  BY <1>1, <1>12, <1>13, <1>14, Removing

\* g is the heap after x went to gc_zero_ref_count_list: as it is, or, when it
\* is an object that has let go of everything, as one to free at the end.
Moved(x, k, g) ==
  \/ k = Kind(heap, x) /\ g = [Unlink(heap, x) EXCEPT !.zero = Append(@, x)]
  \/ /\ k = "zombie" /\ Kind(heap, x) = "object" /\ HoldsNothing(x)
     /\ g = [Unlink(heap, x) EXCEPT !.zero = Append(@, x), !.cell[x].kind = "zombie"]

\* A cell goes to the end of gc_zero_ref_count_list, as k.
LEMMA ToZeroSane ==
  ASSUME Sane(heap, host), NEW x \in Tmp(heap), NEW k, NEW g,
         Moved(x, k, g)
  PROVE  /\ Sane(g, host) /\ g.links = heap.links
         /\ Objs(g) = Objs(heap) /\ Tmp(g) = Tmp(heap) \ {x} /\ Zero(g) = Zero(heap) \cup {x}
         /\ Kind(g, x) = k
         /\ \A y \in Cells : /\ y # x => g.cell[y] = heap.cell[y]
                             /\ g.cell[y].mark = heap.cell[y].mark
<1> DEFINE u == Unlink(heap, x)
           z == Append(u.zero, x)
<1>1. heap \in Heaps /\ ListsApart(heap) /\ host \in [Cells -> Nat]
  BY DEF Sane, ListsSound
<1>2. x \in Cells /\ x \notin Objs(heap) /\ x \notin Zero(heap)
  BY <1>1, FirstList DEF Heaps, ListsApart, Tmp
<1>3. /\ u \in Heaps /\ u.bad = heap.bad /\ u.links = heap.links /\ u.cell = heap.cell
      /\ ListsApart(u)
      /\ Objs(u) = Objs(heap) \ {x} /\ Tmp(u) = Tmp(heap) \ {x} /\ Zero(u) = Zero(heap) \ {x}
  BY <1>1, <1>2, UnlinkHeap
<1> HIDE DEF u
<1>4. u.zero \in Seq(Cells) /\ IsInjective(u.zero) /\ x \in Cells \ Range(u.zero)
  BY <1>2, <1>3 DEF Heaps, ListsApart, Zero
<1>5. z \in Seq(Cells) /\ IsInjective(z) /\ Range(z) = Range(u.zero) \cup {x}
  BY <1>4, AppendList
<1> HIDE DEF z
<1>6. /\ g \in Heaps /\ g.bad = heap.bad /\ g.links = heap.links
      /\ g.objs = u.objs /\ g.tmp = u.tmp /\ g.zero = z
      /\ \A y \in Cells : /\ g.cell[y].refs = heap.cell[y].refs /\ g.cell[y].mark = heap.cell[y].mark
                          /\ g.cell[y].kind = IF y = x THEN k ELSE heap.cell[y].kind
                          /\ y # x => g.cell[y] = heap.cell[y]
  <2>1. CASE k = Kind(heap, x) /\ g = [Unlink(heap, x) EXCEPT !.zero = Append(@, x)]
    <3>1. g = [u EXCEPT !.zero = z]
      BY <2>1 DEF u, z
    <3> QED
      BY <1>3, <1>5, <2>1, <3>1 DEF Heaps, Kind
  <2>2. CASE k = "zombie" /\ g = [Unlink(heap, x) EXCEPT !.zero = Append(@, x), !.cell[x].kind = "zombie"]
    <3> DEFINE f == [u.cell EXCEPT ![x].kind = "zombie"]
    <3>1. u.cell \in [Cells -> CellType]
      BY <1>3 DEF Heaps
    <3>2. f \in [Cells -> CellType]
      BY <1>2, <3>1 DEF CellType, Kinds
    <3>3. \A y \in Cells : /\ f[y].refs = u.cell[y].refs /\ f[y].mark = u.cell[y].mark
                           /\ f[y].kind = IF y = x THEN "zombie" ELSE u.cell[y].kind
                           /\ y # x => f[y] = u.cell[y]
      BY <1>2, <3>1 DEF CellType
    <3>4. g = [u EXCEPT !.zero = z, !.cell = f]
      BY <1>3, <2>2 DEF Heaps, u, z
    <3> HIDE DEF f
    <3>5. g \in Heaps /\ g.cell = f /\ g.bad = u.bad /\ g.links = u.links
          /\ g.objs = u.objs /\ g.tmp = u.tmp /\ g.zero = z
      BY <1>3, <1>5, <3>2, <3>4 DEF Heaps
    <3>6. k = "zombie" /\ u.cell = heap.cell /\ u.bad = heap.bad /\ u.links = heap.links
      BY <1>3, <2>2
    <3>7. \A y \in Cells : /\ g.cell[y].refs = heap.cell[y].refs /\ g.cell[y].mark = heap.cell[y].mark
                           /\ g.cell[y].kind = IF y = x THEN k ELSE heap.cell[y].kind
                           /\ y # x => g.cell[y] = heap.cell[y]
      BY <3>3, <3>5, <3>6
    <3> QED
      BY <3>5, <3>6, <3>7
  <2> QED
    BY <2>1, <2>2 DEF Moved
<1>7. Objs(g) = Objs(heap) /\ Tmp(g) = Tmp(heap) \ {x} /\ Zero(g) = Zero(heap) \cup {x}
  <2>1. Objs(g) = Objs(u) /\ Tmp(g) = Tmp(u) /\ Zero(g) = Zero(u) \cup {x}
    BY <1>5, <1>6 DEF Objs, Tmp, Zero
  <2> QED
    BY <1>2, <1>3, <2>1
<1>8. ListsApart(g)
  <2>1. IsInjective(g.objs) /\ IsInjective(g.tmp) /\ IsInjective(g.zero)
    BY <1>3, <1>5, <1>6 DEF ListsApart
  <2> QED
    BY <1>1, <1>2, <1>7, <2>1 DEF ListsApart
<1>9. \A y \in Cells : Kind(g, y) = IF y = x THEN k ELSE Kind(heap, y)
  BY <1>6 DEF Kind
<1>10. Kind(heap, x) # "unused" /\ k # "unused" /\ k \in {Kind(heap, x), "zombie"} /\ (k = "var" => Kind(heap, x) = "var")
  <2>1. Kind(heap, x) # "unused"
    BY <1>2 DEF Sane, ListsSound, Used, Kind
  <2> QED
    BY <2>1 DEF Moved
<1>11. ListsSound(g)
  <2>1. {y \in Cells : Used(g, y)} = {y \in Cells : Used(heap, y)}
    BY <1>9, <1>10 DEF Used, Kind
  <2>2. Objs(g) \cup Tmp(g) \cup Zero(g) = Objs(heap) \cup Tmp(heap) \cup Zero(heap)
    BY <1>7
  <2> QED
    BY <1>8, <2>1, <2>2 DEF Sane, ListsSound
<1>12. LinksSound(g)
  <2>1. \A l \in heap.links : l.from \in Cells /\ l.to \in Cells
    BY <1>1 DEF Heaps, Links
  <2>2. LinksSound(heap)
    BY DEF Sane
  <2>3. k = Kind(heap, x) \/ \A l \in heap.links : l.from # x /\ (l.weak => l.at # x)
    BY DEF Moved, HoldsNothing, Children, WeakRefs
  <2>4. CASE k = Kind(heap, x)
    <3>1. \A y \in Cells : Kind(g, y) = Kind(heap, y)
      BY <1>9, <2>4
    <3> QED
      BY <1>1, <1>6, <2>2, <3>1, SameKinds
  <2>5. CASE k # Kind(heap, x)
    <3>1. k = "zombie"
      BY <2>5 DEF Moved
    <3>2. \A l \in heap.links : /\ Kind(g, l.from) = Kind(heap, l.from)
                                /\ l.weak => Kind(g, l.at) = Kind(heap, l.at)
                                /\ Kind(g, l.to) = Kind(heap, l.to) \/ Kind(g, l.to) = "zombie"
      BY <1>9, <2>1, <2>2, <2>3, <2>5, <3>1 DEF LinksSound
    <3> QED
      BY <1>6, <2>2, <3>2 DEF LinksSound
  <2> QED
    BY <2>4, <2>5
<1>13. CellsSound(g, host)
  <2>1. CellsSound(heap, host)
    BY DEF Sane
  <2>2. \A y \in Cells : Kind(g, y) = "unused" => y # x /\ Kind(heap, y) = "unused"
    BY <1>9, <1>10
  <2>3. \A y \in Cells : Kind(g, y) = "var" => Kind(heap, y) = "var"
    BY <1>9, <1>10
  <2> QED
    BY <1>6, <2>1, <2>2, <2>3 DEF CellsSound
<1>14. Counts(g, host, g.links)
  BY <1>6 DEF Sane, Counts, Refs
<1>15. Sane(g, host)
  BY <1>1, <1>6, <1>11, <1>12, <1>13, <1>14 DEF Sane
<1> QED
  BY <1>2, <1>6, <1>7, <1>9, <1>15

\* What gc_free_cycles does with a cell of tmp_obj_list that is done.
LEMMA RemoveMove ==
  ASSUME IInv, phase = "remove", UNCHANGED <<phase, loop, host, reached>>, NEW x \in Tmp(heap), NEW k,
         Moved(x, k, heap'), k # "object"
  PROVE  IInv'
<1>1. /\ TypeOK /\ Sane(heap, host) /\ Kept(heap, host, reached) /\ Removal(heap)
      /\ ListsApart(heap)
      /\ Objs(heap) = reached /\ reached \subseteq Cells
      /\ Zero(heap) \subseteq Cells /\ Tmp(heap) \subseteq Cells
      /\ \A y \in Cells : host[y] > 0 => Kind(heap, y) = "object"
  BY AtRemove
<1>2. x \in Cells /\ x \notin reached /\ x \notin Zero(heap)
  BY <1>1 DEF ListsApart
<1>3. /\ Sane(heap', host) /\ heap'.links = heap.links
      /\ Objs(heap') = Objs(heap) /\ Tmp(heap') = Tmp(heap) \ {x} /\ Zero(heap') = Zero(heap) \cup {x}
      /\ Kind(heap', x) = k
      /\ \A y \in Cells : /\ y # x => heap'.cell[y] = heap.cell[y]
                          /\ heap'.cell[y].mark = heap.cell[y].mark
  BY <1>1, ToZeroSane
<1>4. \A y \in Cells : y # x => Kind(heap', y) = Kind(heap, y)
  BY <1>3 DEF Kind
<1>5. Kept(heap', host, reached)
  BY <1>1, <1>2, <1>3, <1>4 DEF Kept
<1>6. Removal(heap')
  BY <1>1, <1>2, <1>3, <1>4 DEF Removal
<1>7. \A y \in Cells : host[y] > 0 => Kind(heap', y) = "object"
  BY <1>1, <1>2, <1>4 DEF Kept
<1> QED
  BY <1>1, <1>3, <1>5, <1>6, <1>7, Removing

\* An object that nothing refers to any more is freed at once.
LEMMA RemoveFree ==
  ASSUME IInv, phase = "remove", UNCHANGED <<phase, loop, host, reached>>, NEW x \in Tmp(heap),
         Kind(heap, x) = "object", HoldsNothing(x), Refs(heap, x) = 0,
         heap' = Free(Unlink(heap, x), x)
  PROVE  IInv'
<1>1. /\ TypeOK /\ Sane(heap, host) /\ Kept(heap, host, reached) /\ Removal(heap)
      /\ ListsApart(heap)
      /\ Objs(heap) = reached /\ reached \subseteq Cells
      /\ Zero(heap) \subseteq Cells /\ Tmp(heap) \subseteq Cells
      /\ \A y \in Cells : host[y] > 0 => Kind(heap, y) = "object"
  BY AtRemove
<1>2. x \in Cells /\ x \notin reached /\ x \notin Zero(heap)
  BY <1>1 DEF ListsApart
<1>3. /\ Sane(heap', host) /\ heap'.links = heap.links
      /\ Objs(heap') = Objs(heap) \ {x} /\ Tmp(heap') = Tmp(heap) \ {x} /\ Zero(heap') = Zero(heap) \ {x}
      /\ \A y \in Cells : y # x => heap'.cell[y] = heap.cell[y]
      /\ host[x] = 0
  BY <1>1, <1>2, FinishSane
<1>4. \A y \in Cells : y # x => Kind(heap', y) = Kind(heap, y)
  BY <1>3 DEF Kind
<1>5. Objs(heap') = reached
  BY <1>1, <1>2, <1>3
<1>6. Kept(heap', host, reached)
  BY <1>1, <1>2, <1>3, <1>4, <1>5 DEF Kept
<1>7. Removal(heap')
  BY <1>1, <1>2, <1>3, <1>4 DEF Removal
<1>8. \A y \in Cells : host[y] > 0 => Kind(heap', y) = "object"
  BY <1>1, <1>3, <1>4
<1> QED
  BY <1>1, <1>3, <1>6, <1>7, <1>8, Removing

\* gc_free_cycles, first loop.
LEMMA GcRemoveStep ==
  ASSUME IInv, GcRemove
  PROVE  IInv'
<1> DEFINE x == Head(heap.tmp)
<1>1. phase = "remove" /\ heap.tmp # <<>> /\ UNCHANGED <<phase, loop, host, reached>>
  BY DEF GcRemove
<1>2. x \in Tmp(heap)
  <2>1. heap.tmp \in Seq(Cells) /\ IsInjective(heap.tmp)
    BY <1>1, AtRemove DEF Heaps, ListsApart
  <2>2. First(heap.tmp) = x
    BY <1>1 DEF First
  <2>3. First(heap.tmp) \in Range(heap.tmp) \cup {None} /\ (First(heap.tmp) = None <=> heap.tmp = <<>>)
    BY <2>1, FirstList
  <2> QED
    BY <1>1, <2>2, <2>3 DEF Tmp
<1> HIDE DEF x
<1>3. CASE Kind(heap, x) = "object" /\ LetGo(x)
  BY <1>1, <1>2, <1>3, RemoveLetGo
<1>4. CASE Kind(heap, x) = "object" /\ HoldsNothing(x) /\ heap' = free_object(heap, x)
  <2>1. CASE Refs(heap, x) # 0
    <3>1. heap' = [Unlink(heap, x) EXCEPT !.zero = Append(@, x), !.cell[x].kind = "zombie"]
      BY <1>1, <1>4, <2>1 DEF free_object
    <3> QED
      BY <1>1, <1>2, <1>4, <3>1, RemoveMove DEF Moved
  <2>2. CASE Refs(heap, x) = 0
    <3>1. heap' = Free(Unlink(heap, x), x)
      BY <1>1, <1>4, <2>2 DEF free_object
    <3> QED
      BY <1>1, <1>2, <1>4, <2>2, <3>1, RemoveFree
  <2> QED
    BY <2>1, <2>2
<1>5. CASE Kind(heap, x) # "object" /\ heap' = [Unlink(heap, x) EXCEPT !.zero = Append(@, x)]
  BY <1>1, <1>2, <1>5, RemoveMove DEF Moved
<1> QED
  BY <1>3, <1>4, <1>5 DEF GcRemove, Kind, x

\* When the first loop is over, what waits in gc_zero_ref_count_list are
\* objects that were kept for the references to them, and no link leads there.
LEMMA ZeroZombies ==
  ASSUME IInv, phase = "remove", heap.tmp = <<>>
  PROVE  /\ \A x \in Zero(heap) : /\ Kind(heap, x) = "zombie" /\ host[x] = 0
                                  /\ \A l \in heap.links : l.from # x /\ l.to # x /\ (l.weak => l.at # x)
         /\ Objs(heap) \cup Zero(heap) = {x \in Cells : Used(heap, x)}
<1>1. /\ TypeOK /\ Sane(heap, host) /\ Kept(heap, host, reached) /\ Removal(heap)
      /\ heap \in Heaps /\ host \in [Cells -> Nat] /\ ListsApart(heap) /\ LinksSound(heap)
      /\ Objs(heap) = reached /\ reached \subseteq Cells
      /\ Zero(heap) \subseteq Cells
  BY AtRemove
<1>2. Tmp(heap) = {}
  BY DEF Tmp, Range
<1>3. Objs(heap) \cup Zero(heap) = {x \in Cells : Used(heap, x)}
  BY <1>1, <1>2 DEF Sane, ListsSound
<1>4. \A l \in heap.links : l.from \in Cells /\ l.to \in Cells /\ l.from \in Objs(heap) \cup Zero(heap)
  BY <1>1, <1>3 DEF Heaps, Links, LinksSound, Used, Kind
<1>5. \A x \in Zero(heap) : x \notin reached /\ Kind(heap, x) # "object" /\ host[x] = 0 /\ Kind(heap, x) # "unused"
  <2>1. \A x \in Zero(heap) : x \notin reached /\ Kind(heap, x) # "object"
    BY <1>1 DEF ListsApart, Removal
  <2>2. \A x \in Zero(heap) : ~(host[x] > 0) /\ host[x] \in Nat
    BY <1>1, <2>1 DEF Kept
  <2>3. \A x \in Zero(heap) : Kind(heap, x) # "unused"
    BY <1>1, <1>3 DEF Used, Kind
  <2> QED
    BY <2>1, <2>2, <2>3
<1>6. ASSUME NEW l \in heap.links, Kind(heap, l.from) = "object"
      PROVE  l.to \notin Zero(heap)
  <2>1. l.from \in reached
    BY <1>1, <1>4, <1>5, <1>6
  <2>2. l.to \in reached
    BY <1>1, <2>1 DEF Kept
  <2> QED
    BY <1>5, <2>2
<1>7. ASSUME NEW x \in Zero(heap) PROVE Kind(heap, x) # "var"
  <2> SUFFICES ASSUME Kind(heap, x) = "var" PROVE FALSE
    OBVIOUS
  <2>1. x \in Cells /\ ~(host[x] > 0)
    BY <1>1, <1>5
  <2>2. PICK l \in heap.links : l.to = x
    BY <1>1, <2>1 DEF Sane, CellsSound
  <2>3. Kind(heap, l.from) = "object"
    BY <1>1, <2>2 DEF LinksSound
  <2> QED
    BY <1>6, <2>2, <2>3
<1>8. \A x \in Zero(heap) : Kind(heap, x) = "zombie"
  <2>1. \A x \in Zero(heap) : Kind(heap, x) \in Kinds
    BY <1>1 DEF Heaps, CellType, Kind
  <2> QED
    BY <1>5, <1>7, <2>1 DEF Kinds
<1>9. \A l \in heap.links : l.from \notin Zero(heap) /\ l.to \notin Zero(heap) /\ (l.weak => l.at \notin Zero(heap))
  <2> SUFFICES ASSUME NEW l \in heap.links
               PROVE  l.from \notin Zero(heap) /\ l.to \notin Zero(heap) /\ (l.weak => l.at \notin Zero(heap))
    OBVIOUS
  <2>1. l.from \notin Zero(heap) /\ (l.weak => l.at \notin Zero(heap))
    BY <1>1, <1>8 DEF LinksSound
  <2>2. l.from \in reached
    BY <1>1, <1>4, <2>1
  <2>3. l.to \in reached
    BY <1>1, <2>2 DEF Kept
  <2> QED
    BY <1>5, <2>1, <2>3
<1> QED
  BY <1>3, <1>5, <1>8, <1>9

\* gc_free_cycles, second loop.
LEMMA GcSweepStep ==
  ASSUME IInv, GcSweep
  PROVE  IInv'
<1> DEFINE f == [x \in Cells |-> IF x \in Zero(heap) THEN Unused ELSE heap.cell[x]]
<1>1. /\ phase = "remove" /\ heap.tmp = <<>> /\ phase' = "swept" /\ UNCHANGED <<loop, host, reached>>
      /\ heap' = [heap EXCEPT !.cell = f, !.zero = <<>>]
  BY DEF GcSweep, Zero
<1>2. /\ TypeOK /\ Sane(heap, host) /\ Kept(heap, host, reached)
      /\ heap \in Heaps /\ host \in [Cells -> Nat] /\ ListsApart(heap) /\ LinksSound(heap)
      /\ Objs(heap) = reached /\ reached \subseteq Cells
      /\ Zero(heap) \subseteq Cells
      /\ \A x \in Cells : host[x] > 0 => Kind(heap, x) = "object"
  BY <1>1, AtRemove
<1>3. /\ \A x \in Zero(heap) : /\ Kind(heap, x) = "zombie" /\ host[x] = 0
                               /\ \A l \in heap.links : l.from # x /\ l.to # x /\ (l.weak => l.at # x)
      /\ Objs(heap) \cup Zero(heap) = {x \in Cells : Used(heap, x)}
  BY <1>1, ZeroZombies
<1>4. f \in [Cells -> CellType]
  BY <1>2 DEF Heaps, CellType, Kinds, Unused
<1> HIDE DEF f
<1>5. /\ heap' \in Heaps /\ heap'.cell = f /\ heap'.bad = heap.bad /\ heap'.links = heap.links
      /\ heap'.objs = heap.objs /\ heap'.tmp = <<>> /\ heap'.zero = <<>>
  BY <1>1, <1>2, <1>4 DEF Heaps
<1>6. \A x \in Cells : heap'.cell[x] = IF x \in Zero(heap) THEN Unused ELSE heap.cell[x]
  BY <1>5 DEF f
<1>7. Objs(heap') = reached /\ Tmp(heap') = {} /\ Zero(heap') = {} /\ IsInjective(<<>>)
  BY <1>2, <1>5 DEF Objs, Tmp, Zero, Range, IsInjective
<1>8. \A x \in Cells : Kind(heap', x) = IF x \in Zero(heap) THEN "unused" ELSE Kind(heap, x)
  BY <1>6 DEF Kind, Unused
<1>9. LinksSound(heap')
  <2>1. \A l \in heap.links : l.from \in Cells /\ l.to \in Cells /\ l.from \notin Zero(heap) /\ l.to \notin Zero(heap)
                              /\ (l.weak => l.at \notin Zero(heap))
    BY <1>2, <1>3 DEF Heaps, Links
  <2>2. \A l \in heap.links : Kind(heap', l.from) = Kind(heap, l.from) /\ Kind(heap', l.to) = Kind(heap, l.to)
                              /\ (l.weak => Kind(heap', l.at) = Kind(heap, l.at))
    BY <1>2, <1>8, <2>1 DEF LinksSound
  <2> QED
    BY <1>2, <1>5, <2>2 DEF LinksSound
<1>10. CellsSound(heap', host)
  <2>1. CellsSound(heap, host)
    BY <1>2 DEF Sane
  <2> QED
    BY <1>5, <1>6, <1>8, <2>1 DEF CellsSound
<1>11. ListsSound(heap')
  <2>1. {x \in Cells : Used(heap', x)} = {x \in Cells : Used(heap, x)} \ Zero(heap)
    BY <1>8 DEF Used, Kind
  <2>2. Objs(heap') \cup Tmp(heap') \cup Zero(heap') = {x \in Cells : Used(heap', x)}
    BY <1>2, <1>3, <1>7, <2>1 DEF ListsApart
  <2>3. ListsApart(heap')
    BY <1>2, <1>5, <1>7 DEF ListsApart
  <2> QED
    BY <2>2, <2>3 DEF ListsSound
<1>12. Counts(heap', host, heap'.links)
  <2>1. \A x \in Cells : Refs(heap', x) = IF x \in Zero(heap) THEN 0 ELSE Refs(heap, x)
    BY <1>6 DEF Refs, Unused
  <2>2. \A x \in Zero(heap) : Count(heap.links, x) = 0
    BY <1>2, <1>3, CountNat DEF LinksSound
  <2>3. Counts(heap, host, heap.links)
    BY <1>2 DEF Sane
  <2> QED
    BY <1>3, <1>5, <2>1, <2>2, <2>3 DEF Counts
<1>13. Sane(heap', host)
  BY <1>2, <1>5, <1>9, <1>10, <1>11, <1>12 DEF Sane
<1>14. \A x \in Cells : host[x] > 0 => Kind(heap', x) = "object"
  <2>1. \A x \in Zero(heap) : ~(host[x] > 0)
    BY <1>3
  <2> QED
    BY <1>2, <1>8, <2>1
<1>15. Quiet(heap')
  <2>1. \A x \in Cells : heap'.cell[x].mark = 0 /\ Kind(heap', x) # "zombie"
    <3> SUFFICES ASSUME NEW x \in Cells PROVE heap'.cell[x].mark = 0 /\ Kind(heap', x) # "zombie"
      OBVIOUS
    <3>1. CASE x \in Zero(heap)
      BY <1>6, <1>8, <3>1 DEF Unused
    <3>2. CASE x \notin Zero(heap) /\ x \in reached
      BY <1>2, <1>6, <1>8, <3>2 DEF Kept
    <3>3. CASE x \notin Zero(heap) /\ x \notin reached
      <4>1. Kind(heap, x) = "unused"
        BY <1>2, <1>3, <3>3 DEF Used, Kind
      <4>2. heap.cell[x] = Unused
        BY <1>2, <4>1 DEF Sane, CellsSound
      <4> QED
        BY <1>6, <1>8, <3>3, <4>1, <4>2 DEF Unused
    <3> QED
      BY <3>1, <3>2, <3>3
  <2> QED
    BY <1>7, <2>1 DEF Quiet
<1>16. TypeOK'
  BY <1>1, <1>2, <1>5 DEF TypeOK, Phases
<1>17. Common(heap', host')
  BY <1>1, <1>13, <1>14, SaneCommon
<1>18. SweptInv'
  BY <1>1, <1>7, <1>12, <1>15 DEF SweptInv
<1>19. RunInv' /\ FreeInv' /\ MarkInv' /\ RemoveInv'
  BY <1>1 DEF RunInv, FreeInv, MarkInv, RemoveInv
<1> QED
  BY <1>16, <1>17, <1>18, <1>19 DEF IInv

\* JS_RunGC returns.
LEMMA GcReturnStep ==
  ASSUME IInv, GcReturn
  PROVE  IInv'
<1>1. phase = "swept" /\ phase' = "run" /\ reached' = {} /\ UNCHANGED <<heap, loop, host>>
  BY DEF GcReturn
<1>2. TypeOK' /\ Common(heap', host')
  BY <1>1 DEF IInv, TypeOK, Phases
<1>3. RunInv' /\ FreeInv' /\ MarkInv' /\ RemoveInv' /\ SweptInv'
  BY <1>1 DEF IInv, RunInv, FreeInv, MarkInv, RemoveInv, SweptInv
<1> QED
  BY <1>2, <1>3 DEF IInv

-----------------------------------------------------------------------------
(* Theorems *)

\* Every step of the script, of free_zero_refcount and of JS_RunGC keeps the
\* invariant.
LEMMA Inductive ==
  ASSUME IInv, [Next]_vars
  PROVE  IInv'
<1>1. CASE Script
  <2>1. CASE JS_NewObject
    BY <2>1, NewObjectStep
  <2>2. CASE \E x \in Cells : Release(x)
    BY <2>2, ReleaseStep
  <2>3. CASE \E l \in heap.links : GetProperty(l)
    BY <2>3, GetPropertyStep
  <2>4. CASE \E x \in Cells, s \in Slots, y \in Cells \cup {None}, keeps \in BOOLEAN : SetProperty(x, s, y, keeps)
    BY <2>4, SetPropertyStep
  <2>5. CASE \E x, y \in Cells, s \in Slots : Capture(x, s, y)
    BY <2>5, CaptureStep
  <2>6. CASE \E l \in heap.links, z \in Cells, t \in Slots : Share(l, z, t)
    BY <2>6, ShareStep
  <2>7. CASE \E m, k, y \in Cells : WeakSet(m, k, y)
    BY <2>7, WeakSetStep
  <2>8. CASE \E l \in heap.links : WeakDelete(l)
    BY <2>8, WeakDeleteStep
  <2> QED
    BY <1>1, <2>1, <2>2, <2>3, <2>4, <2>5, <2>6, <2>7, <2>8 DEF Script
<1>2. CASE FreeNext
  BY <1>2, FreeNextStep
<1>3. CASE StartGC
  BY <1>3, StartGCStep
<1>4. CASE JS_RunGC
  BY <1>4, DecrefChildStep, GcDecrefStep, ScanChildStep, GcScanStep, RestoreChildStep, GcRestoreStep,
     NextLoopStep, GcRemoveStep, GcSweepStep, GcReturnStep DEF JS_RunGC
<1>5. CASE UNCHANGED vars
  BY <1>5 DEF vars, IInv, TypeOK, RunInv, FreeInv, MarkInv, RemoveInv, SweptInv
<1> QED
  BY <1>1, <1>2, <1>3, <1>4, <1>5 DEF Next

\* For any number of cells, slots, host references and weak records, the
\* engine keeps its heap in the invariant: what the counts of add_gc_object,
\* JS_DupValue and JS_FreeValueRT stand for in each phase of JS_RunGC.
THEOREM HeapInvariant == Spec => []IInv
<1>1. Init => IInv
  BY InitStep
<1>2. IInv /\ [Next]_vars => IInv'
  BY Inductive
<1> QED
  BY <1>1, <1>2, PTL DEF Spec

\* The heap, its lists and the loops stay well formed.
THEOREM HeapTypes == Spec => []TypeOK
<1>1. IInv => TypeOK
  BY DEF IInv
<1> QED
  BY <1>1, HeapInvariant, PTL

\* Neither the script, nor free_zero_refcount, nor JS_RunGC touches a cell
\* that __JS_FreeValueRT or gc_free_cycles has freed.
THEOREM SafeMemory == Spec => []NoUseAfterFree
<1>1. IInv => NoUseAfterFree
  BY DEF IInv, Common, NoUseAfterFree
<1> QED
  BY <1>1, HeapInvariant, PTL

\* Whenever the script runs, the counts that JS_DupValue, JS_FreeValueRT and
\* the collector maintain are exact, and gc_obj_list holds every cell once.
THEOREM ExactCounts == Spec => []CountsExact
<1>1. IInv => CountsExact
  <2> SUFFICES ASSUME IInv, phase = "run" PROVE CountsExact
    BY DEF CountsExact
  <2>1. /\ Sane(heap, host) /\ Quiet(heap) /\ Zero(heap) = {}
        /\ heap \in Heaps /\ host \in [Cells -> Nat]
    BY AtRun
  <2>2. \A x \in Cells : Refs(heap, x) = host[x] + Incoming(x)
    BY <2>1 DEF Sane, Counts, Count, Incoming
  <2>3. \A x \in Cells : heap.cell[x].mark = 0
    BY <2>1 DEF Quiet
  <2>4. \A x \in Cells : ~Used(heap, x) => Refs(heap, x) = 0
    BY <2>1 DEF Sane, CellsSound, Used, Kind, Refs, Unused
  <2>5. \A l \in heap.links : Used(heap, l.from) /\ Used(heap, l.to) /\ (l.weak => Used(heap, l.at))
    BY <2>1 DEF Sane, LinksSound, Used, Kind
  <2>6. ListsSound(heap) /\ Tmp(heap) = {}
    BY <2>1 DEF Sane, Quiet
  <2>7. heap.tmp = <<>> /\ heap.zero = <<>>
    BY <2>1, <2>6, FirstList DEF Heaps, ListsSound, ListsApart, Tmp, Zero
  <2>8. IsInjective(heap.objs) /\ Range(heap.objs) = {x \in Cells : Used(heap, x)}
    BY <2>1, <2>6 DEF ListsSound, ListsApart, Objs
  <2> QED
    BY <2>2, <2>3, <2>4, <2>5, <2>7, <2>8 DEF CountsExact
<1> QED
  BY <1>1, HeapInvariant, PTL

\* JS_RunGC frees all that was out of the host's reach when it started,
\* cycles through captured variables and weak maps included, and nothing else.
THEOREM Collection == Spec => []CollectsGarbage
<1>1. IInv => CollectsGarbage
  <2> SUFFICES ASSUME IInv, phase = "swept" PROVE {x \in Cells : Used(heap, x)} = reached
    BY DEF CollectsGarbage
  <2>1. Quiet(heap) /\ Zero(heap) = {} /\ Objs(heap) = reached
    BY DEF IInv, SweptInv
  <2>2. Objs(heap) \cup Tmp(heap) \cup Zero(heap) = {x \in Cells : Used(heap, x)}
    BY DEF IInv, Common, ListsSound
  <2> QED
    BY <2>1, <2>2 DEF Quiet
<1> QED
  BY <1>1, HeapInvariant, PTL

\* The assertions in free_zero_refcount, gc_decref, gc_scan and
\* gc_free_cycles never fail.
THEOREM Assertions == Spec => []AssertsHold
<1>1. IInv => AssertsHold
  <2> SUFFICES ASSUME IInv PROVE AssertsHold
    OBVIOUS
  <2>1. phase = "free" => Refs(heap, loop.cell) = 0
    BY DEF IInv, FreeInv, Quiet
  <2>2. ASSUME phase = "decref", loop.cell # None PROVE heap.cell[loop.cell].mark = 0
    <3>1. DecrefInv(heap, loop, host) /\ heap.objs \in Seq(Cells) /\ IsInjective(heap.objs)
      BY <2>2 DEF IInv, MarkInv, Common, Heaps, ListsSound, ListsApart
    <3>2. loop.cell \in Objs(heap)
      BY <2>2, <3>1 DEF DecrefInv
    <3>3. loop.cell \notin Prior(heap.objs, loop.cell)
      BY <3>1, <3>2, AfterList DEF Objs
    <3> QED
      BY <3>1, <3>2, <3>3 DEF DecrefInv
  <2>3. phase = "scan" /\ loop.cell # None => Refs(heap, loop.cell) > 0
    BY DEF IInv, MarkInv, ScanInv
  <2>4. phase = "remove" /\ heap.tmp = <<>> => \A x \in Range(heap.zero) : heap.cell[x].kind = "zombie"
    BY ZeroZombies DEF Zero, Kind
  <2> QED
    BY <2>1, <2>2, <2>3, <2>4 DEF AssertsHold
<1> QED
  BY <1>1, HeapInvariant, PTL

=============================================================================
